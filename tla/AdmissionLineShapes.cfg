SPECIFICATION ShapesSpec
CONSTANTS
    Sess = {"a", "b", "x", "y", "z"}
    Wire = {"a", "b", "x", "y", "z"}
    Seated = {"a", "b"}
    Conns = {1, 2}
    Users = {1}
    ConnOf <- ShapeConns
    UserOf <- OneUser
    WireOverhead = 2
    GlobalCap = 5
    PerUserCap = 5
    LeaseCap = 2
    ResidentCap = 0
    MayTransact = {"a", "b", "x"}
    MayExpire = {"b", "x", "y"}
    MayDrain = {1}
    MayStop = TRUE
    Shapes <- SafetyShapes
INVARIANTS
    CountersTrue
    NoOrphanedSeat
    VictimQuiet
    NothingComingIsTrue
    NoLostWaiter
    NoIdleCapacity
    DemandHonest
PROPERTIES
    NoOvertaking
    NoOverReclaim
CHECK_DEADLOCK FALSE
