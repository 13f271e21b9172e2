SPECIFICATION FairShapesSpec
CONSTANTS
    Sess = {"a", "x", "t"}
    Wire = {"a", "x"}
    Seated = {"a"}
    Conns = {1}
    Users = {1, 2}
    ConnOf <- OneConn
    UserOf <- TwoUsers
    WireOverhead = 2
    GlobalCap = 2
    PerUserCap = 1
    LeaseCap = 1
    ResidentCap = 4
    MayTransact = {"a"}
    MayExpire = {"a"}
    MayDrain = {1}
    MayStop = TRUE
    Shapes <- LiveShapes
PROPERTY ClosingLeaves
PROPERTY WaiterAnswered
CHECK_DEADLOCK FALSE
