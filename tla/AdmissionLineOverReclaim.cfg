SPECIFICATION Spec
CONSTANTS
    Sess = {"a", "b", "x", "y"}
    Wire = {"a", "b", "x", "y"}
    Seated = {"a", "b"}
    Conns = {1}
    Users = {1}
    ConnOf <- OneConn
    UserOf <- OneUser
    WireOverhead = 2
    GlobalCap = 5
    PerUserCap = 5
    LeaseCap = 2
    ResidentCap = 0
    MayTransact = {}
    MayExpire = {}
    MayDrain = {}
    MayStop = FALSE
PROPERTY NoOverReclaim
CHECK_DEADLOCK FALSE
