SPECIFICATION Spec
CONSTANTS
    Sess = {"a", "x"}
    Wire = {"a", "x"}
    Seated = {"a"}
    Conns = {1}
    Users = {1}
    ConnOf <- OneConn
    UserOf <- OneUser
    WireOverhead = 2
    GlobalCap = 5
    PerUserCap = 5
    LeaseCap = 1
    ResidentCap = 0
    MayTransact = {"a"}
    MayExpire = {}
    MayDrain = {}
    MayStop = FALSE
INVARIANT NoStrandedWaiter
CHECK_DEADLOCK FALSE
