CHECK_DEADLOCK FALSE
SPECIFICATION FairSpec
CONSTANTS
    a = a
    b = b
    i1 = i1
    i2 = i2
    Names = {a, b}
    Ids = {i1, i2}
    MayUse <- Disjoint
    States = {"SUCCESS"}
    NoObj = NoObj
    NoStatus = NoStatus
    Free = {}
    Limit <- Safety
    NoName = NoName
    ServerForgives = TRUE
INVARIANTS
    TypeOK
    IInv
    IntentIInv
    NoOrphan
    IntentKept
PROPERTIES
    ServiceKept
    Converges
    KeepsPromise
    KeepsPromiseInTime
