CHECK_DEADLOCK FALSE
SPECIFICATION ReplicasFairSpec
CONSTANTS
    a = a
    i1 = i1
    Names = {a}
    Ids = {i1}
    MayUse <- Own
    States = {"SUCCESS"}
    NoObj = NoObj
    NoStatus = NoStatus
    Free = {}
    Limit <- Rollout
    NoName = NoName
    ServerForgives = TRUE
INVARIANTS
    ReplicasTypeOK
    IntentKeptByAll
    NoOrphanIfLed
    LedIInv
    PairIInv
PROPERTIES
    ServiceKeptIfLed
    ServedByAny
