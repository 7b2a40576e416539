CHECK_DEADLOCK FALSE
SPECIFICATION BriefSpec
CONSTANTS
    a = a
    i1 = i1
    i2 = i2
    Names = {a}
    Ids = {i1, i2}
    MayUse <- Either
    States = {"SUCCESS", "FAILED"}
    NoObj = NoObj
    NoStatus = NoStatus
    Free = {"status"}
    Limit <- Busy
    WatchLimit <- Seen
    Opening = {"SUCCESS"}
    NoName = NoName
    ServerForgives = FALSE
    NotServed = NotServed
    RecordsId = TRUE
INVARIANTS
    OperatorTypeOK
    ShowsTruth
PROPERTIES
    ReconcilerAsAlone
    Settles
