SPECIFICATION FairSpec
CONSTANTS
    a = a
    i1 = i1
    i2 = i2
    Names = {a}
    Ids = {i1, i2}
    MayUse <- Either
    States = {"SUCCESS", "FAILED"}
    NoObj = NoObj
    NoStatus = NoStatus
    Free = {}
    Limit <- Gone
    NotServed = NotServed
    RecordsId = FALSE
PROPERTIES
    StatusActual
