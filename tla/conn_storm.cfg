CHECK_DEADLOCK FALSE
SPECIFICATION FairSpec
CONSTANTS
    a = a
    b = b
    i1 = i1
    i2 = i2
    Names = {a}
    Ids = {i1, i2}
    MayUse <- Editable
    States = {"SUCCESS"}
    NoObj = NoObj
    NoStatus = NoStatus
    Free = {}
    Limit <- Storm
    NoName = NoName
    ServerForgives = TRUE
INVARIANTS
    DeletionKept
    DeletionIInv
    Registered
PROPERTIES
    Released
