CHECK_DEADLOCK FALSE
SPECIFICATION AppSpec
CONSTANTS
    a = a
    b = b
    i1 = i1
    i2 = i2
    i3 = i3
    Names = {a, b}
    Ids = {i1, i2, i3}
    MayUse <- Uses
    States = {"SUCCESS"}
    NoObj = NoObj
    NoStatus = NoStatus
    Free = {}
    Limit <- Limits
    NoName = NoName
    ServerForgives = FALSE
    Poison = {i3}
INVARIANTS
    AppTypeOK
    NoOrphan
    IntentKept
PROPERTIES
    ServiceKept
    DropsNothing
    ReconcilesAlike
