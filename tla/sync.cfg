SPECIFICATION FairSpec
CONSTANTS
    v1 = v1
    v2 = v2
    n1 = n1
    Big = Big
    small = small
    prod = prod
    test = test
    mine = mine
    Order <- SixKinds
    Clouds <- TwoClouds
    Universe <- Proper
    Lower <- ById
    UserDomains <- Labelled
    Limit <- Some
INVARIANTS
    TypeOK
    SyncIInv
PROPERTIES
    DeletesOnlyGone
    UserDomainsKept
    Converges
