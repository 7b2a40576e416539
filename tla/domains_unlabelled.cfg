SPECIFICATION FairSpec
CONSTANTS
    v1 = v1
    v2 = v2
    n1 = n1
    Big = Big
    small = small
    prod = prod
    test = test
    mine = mine
    Order <- VpcsFirst
    Clouds <- TwoClouds
    Universe <- Nothing
    Lower <- ById
    UserDomains <- Unlabelled
    Limit <- OneUser
PROPERTIES
    OnlyDiscoveredDeleted
