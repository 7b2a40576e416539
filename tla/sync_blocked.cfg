SPECIFICATION FairSpec
CONSTANTS
    v1 = v1
    v2 = v2
    n1 = n1
    Big = Big
    small = small
    prod = prod
    test = test
    mine = mine
    Order <- OnlyVpcs
    Clouds <- TwoClouds
    Universe <- Capital
    Lower <- ById
    UserDomains <- Nothing
    Limit <- TwoMoves
PROPERTIES
    EveryValidMirrored
