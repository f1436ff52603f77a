SPECIFICATION TreeSpec
CONSTANTS
    d1 = d1
    Leaves <- LookalikeLeaves
    MaxLeaves = 8
INVARIANTS
    EveryLeafProvable
    ProofsBindLeaf
    RootIsByLevels
    RootCommits
    ImplementationsAgree
    InclusionBindsLeaf
    ExtendsItsPast
    PastIsFixed
CHECK_DEADLOCK FALSE
