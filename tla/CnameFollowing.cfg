\* Every zone of three names, one of which may change.
SPECIFICATION FairSpec
CONSTANTS
    n1 = n1
    n2 = n2
    n3 = n3
    Name <- ThreeNames
    Fold <- SameCase
    Host = n1
    Depth = 2
    Ttl <- Ttls
    U32Max = 3
    MaxChanges = 1
INVARIANTS
    TypeOK
    AnswersOnChain
    FindsTheEnd
    AliasesBoundTtl
PROPERTIES
    QueryEnds
\* A query is over once it has its result.
CHECK_DEADLOCK FALSE
