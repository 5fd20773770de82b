\* Three queries of two nameservers, two of them under one id, over the cap of two idle
\* connections.
SPECIFICATION Spec
CONSTANTS
    q1 = q1
    q2 = q2
    q3 = q3
    c1 = c1
    c2 = c2
    c3 = c3
    k1 = k1
    k2 = k2
    Query <- Calls
    Accepts <- SameId
    Conn <- ThreeConns
    Key <- TwoKeys
    MaxIdlePerKey = 2
    IdleTimeout = 2
    PruneInterval = 2
    MaxFrames = 1
SYMMETRY Interchangeable
INVARIANTS
    TypeOK
    BoundedIdle
    Custody
    AnswerIsOwn
    FailsOnlyFresh
PROPERTIES
    PrunerEnds
\* A dropped pool's process is over.
CHECK_DEADLOCK FALSE
