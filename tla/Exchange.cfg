\* Every transport, nameserver and zone; one stray, and one answer sent twice.
SPECIFICATION Spec
CONSTANTS
    Name <- Names
    Fold <- Lowered
    Root = "root"
    Host = "h"
    Stranger = "else"
    Zones <- MCZones
    Depth = 2
    U32Max = 4
    NegativeTtlSecs = 2
    NegativeMax = 3
    Sockets = 2
    MaxStrays = 1
    MaxRepeats = 1
INVARIANTS
    TypeOK
    VerdictIsOwn
    HealthyIsHeard
    EndpointsReadBack
\* An exchange is over once it has its verdict.
CHECK_DEADLOCK FALSE
