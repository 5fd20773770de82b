\* An NXDOMAIN whose SOA allows a second.
SPECIFICATION Spec
CONSTANTS
    Name <- Names
    Fold <- Lowered
    Root = "root"
    Host = "h"
    Stranger = "else"
    Zones <- MCZones
    Depth = 2
    U32Max = 4
    NegativeTtlSecs = 2
    NegativeMax = 3
    Sockets = 2
    MaxStrays = 1
    MaxRepeats = 1
INVARIANT AbsenceWithinSoa
CHECK_DEADLOCK FALSE
