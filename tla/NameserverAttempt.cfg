\* The constants of the code, in units of 300ms.
SPECIFICATION FairSpec
CONSTANTS
    Datagrams = 6
    Paced = 3
    JoinDelay = 3
    Timeout = 20
    Intervals <- Measured
INVARIANTS
    TypeOK
    GivesUpAfterTcp
    TcpJoinsOnTime
    PacedSends
PROPERTIES
    Returns
\* An attempt is over once it has its result.
CHECK_DEADLOCK FALSE
