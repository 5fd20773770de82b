\* Every way to add nameservers to a builder in two calls, and a reset on another network.
SPECIFICATION Spec
CONSTANTS
    Network <- Networks
    NoConfig <- Nothing
    Explicit <- ExplicitLists
    Interleaved <- Merges
    Providers <- Selections
    Host <- Hosts
    Labels <- LabelCounts
    Dotted = {"relay."}
    Bare <- WithoutDot
    Localhost = {"localhost"}
    Unusable <- Invalid
    DefaultNdots = 1
    Wave = 3
    MaxCalls = 2
    MaxResolvers = 2
    MaxChanges = 1
INVARIANTS
    TypeOK
    TiersFollowMode
    HttpsInFirstWave
    OverridesPrecedeDns
    UnsharedNamesDialRight
CHECK_DEADLOCK FALSE
