\* Two nameservers for DNS over HTTPS with one name and two addresses.
SPECIFICATION Spec
CONSTANTS
    Network <- Networks
    NoConfig <- Nothing
    Explicit <- ExplicitLists
    Interleaved <- SharedMerges
    Providers = {}
    Host <- Hosts
    Labels <- LabelCounts
    Dotted = {"relay."}
    Bare <- WithoutDot
    Localhost = {"localhost"}
    Unusable <- Invalid
    DefaultNdots = 1
    Wave = 3
    MaxCalls = 2
    MaxResolvers = 1
    MaxChanges = 0
INVARIANTS
    DialsItsAddress
CHECK_DEADLOCK FALSE
