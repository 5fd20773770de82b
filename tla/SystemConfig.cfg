\* Two tasks and two resolvers, and a write of either file while they read.
SPECIFICATION Spec
CONSTANTS
    t1 = t1
    t2 = t2
    Task <- Tasks
    Sources <- AnySource
    Torn <- Halves
    Lines <- Appended
    MaxLines = 3
    HostsFiles <- MCHosts
    Queried = {"Relay", "relay.", "corp"}
    MaxResolvers = 2
    MaxWrites = 1
    SocketAddr <- WithPort
    Ip <- Ips
    Zoneless <- Unzoned
    DnsName <- DnsNames
    NdotsOf <- Options
    Remark <- Comments
    Hash <- Comments
    Lower <- Lowered
    Undotted <- DotLess
    V6 <- V6Ips
    SiteLocal = {"local"}
    DnsPort = 53
SYMMETRY Interchangeable
INVARIANTS
    TypeOK
    RunsOnAReading
    OneReading
\* The bounds end what can happen.
CHECK_DEADLOCK FALSE
