\* Two concurrent queries share the costs; three primary nameservers, one more than
\* the cap, and a fallback one.
SPECIFICATION FairSpec
CONSTANTS
    q1 = q1
    q2 = q2
    Query <- TwoQueries
    NameserverCount = 4
    PrimaryCount = 3
    MaxConcurrent = 2
    NoTls <- FirstNeedsTls
    Samples <- FastAndSlow
    Baseline = 1
    Penalty = 2
    MaxCost = 2
INVARIANTS
    TypeOK
    WorkConserving
    FirstWave
    TiersAreExhausted
PROPERTIES
    SortedWhenCalm
    ImplementsTieredQuery
    QueryReturns
