\* A host in two spellings, two of whose candidates collide in the cache, while no
\* record changes.
SPECIFICATION FairSpec
CONSTANTS
    p1 = p1
    p2 = p2
    v1 = v1
    a = a
    ac = ac
    ab = ab
    ad = ad
    Task <- TwoTasks
    Version <- OneVersion
    Ttls <- LongTtl
    SoaTtls <- OnlyNoSoa
    MinTtl = 0
    NegMax = 1
    NegTtl = 3
    MaxStale = 1
    Flight = 0
    MaxChanges = 0
    MaxTime = 2
    Capacity = 1
    MaxTtl = 1
    Name <- Spelled
    Host <- SpelledHosts
    Candidates <- SpelledCandidates
    Key <- SpelledKey
    Slot <- SpelledSlot
INVARIANTS
    AnswerFollowsSearch
PROPERTIES
    LookupReturns
