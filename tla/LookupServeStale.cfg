\* One lookup of a host with a search list.
SPECIFICATION Spec
CONSTANTS
    p1 = p1
    p2 = p2
    v1 = v1
    a = a
    ac = ac
    ab = ab
    ad = ad
    Task <- OneTask
    Version <- OneVersion
    Ttls <- LongTtl
    SoaTtls <- LongSoa
    MinTtl = 0
    NegMax = 1
    NegTtl = 1
    MaxStale = 1
    Flight = 1
    MaxChanges = 0
    MaxTime = 4
    Capacity = 2
    MaxTtl = 2
    Name <- Searched
    Host <- SearchedHost
    Candidates <- SearchedCandidates
    Key <- SearchedKey
    Slot <- SearchedSlot
INVARIANTS
    StaleBeatsError
