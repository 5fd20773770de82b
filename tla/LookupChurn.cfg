\* A host with a search list, whose candidates gain or lose their records.
SPECIFICATION Spec
CONSTANTS
    p1 = p1
    p2 = p2
    v1 = v1
    a = a
    ac = ac
    ab = ab
    ad = ad
    Task <- TwoTasks
    Version <- OneVersion
    Ttls <- ZeroOrLong
    SoaTtls <- LongSoa
    MinTtl = 0
    NegMax = 1
    NegTtl = 1
    MaxStale = 1
    Flight = 1
    MaxChanges = 1
    MaxTime = 4
    Capacity = 2
    MaxTtl = 1
    Name <- Searched
    Host <- SearchedHost
    Candidates <- SearchedCandidates
    Key <- SearchedKey
    Slot <- SearchedSlot
SYMMETRY Alike
INVARIANTS
    TypeOK
    BoundedStaleness
    BoundedAbsence
