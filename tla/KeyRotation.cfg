CONSTANTS
    Requests = {r1, r2}
    Keys = {k1, k2}
    Nobody = Nobody
    TTL = 2
    FetchTime = 1
    Defects = {"subject", "nothing"}
    MaxTime = 4
    MaxRotations = 2
SPECIFICATION FairSpec
INVARIANTS
    TypeOK
    KnownKeyIsFound
PROPERTIES
    WithdrawnKeyExpires
    CacheNeverGoesBack
    EveryVerificationEnds
CHECK_DEADLOCK FALSE
