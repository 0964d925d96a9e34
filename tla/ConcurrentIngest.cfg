CONSTANTS
    r1 = r1
    r2 = r2
    r3 = r3
    pg17 = pg17
    pg18 = pg18
    good = good
    other = other
    NoRelease = NoRelease
    Tags = {1, 2}
    Times = {1, 2}
    Names = {1, 2, 3, 4}
    Coordinates = {pg17, pg18}
    Digests = {good, other}
    Requests <- Three
    Candidates <- Replaced
    Attempts = 3
    Faults = {"abort"}
    MaxIncidents = 0
SPECIFICATION Spec
SYMMETRY Symmetry
INVARIANTS
    TypeOK
    NoSpuriousExhaustion
    AdvertisedIsMirrored
    IndexedWasVerified
PROPERTY ImplementsArchive
CHECK_DEADLOCK FALSE
