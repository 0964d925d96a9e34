CONSTANTS
    r1 = r1
    r2 = r2
    r3 = r3
    pg17 = pg17
    pg18 = pg18
    good = good
    other = other
    NoRelease = NoRelease
    Tags = {1, 2}
    Times = {1, 2}
    Names = {1, 2, 3}
    Coordinates = {pg17, pg18}
    Digests = {good, other}
    Requests <- Three
    Candidates <- TwoBuilds
    Attempts = 4
    Faults = {"delete", "corrupt", "rollback"}
    MaxIncidents = 2
SPECIFICATION Spec
SYMMETRY Symmetry
INVARIANTS
    IndexIsRebuildable
    AcceptedIsIndexed
PROPERTIES
    IndexNeverLoses
    LatestNeverGoesBack
CHECK_DEADLOCK FALSE
