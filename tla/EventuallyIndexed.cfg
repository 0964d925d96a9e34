CONSTANTS
    r1 = r1
    r2 = r2
    r3 = r3
    pg17 = pg17
    pg18 = pg18
    good = good
    other = other
    NoRelease = NoRelease
    Tags = {1, 2}
    Times = {1, 2}
    Names = {1}
    Coordinates = {pg17, pg18}
    Digests = {good, other}
    Requests <- Three
    Candidates <- TwoSolo
    Attempts = 3
    Faults = {"abort"}
    MaxIncidents = 0
SPECIFICATION FairSpec
PROPERTIES
    ValidReleaseIsIndexed
    EveryRequestIsAnswered
CHECK_DEADLOCK FALSE
