CONSTANTS
    Servers = {a, b, c}
    Nobody = Nobody
    Elsewhere = Elsewhere
    MaxChildren = 2
SPECIFICATION FairSpec
INVARIANTS
    TypeOK
    MutualExclusion
    LiveServerKeepsFiles
PROPERTIES
    SegmentsAreNotForgotten
    ForeignSegmentIsSpared
    EventuallyServing
