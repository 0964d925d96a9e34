CONSTANTS
    good = good
    other = other
    Tags = {1, 2}
    Targets = {1, 2}
    Digests = {good, other}
    Versions <- AnyVersions
    Histories <- MCHistories
SPECIFICATION FeedSpec
INVARIANTS
    FeedIsInPrecedenceOrder
    FeedIsTheIndex
