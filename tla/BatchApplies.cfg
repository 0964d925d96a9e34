CONSTANTS
    Packages <- MCPackages
    Offers <- MCOffers
    First <- MCFirst
    Pins <- MCPins
    Selections = {"all", "some"}
    MaxMoves = 3
    MaxEdits = 1
    MaxErrors = 1
SPECIFICATION FairSpec
INVARIANT TreeIsConsistent
PROPERTIES
    FixturesFollow
    NoDowngrade
    BatchIsWhole
    EventuallyUpToDate
