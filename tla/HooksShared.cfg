CONSTANTS
    r1 = r1
    r2 = r2
    Hooks = {1, 2}
    Paths = {sh, py}
    Runs = {r1, r2}
    Plans <- OneOrTwo
SPECIFICATION FairSpec
INVARIANTS
    ForeignHookIsKept
    InstalledIsComplete
PROPERTIES
    EventuallyInstalled
