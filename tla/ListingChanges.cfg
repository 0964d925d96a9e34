CONSTANTS
    Releases = {1, 2, 3, 4, 5, 6, 7}
    Stable = {2, 5, 6}
    PageSize = 2
    Pages = 3
    Limit = 5
    Initial <- MCInitial
    MaxBurst = 1
    MaxDeletions = 2
SPECIFICATION Spec
INVARIANTS
    TypeOK
    AnswerIsSound
CHECK_DEADLOCK FALSE
