CONSTANTS
    Shas = {s1, s2}
    NoRef = NoRef
    Budgets <- PushAndRerun
SPECIFICATION FairSpec
PROPERTY NewerHeadIsSpared
CHECK_DEADLOCK FALSE
