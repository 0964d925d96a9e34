CONSTANTS
    Shas = {s1, s2}
    NoRef = NoRef
    Budgets <- PushOrNot
SPECIFICATION Spec
SYMMETRY Symmetry
INVARIANT SettledIsReconciled
PROPERTY OnlyTheOvertakenDisturb
CHECK_DEADLOCK FALSE
