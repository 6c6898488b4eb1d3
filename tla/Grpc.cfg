SPECIFICATION Spec
CONSTANTS
    NumKeys = 2
    None = None
    Budgets <- MCBudgets
CHECK_DEADLOCK FALSE
INVARIANTS
    HandedInOrder
    ConnectedSeesEvents
    AnswersAreTrue
PROPERTIES
    ShutdownEnds
    DestructorEnds
