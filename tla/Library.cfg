SPECIFICATION Spec
CONSTANTS
    A = A
    B = B
    None = None
    Servers = {A, B}
    MaxGroups = 2
    Lists <- MCLists
    Budgets <- MCBudgets
INVARIANTS
    HistoryIsOwn
    TestingTells
    ConnectionShown
PROPERTIES
    HistoryKept
CHECK_DEADLOCK FALSE
