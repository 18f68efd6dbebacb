SPECIFICATION Spec
CONSTANTS
    K = 2
    NoId = NoId
    Keys = {1, 2, 3}
    WeightOf <- MCWeight
    Budgets <- MCBudgets
    Kinds = {"lru", "lruk", "lfu", "clock"}
    MaxCalls = 7
INVARIANTS WithinBudget VictimsRight
CHECK_DEADLOCK FALSE
