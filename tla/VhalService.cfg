\* Two clients, two threads that read the configurations, five properties.
SPECIFICATION Spec
CONSTANTS
  Clients = {c1, c2}
  Configs <- MCConfigs
  TestProps <- MCTestProps
  Version = 3
  NULL = NULL
  Threads = {t1, t2}
  OptionLists <- MCOptionLists
  QueryLists <- MCQueryLists
  Budgets <- MCBudgets
CHECK_DEADLOCK FALSE
INVARIANTS
    NothingUsedAfterItsEnd
    DeadLeaveNothing
    CallsRespectConfigs
    EventsInOrder
PROPERTIES
    DeadAreForgotten
    DestructorEnds
