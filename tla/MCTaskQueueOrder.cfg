SPECIFICATION Spec
CONSTANTS
    Times = {0, 1, 2}
    Priorities = {0, 1}
    Comparable = {1, 3, 4}
    MaxTasks = 5
INVARIANTS
    TypeOK
    HeadIsEarliest
PROPERTIES
    PushKeepsEntries
    ImplementsPriorityQueue
CHECK_DEADLOCK FALSE
