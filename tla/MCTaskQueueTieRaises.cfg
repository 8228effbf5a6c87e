SPECIFICATION Spec
CONSTANTS
    Times = {0, 1}
    Priorities = {0}
    Comparable = {}
    MaxTasks = 2
INVARIANT AnyTasksAreOrdered
CHECK_DEADLOCK FALSE
