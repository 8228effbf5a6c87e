SPECIFICATION Spec
CONSTANTS
    Tasks = {t1, t2}
    NoTask = NoTask
    Delays = {0, 1}
    Priorities = {0}
    Outcomes = {"result"}
    MaxTime = 2
    MaxStops = 1
INVARIANT SyncStopFinishesTasks
CHECK_DEADLOCK FALSE
