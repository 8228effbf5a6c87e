SPECIFICATION FairSpec
CONSTANTS
    Tasks = {t1}
    NoTask = NoTask
    Delays = {0, 1}
    Priorities = {0}
    Outcomes = {"result"}
    MaxTime = 1
    MaxStops = 1
PROPERTY StopEndsLoop
CHECK_DEADLOCK FALSE
