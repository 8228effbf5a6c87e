SPECIFICATION FairSpec
CONSTANTS
    Tasks = {t1, t2}
    NoTask = NoTask
    Delays = {0, 1}
    Priorities = {0, 1}
    Outcomes = {"result", "exit"}
    MaxTime = 2
    MaxStops = 2
INVARIANTS
    TypeOK
    NoLostWakeup
    NoTaskLost
    BatchPrecedesQueue
    IdleSyncStopFinishesTasks
PROPERTIES
    StartsInOrder
    FutureSettlesOnce
    ImplementsDelayedCalls
    StopEndsRunningLoop
    AcceptedTaskRuns
CHECK_DEADLOCK FALSE
