\* Scheduled and manual runs of one task overlap, with deletions and a crash.
SPECIFICATION Spec

CONSTANTS
    Tasks = {t1}
    Runs = {r1, r2}
    Schedulers = {s1}
    Requests = {m1}
    Editors = {}
    Crons = {"each", "leap"}
    Slots <- MCSlots
    Horizon = 3
    MaxTime = 3
    MaxCrashes = 1
    NoTask = NoTask
    NoRun = NoRun

SYMMETRY RunSymmetry
INVARIANTS
    TypeOK
    RunOwnership
    NotificationsMatchRuns
    RunningTaskHasRun
PROPERTIES
    ImplementsLifecycle

\* Run ids and the clock are bounded, so the model may stop where the program goes on.
CHECK_DEADLOCK FALSE
