\* A run that stays running although nothing executes it.
SPECIFICATION Spec

CONSTANTS
    Tasks = {t1}
    Runs = {r1, r2}
    Schedulers = {s1}
    Requests = {m1}
    Editors = {}
    Crons = {"leap"}
    Slots <- MCSlots
    Horizon = 3
    MaxTime = 2
    MaxCrashes = 0
    NoTask = NoTask
    NoRun = NoRun

SYMMETRY RunSymmetry
INVARIANTS
    NoSilentFailure

\* Run ids and the clock are bounded, so the model may stop where the program goes on.
CHECK_DEADLOCK FALSE
