\* A PATCH suspended between its read and its commit while runs start and settle.
SPECIFICATION Spec

CONSTANTS
    Tasks = {t1}
    Runs = {r1, r2}
    Schedulers = {s1}
    Requests = {m1}
    Editors = {u1}
    Crons = {"even"}
    Slots <- MCSlots
    Horizon = 3
    MaxTime = 2
    MaxCrashes = 0
    NoTask = NoTask
    NoRun = NoRun

SYMMETRY RunSymmetry
INVARIANTS
    IInv
    EnabledTaskIsScheduled

\* Run ids and the clock are bounded, so the model may stop where the program goes on.
CHECK_DEADLOCK FALSE
