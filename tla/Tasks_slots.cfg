\* Three runs of a task over two minutes: which slots are run twice.
SPECIFICATION Spec

CONSTANTS
    Tasks = {t1}
    Runs = {r1, r2, r3}
    Schedulers = {s1}
    Requests = {m1}
    Editors = {}
    Crons = {"even"}
    Slots <- MCSlots
    Horizon = 3
    MaxTime = 2
    MaxCrashes = 0
    NoTask = NoTask
    NoRun = NoRun

SYMMETRY RunSymmetry
INVARIANTS
    SlotServedOnce

\* Run ids and the clock are bounded, so the model may stop where the program goes on.
CHECK_DEADLOCK FALSE
