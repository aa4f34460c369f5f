\* One loop over two due tasks, under fairness.
SPECIFICATION FairSpec

CONSTANTS
    Tasks = {t1, t2}
    Runs = {r1, r2, r3}
    Schedulers = {s1}
    Requests = {}
    Editors = {}
    Crons = {"even"}
    Slots <- MCSlots
    Horizon = 3
    MaxTime = 3
    MaxCrashes = 0
    NoTask = NoTask
    NoRun = NoRun

PROPERTIES
    DueIsServed
    OutcomeIsAnnounced

\* Run ids and the clock are bounded, so the model may stop where the program goes on.
CHECK_DEADLOCK FALSE
