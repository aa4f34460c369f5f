SPECIFICATION ServicesSpec
CONSTANTS
    k1 = k1
    k2 = k2
    Agents = {a1}
    Servers = {x1}
    Callers = {c1, c2, c3}
    MaxEpoch = 3
    MaxCloses = 1
    Notes = {n1, n2}
    Clients = {k1, k2}
    Limit = 1
    Budgets <- MCBudgets
    Convs = {d1}
    Uploads = {u1, u2, u3}
    Jobs = {j1, j2}
    MaxAttachments = 2
    MaxKills = 1
    Sources = {s1, s2}
    Memories = {s1}
    Ops = {o1, o2}
    MaxVersions = 2
    MaxChunks = 2
    MaxDeaths = 1
    Skills = {q1, q2}
    MaxRelease = 2
    Calls = {e1, e2, e3, e4}
    Tools = {execute, read}
    TextTools = {execute}
INVARIANTS
    ServicesTypeOK
    CachedIsOnOpenStore
    NobodyIsForgotten
    UndisturbedPageIsTrue
    OnlineIsTold
    FilesMatchRows
    IndexIsTrue
    LockIsNotAhead
    SelfUpgradeIsRetried
    ResultsKeepTheirInput
PROPERTIES
    RuntimesAreFresh
    RuntimeIsShared
CHECK_DEADLOCK FALSE
