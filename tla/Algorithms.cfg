SPECIFICATION CheckSpec
CONSTANTS
    a = a
    b = b
    c = c
    legacy = legacy
    ghost = ghost
    east = east
    west = west
    ref1 = ref1
    ref2 = ref2
    Blank = Blank
    NoAgent = NoAgent
    Absent = Absent
    Malformed = Malformed
    NoValue = NoValue
INVARIANTS
    RegistryIsSound
    SavedConfigIsLoaded
    CandidateIsBest
    HealthIsCoherent
    SpikesAreTrue
CHECK_DEADLOCK FALSE
