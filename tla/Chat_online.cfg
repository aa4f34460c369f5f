SPECIFICATION Spec

CONSTANTS
    Convs = {c1}
    Turns = {t1}
    MaxEvents = 1
    MaxAborts = 1
    MaxMoves = 0
    NoConv = NoConv
    NoTurn = NoTurn

INVARIANTS
    OnlineIsRegistered

\* The connection ends with its socket, and the bounded ids run out.
CHECK_DEADLOCK FALSE
