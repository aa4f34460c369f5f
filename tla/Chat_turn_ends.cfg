SPECIFICATION FairSpec

CONSTANTS
    Convs = {c1, c2}
    Turns = {t1, t2}
    MaxEvents = 1
    MaxAborts = 1
    MaxMoves = 1
    NoConv = NoConv
    NoTurn = NoTurn

PROPERTIES
    TurnEnds

\* The connection ends with its socket, and the bounded ids run out.
CHECK_DEADLOCK FALSE
