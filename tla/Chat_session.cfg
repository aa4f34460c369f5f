SPECIFICATION Spec

CONSTANTS
    Convs = {c1, c2}
    Turns = {t1, t2}
    MaxEvents = 3
    MaxAborts = 1
    MaxMoves = 1
    NoConv = NoConv
    NoTurn = NoTurn

SYMMETRY Symmetry

INVARIANTS
    TypeOK
    AnswerIsWhole
    BufferedTextIsArmed
    MessagesGoHome
    ShownTextIsStored
    SecondCopyNeedsAbort
PROPERTIES
    AbortSilences

\* The connection ends with its socket, and the bounded ids run out.
CHECK_DEADLOCK FALSE
