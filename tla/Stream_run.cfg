SPECIFICATION FairSpec

CONSTANTS
    Runs = {r1}
    Msgs = {m1, m2, m3}

INVARIANTS
    TypeOK
    FinishedStreamIsComplete
    OutcomeIsTrue
    MessagesInOrder
PROPERTIES
    StreamEnds
