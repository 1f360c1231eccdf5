SPECIFICATION ArqSpec
CONSTANTS
    SeqSpace = 8
    AckBits = 4
    Window = 3
    FirstSeq = 7
    c1 = c1
    c2 = c2
    Callers = {c1, c2}
    Links <- LossyLink
INVARIANT AckedHasArrived
CHECK_DEADLOCK FALSE
