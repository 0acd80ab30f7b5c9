CONSTANTS
    Node = {n1, n2, n3}
    w1 = w1
    w2 = w2
    Write = {w1, w2}
    Value = {w1, w2}
    Reader = {r1}
    Key = {k}
    Absent = Absent
    None = None
    MaxTerm = 2
    MaxFaults = 2
SYMMETRY Symmetry
SPECIFICATION BoundedSpec
INVARIANTS RequestsHonest EstablishedReads FsmIsPrefix AckedWriteChosen
PROPERTIES HistoryKept
CHECK_DEADLOCK FALSE
