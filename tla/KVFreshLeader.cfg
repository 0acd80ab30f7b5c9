CONSTANTS
    Node = {n1, n2, n3}
    w1 = w1
    w2 = w2
    Write = {w1}
    Value = {w1}
    Reader = {r1}
    Key = {k}
    Absent = Absent
    None = None
    MaxTerm = 2
    MaxFaults = 1
SYMMETRY Symmetry
SPECIFICATION Spec
INVARIANTS ConsistentReads
CHECK_DEADLOCK FALSE
