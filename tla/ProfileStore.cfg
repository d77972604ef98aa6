CONSTANTS
    p1 = p1  p2 = p2  r1 = r1
    Player = {p1, p2}
    Run = {r1}
    MaxFaults = 2
    None = None  Index = Index
    Token = Token  Listed = Listed  Absent = Absent  Torn = Torn
SPECIFICATION Spec
INVARIANTS FilesWhole NoOrphanSlot ScoresStayWithPlayer SavedIsKept
SYMMETRY Symmetry
CHECK_DEADLOCK FALSE
