SPECIFICATION Spec
CONSTANTS
    o1 = o1
    o2 = o2
    Objects = {o1, o2}
    Stages = {s1, s2}
    Writers = {w1, w2}
    Runs = {r1}
    Size <- MCSize
    Budget = 3
    None = None
INVARIANTS ChargedUnderLease WithinBudget RegisteredReadable CitedResolve
PROPERTIES CoverKept
SYMMETRY Symmetry
