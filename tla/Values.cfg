SPECIFICATION Spec
CONSTANTS
    PIECE = 10
    INT_MAX = 31
    WORD = 184
    Slots = {s1}
    MaxDepth = 2
    Boxes = {b1}
    Items = {i1}
    c1 = c1
    c2 = c2
    Consts = {c1, c2}
    Literals <- MCLiterals
    BASE = 3
    MaxStack = 3
    MaxBigs = 2
    MaxCount = 2
    Results <- MCResults
INVARIANTS
    CountsSuffice
PROPERTIES
    NumbersKept
    OperandsKept
    ArithmeticExact
SYMMETRY Symmetry
CHECK_DEADLOCK FALSE
