SPECIFICATION Spec
CONSTANTS
    Cells = {c1, c2}
    Funcs = {f, g}
    Intervals = {2}
    L = 1
    S = 1
    SelfDelete = TRUE
    None = None
SYMMETRY Symmetry
INVARIANT
    WalkOnList
