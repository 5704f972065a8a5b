SPECIFICATION Spec
CONSTANTS
    Cells = {c1, c2, c3}
    Funcs = {f}
    Intervals = {2, 4}
    L = 2
    S = 2
    SelfDelete = FALSE
    None = None
SYMMETRY Symmetry
INVARIANTS
    TypeOK
    NeverLate
PROPERTY
    NeverEarly
