SPECIFICATION Spec
CONSTANTS
    Cells = {c1, c2}
    Names = {"a"}
    Garbled = "a"
    Empty = ""
    SubAddressed = {}
    Sourced = {}
    Tokens = {"start_cmd", "end_cmd", "add_source", "del_source", "add_class"}
    QMAX = 1
    FMAX = 2
    FRAMES = 1
    None = None
SYMMETRY Symmetry
INVARIANTS
    NoDanglingClient
    WalkOnList
    FiltersFollowRequests
