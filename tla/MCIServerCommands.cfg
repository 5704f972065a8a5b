SPECIFICATION FairSpec
CONSTANTS
    Cells = {c1}
    Names = {"a", "b"}
    Garbled = "b"
    Empty = ""
    SubAddressed = {"a"}
    Sourced = {"b"}
    Tokens = {"sequence", "start_cmd", "end_cmd", "start_xap", "end_xap", "login", "add_source", "add_source_e", "add_class", "add_class_e", "del_source", "del_source_e", "del_class", "del_class_e"}
    QMAX = 1
    FMAX = 2
    FRAMES = 1
    None = None
INVARIANT
    FiltersFollowRequests
PROPERTY
    GoneClientDeleted
