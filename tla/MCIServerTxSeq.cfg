SPECIFICATION Spec
CONSTANTS
    Cells = {c1}
    Names = {"a"}
    Garbled = "a"
    Empty = ""
    SubAddressed = {}
    Sourced = {"a"}
    Tokens = {"start_xap", "end_xap"}
    QMAX = 1
    FMAX = 2
    FRAMES = 8
    None = None
INVARIANT
    TxFrameCountsOwn
