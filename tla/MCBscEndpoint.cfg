SPECIFICATION Spec
CONSTANTS
    Endpoints = {"output", "input"}
    Outputs = {"output"}
    Binary = {"input"}
    Denying = {"input"}
    Missing <- MCMissing
    Texts = {"?", "long"}
    TooLong = {"long"}
    Commands <- MCCommands
    SECTIONS = 2
    I = 2
    L = 1
    Late = 1
    None = None
INVARIANTS
    SeenIsValue
    CommandCarriedOut
    ReportGap
