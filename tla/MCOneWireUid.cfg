SPECIFICATION Spec
CONSTANTS
    Roms = {"q", "r"}
    Inis <- MCTwo
    Readings <- MCReadings
    Hyst = 600
    Offset = 0
    T = 3
    MAXDEVICES = 2
    MARGIN = 2
    I = 2
    A = 1
    L = 1
    Late = 1
    WIDTH = 1009
    None = None
PROPERTY
    UidForLife
