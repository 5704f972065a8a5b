SPECIFICATION RxSpec
CONSTANTS
    Words <- MCWords
    FIELDS = 3
    MSG_ELEMENTS = 3
    Bodies <- MCBodies
INVARIANTS
    EntriesAreComplete
    CalledIfMeant
