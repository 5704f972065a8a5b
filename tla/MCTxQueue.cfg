SPECIFICATION FairSpec
CONSTANTS
    Pushers = {p1}
    Poppers = {q1, q2}
    Items = {x, y}
    Nodes = {n1, n2, n3}
    NULL = NULL
INVARIANTS
    TypeOK
    ListMatchesChain
    NoLostWakeup
PROPERTIES
    ImplementsFifo
    QueuedIsPopped
