SPECIFICATION Spec
CONSTANTS
    Clients = {c1, c2}
    PORT_L = 0
    PORT_H = 3
    H = 2
    R = 1
    S = 0
    D = 0
    RXQ = 2
    NoPort = NoPort
    Nobody = Nobody
SYMMETRY Symmetry
INVARIANTS
    TypeOK
    JoinedStaysConnected
