SPECIFICATION Spec
CONSTANTS
    Clients = {c1, c2}
    PORT_L = 0
    PORT_H = 2
    H = 3
    R = 1
    S = 1
    D = 0
    RXQ = 2
    NoPort = NoPort
    Nobody = Nobody
INVARIANT
    RunningDaemonHasPort
