SPECIFICATION FairSpec
CONSTANTS
    Clients = {c1}
    PORT_L = 0
    PORT_H = 2
    H = 6
    R = 2
    S = 1
    D = 1
    RXQ = 2
    NoPort = NoPort
    Nobody = Nobody
INVARIANTS
    CreditFollowsSilence
    JoinedStaysConnected
    ReconnectedInTime
PROPERTIES
    ImplementsLease
    AbandonedPortDisconnected
