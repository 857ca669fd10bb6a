\* Windows of one byte, and three bytes from the client.
CONSTANTS
    Window = 1
    MaxBytes = 3
    Loads <- ThreeOneWay
SPECIFICATION FairTunnelSpec
PROPERTY ClosedConnectionsAreReleased
CHECK_DEADLOCK FALSE
