\* Windows of one byte; three bytes one way, or one either way.
CONSTANTS
    Window = 1
    MaxBytes = 3
    Loads <- ThreeOrBothWays
SPECIFICATION FairTunnelSpec
INVARIANT CleanHalfClose
PROPERTIES
    ImplementsChannel
    TunnelEnds
CHECK_DEADLOCK FALSE
