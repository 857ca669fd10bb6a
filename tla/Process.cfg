\* Two connections at a time; delays 3, 6, 12, 20 and, reset, 3 again.
CONSTANTS
    Conns = {c1, c2}
    NoConn = NoConn
    ReconnectDelay = 3
    MaxReconnectDelay = 20
SPECIFICATION ProcessSpec
INVARIANTS
    DelayBounded
    ConnIsCurrent
    OneConnection
    UnexpectedExitFails
PROPERTIES
    Reconnects
    BackoffReachesCap
    SignalEndsProcess
CHECK_DEADLOCK FALSE
