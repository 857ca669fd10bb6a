\* Two connections at a time, one probe slot, two faults: the second may hit
\* in the middle of the recovery from the first.
CONSTANTS
    AgentID = a
    Conns = {c1, c2}
    NoConn = NoConn
    MaxPendingDials = 1
    MaxFaults = 2
SPECIFICATION FairSpec
PROPERTIES
    Recovers
    NotStuckAsProbe
    TurnedAwayByLeftover
    TunnelUndisturbed
CHECK_DEADLOCK FALSE
