\* Two agents, three connections at a time, one probe slot.
CONSTANTS
    a = a
    b = b
    c1 = c1
    c2 = c2
    c3 = c3
    NoConn = NoConn
    Agents <- TwoAgents
    Conns <- ThreeConns
    PeerID <- ThreePeers
    ServerName <- ThreeNames
    MaxPendingDials = 1
SPECIFICATION FairSpec
INVARIANTS
    TypeOK
    RegistryCoherent
    ProbeSlots
    GaugeBalanced
    NoGhostAgents
    NoAbandonedConnection
PROPERTIES
    NoEviction
    ImplementsRegistry
    DeadTunnelIsRemoved
    LegacyProbeEnds
    ShutdownCompletes
CHECK_DEADLOCK FALSE
