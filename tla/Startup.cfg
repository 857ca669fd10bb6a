\* Two agents, two secrets, three files, two copies.
CONSTANTS
    AgentIDs = {"a", "b"}
    NoID = "-"
    RouteIDs = {"web", "ssh"}
    Default = 5
    Secrets = {"s1", "s2"}
    MinSecretBytes = 2
    HexPrefix <- MCHexPrefix
    CommandLines <- MCCommandLines
    Deployed <- MCDeployed
    Paths = {"pa", "pb", "qa"}
    AgentPath = "qa"
    NoPath = "none"
    MaxCopies = 2
SPECIFICATION Spec
INVARIANTS
    FlagsMeanTheFile
    NoPartialSecret
    Authenticates
CHECK_DEADLOCK FALSE
