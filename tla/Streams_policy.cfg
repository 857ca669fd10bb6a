\* Two agents, of which one claims to be the other; reverse and refused requests,
\* and two reverse clients for one place.
CONSTANTS
    a = a
    b = b
    web = web
    ssh = ssh
    f1 = f1
    f2 = f2
    r1 = r1
    r2 = r2
    p1 = p1
    q1 = q1
    x1 = x1
    Agents <- TwoAgents
    Services <- TwoServices
    Sessions <- PolicySessions
    Of <- PolicyInfo
    ForwardPolicy <- WebForA
    ReversePolicy <- SshForA
    ReverseTargets <- SshForA
    MaxConnections = 1
    MaxStreams = 1
    AgentStreams = 2
    MaxPendingDials = 1
SPECIFICATION Spec
INVARIANTS
    OnlyPermitted
    PipedTogether
    SemaphoresBalanced
CHECK_DEADLOCK FALSE
