\* One agent, two clients and a probe that compete for one place and one dial.
CONSTANTS
    a = a
    b = b
    web = web
    ssh = ssh
    f1 = f1
    f2 = f2
    r1 = r1
    r2 = r2
    p1 = p1
    q1 = q1
    x1 = x1
    Agents <- OneAgent
    Services <- TwoServices
    Sessions <- LimitSessions
    Of <- LimitInfo
    ForwardPolicy <- WebForA
    ReversePolicy <- SshForA
    ReverseTargets <- SshForA
    MaxConnections = 1
    MaxStreams = 2
    AgentStreams = 2
    MaxPendingDials = 1
SPECIFICATION Spec
INVARIANT LimitIsOnConcurrency
CHECK_DEADLOCK FALSE
