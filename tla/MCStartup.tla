----------------------------- MODULE MCStartup -----------------------------
(***************************************************************************)
(* Startup for TLC: two agents, one of them possibly given the other's     *)
(* file, and a secret of two bytes (three characters, "=" and a newline),  *)
(* which like one of 32 bytes leaves one padding character.                *)
(***************************************************************************)
EXTENDS Startup

a == "a"
b == "b"

(* All characters of the second secret are hexadecimal digits too. *)
MCHexPrefix == [s1 |-> 0, s2 |-> 3]

Agent(id, path) == [id |-> id, path |-> path]
Map(id, service, addr) == [agent |-> id, service |-> service, addr |-> addr]

(* Sequences of at most n elements of S. *)
UpTo(n, S) == UNION {[1..k -> S] : k \in 0..n}

AgentLists == {<<>>, <<Agent(a, "pa")>>, <<Agent("?", "pa")>>,
               <<Agent(a, "pa"), Agent(b, "pb")>>,
               <<Agent(a, "pa"), Agent(b, "pa")>>,
               <<Agent(a, "pa"), Agent(a, "pb")>>}

Targets == {Map(NoID, "web", "host:port"), Map(a, "web", "host:port"),
            Map(b, "web", "host:port"), Map(b, "ssh", ":port"),
            Map(a, "?", "host:port")}
Listens == {Map(NoID, "web", ":port"), Map(b, "web", "host:port"),
            Map(a, "web", "bad")}

ServerLines ==
    [role : {"server"}, given : {"flags", "file", "both"}, id : {NoID},
     agents : AgentLists, forward : UpTo(2, Targets), reverse : UpTo(1, Listens),
     limit : {-1, 0, 7}]

AgentMaps == {Map(NoID, s, addr) : s \in {"web", "?"},
                                   addr \in {"host:port", ":port", "bad"}}

AgentLines ==
    [role : {"agent"}, given : {"flags", "file", "both"}, id : {a, "?"},
     agents : {<<>>}, forward : UpTo(2, AgentMaps), reverse : UpTo(1, AgentMaps),
     limit : {-1, 0, 7}]

MCCommandLines == ServerLines \cup AgentLines

(* Files come in every order of their agents. *)
MCDeployed == {line \in ServerLines :
                 /\ line.given = "file" /\ line.limit = 0
                 /\ line.forward = <<>> /\ line.reverse = <<>>}
=============================================================================
