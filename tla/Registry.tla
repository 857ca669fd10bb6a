------------------------------ MODULE Registry ------------------------------
(***************************************************************************)
(* What the server's registry of agents promises to the rest of the        *)
(* program (reverse listeners look up an agent's tunnel in it): every      *)
(* agent has at most one tunnel, a tunnel belongs to the agent that        *)
(* authenticated it, a place must be empty before it is taken, a           *)
(* connection that is no tunnel never takes one, and after the shutdown    *)
(* nobody joins again.                                                     *)
(***************************************************************************)
CONSTANTS Agents, Conns, NoConn,
          Owner,      \* the agent a connection was authenticated as
          Tunnels     \* the connections that may become a tunnel

VARIABLES tunnel,     \* per agent, its tunnel or NoConn
          phase       \* "open" until the registry is shut down

Init == tunnel = [a \in Agents |-> NoConn] /\ phase = "open"

Join(c) ==
    /\ phase = "open"
    /\ c \in Tunnels /\ tunnel[Owner[c]] = NoConn
    /\ tunnel' = [tunnel EXCEPT ![Owner[c]] = c]
    /\ UNCHANGED phase

Leave(a) ==
    /\ tunnel[a] # NoConn
    /\ tunnel' = [tunnel EXCEPT ![a] = NoConn]
    /\ UNCHANGED phase

Shutdown ==
    /\ phase = "open"
    /\ phase' = "shut"
    /\ tunnel' = [a \in Agents |-> NoConn]

Next == Shutdown \/ (\E c \in Conns : Join(c)) \/ \E a \in Agents : Leave(a)

Spec == Init /\ [][Next]_<<tunnel, phase>>
=============================================================================
