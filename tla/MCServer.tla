------------------------------ MODULE MCServer ------------------------------
(***************************************************************************)
(* The instance of Server for TLC.  Agent a can have two tunnel            *)
(* connections at a time (an old one and the reconnect that overlaps it,   *)
(* or a probe client that falls back to the agent's server name), next to  *)
(* a dedicated probe connection of agent b, with which they share the      *)
(* slots.                                                                  *)
(***************************************************************************)
EXTENDS Server, TLC

CONSTANTS a, b, c1, c2, c3

TwoAgents == {a, b}

ThreeConns == {c1, c2, c3}
ThreePeers == (c1 :> a) @@ (c2 :> a) @@ (c3 :> b)
ThreeNames == (c1 :> "exit") @@ (c2 :> "exit") @@ (c3 :> "probe")
=============================================================================
