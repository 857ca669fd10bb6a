------------------------------ MODULE MCTunnel ------------------------------
(***************************************************************************)
(* Instances of Tunnel for TLC.  Windows are one byte.  Three bytes one    *)
(* way fill the stream behind a Pipe that has stopped reading it: one that *)
(* was read, one in the window, one that waits.  By the symmetry of the    *)
(* two Pipes the client is the one who sends more.                         *)
(***************************************************************************)
EXTENDS Tunnel

ThreeOneWay == {<<3, 0>>}
ThreeOrBothWays == {<<3, 0>>, <<1, 1>>}
=============================================================================
