------------------------------- MODULE Tunnel -------------------------------
(***************************************************************************)
(* A tunnelled TCP connection after the handshake: the Pipe of the process *)
(* the client connected to, a QUIC stream, and the Pipe of the process     *)
(* that dialled the target.  The module extends Pipe for the near one,     *)
(* whose end "a" is the client's connection and whose end "b" is the       *)
(* stream; Far is the other one, with the stream at "a" and the target's   *)
(* connection at "b".                                                      *)
(*                                                                         *)
(* On the stream each Pipe is the peer of the other.  QUIC carries bytes   *)
(* and the end of data from one to the other, gives the writer credit for  *)
(* what was read, and may lose the connection, which the two processes     *)
(* notice at different times.                                              *)
(***************************************************************************)
EXTENDS Pipe

(* Bounds: the pairs of most bytes that client and target send. *)
CONSTANT Loads
ASSUME LoadsAssumption == Loads \subseteq Nat \X Nat

VARIABLES
    fpeer, fsent, fgot, fpc, fread, fwrote, fsending, fmain   \* the far Pipe

nearVars == vars
farVars  == <<fpeer, fsent, fgot, fpc, fread, fwrote, fsending, fmain>>
tunnelVars == <<nearVars, farVars>>

Far == INSTANCE Pipe
         WITH peer <- fpeer, sent <- fsent, got <- fgot, pc <- fpc,
              read <- fread, wrote <- fwrote, sending <- fsending,
              main <- fmain

TunnelInit == Init /\ Far!Init

-----------------------------------------------------------------------------
(* The QUIC stream *)

(* A byte the near Pipe wrote reaches the far one, or the other way. *)
CarryOut  == fsent["a"] < wrote["b"] /\ Far!Send("a") /\ UNCHANGED nearVars
CarryBack == sent["b"] < fwrote["a"] /\ Send("b") /\ UNCHANGED farVars

(* So does the end of data, after the last byte. *)
EndOut ==
    /\ sending["b"] = "ended" /\ fsent["a"] = wrote["b"]
    /\ Far!Finish("a")
    /\ UNCHANGED nearVars
EndBack ==
    /\ fsending["a"] = "ended" /\ sent["b"] = fwrote["a"]
    /\ Finish("b")
    /\ UNCHANGED farVars

(* Flow control: what one side has read, the other may write again. *)
CreditOut  == got["b"] < fread["a"] /\ Receive("b") /\ UNCHANGED farVars
CreditBack == fgot["a"] < read["b"] /\ Far!Receive("a") /\ UNCHANGED nearVars

(* The connection under the stream is lost, and one side notices it. *)
NearLosesStream == Break("b") /\ UNCHANGED farVars
FarLosesStream  == Far!Break("a") /\ UNCHANGED nearVars

Stream ==
    \/ CarryOut \/ CarryBack \/ EndOut \/ EndBack
    \/ CreditOut \/ CreditBack

-----------------------------------------------------------------------------
(* The client at the near end, the target at the far end *)

MaySend(client, target) ==
    \E load \in Loads : client <= load[1] /\ target <= load[2]

Client ==
    /\ \/ MaySend(sent["a"] + 1, fsent["b"]) /\ Send("a")
       \/ Receive("a") \/ Finish("a") \/ Break("a")
    /\ UNCHANGED farVars
Target ==
    /\ \/ MaySend(sent["a"], fsent["b"] + 1) /\ Far!Send("b")
       \/ Far!Receive("b") \/ Far!Finish("b") \/ Far!Break("b")
    /\ UNCHANGED nearVars

-----------------------------------------------------------------------------
(* The specification *)

NearPipe == (Close \/ \E e \in Ends : Copy(e)) /\ UNCHANGED farVars
FarPipe  == (Far!Close \/ \E e \in Ends : Far!Copy(e)) /\ UNCHANGED nearVars

TunnelNext ==
    \/ NearPipe \/ FarPipe
    \/ Stream \/ NearLosesStream \/ FarLosesStream
    \/ Client \/ Target

(* The stream is lost for one side; the idle timeout tells the other. *)
StreamLost == peer["b"] = "broken" \/ fpeer["a"] = "broken"

(***************************************************************************)
(* Goroutines run; QUIC carries what is written and, by its idle timeout,  *)
(* makes a loss known to both sides; client and target receive what they   *)
(* are sent and finish some time after they were told the other's end.     *)
(***************************************************************************)
TunnelFairness ==
    /\ \A e \in Ends :
         /\ WF_tunnelVars(Copy(e) /\ UNCHANGED farVars)
         /\ WF_tunnelVars(Far!Copy(e) /\ UNCHANGED nearVars)
    /\ WF_tunnelVars(Close /\ UNCHANGED farVars)
    /\ WF_tunnelVars(Far!Close /\ UNCHANGED nearVars)
    /\ WF_tunnelVars(CarryOut) /\ WF_tunnelVars(CarryBack)
    /\ WF_tunnelVars(EndOut) /\ WF_tunnelVars(EndBack)
    /\ WF_tunnelVars(CreditOut) /\ WF_tunnelVars(CreditBack)
    /\ WF_tunnelVars(StreamLost /\ NearLosesStream)
    /\ WF_tunnelVars(StreamLost /\ FarLosesStream)
    /\ WF_tunnelVars(Receive("a") /\ UNCHANGED farVars)
    /\ WF_tunnelVars(Far!Receive("b") /\ UNCHANGED nearVars)
    /\ WF_tunnelVars(sending["a"] = "ended" /\ Finish("a") /\ UNCHANGED farVars)
    /\ WF_tunnelVars(fsending["b"] = "ended" /\ Far!Finish("b")
                       /\ UNCHANGED nearVars)

TunnelSpec == TunnelInit /\ [][TunnelNext]_tunnelVars
FairTunnelSpec == TunnelSpec /\ TunnelFairness

-----------------------------------------------------------------------------
(* Properties *)

(* What the client and the target see of the tunnel, at ends of a channel. *)
AtEnds(client, target) == [e \in Ends |-> IF e = "a" THEN client ELSE target]

Ch == INSTANCE Channel
        WITH finished <- AtEnds(peer["a"] # "sending", fpeer["b"] # "sending"),
             sent   <- AtEnds(sent["a"], fsent["b"]),
             got    <- AtEnds(got["a"], fgot["b"]),
             told   <- AtEnds(sending["a"] = "ended" /\ got["a"] = wrote["a"],
                              fsending["b"] = "ended" /\ fgot["b"] = fwrote["b"]),
             broken <- \/ StreamLost
                       \/ peer["a"] = "broken" \/ fpeer["b"] = "broken"

(***************************************************************************)
(* Two Pipes and a stream behave as one channel between client and target: *)
(* whatever the pace of the six goroutines and connections, no byte is     *)
(* lost, repeated or invented, and an end of data that cuts bytes off is   *)
(* seen only after some connection on the way has broken.  (Pipe passes a  *)
(* reset on as an ordinary end of data: proxy.go ignores io.Copy's error.) *)
(***************************************************************************)
ImplementsChannel == Ch!Spec

(***************************************************************************)
(* Both Pipes return, and with them the two handlers and their semaphore   *)
(* tokens, once client or target has finished or the stream is lost, given *)
(* parties that finish when they were told the other's end.  The exception *)
(* is a Pipe that writes to a sound stream behind which the other party    *)
(* has reset its connection: see ClosedConnectionsAreReleased.             *)
(***************************************************************************)
Returned ==
    /\ main = "closed" \/ (fpeer["b"] = "broken" /\ ~StreamLost)
    /\ fmain = "closed" \/ (peer["a"] = "broken" /\ ~StreamLost)

TunnelEnds ==
    (peer["a"] # "sending" \/ fpeer["b"] # "sending" \/ StreamLost) ~> Returned

(***************************************************************************)
(* The help text of --max-connections calls it the "maximum concurrent     *)
(* local TCP connections" (cmd/mule/main.go): a connection whose client    *)
(* and target have both ended theirs gives its place back, that is, the    *)
(* Pipe that holds it returns.                                             *)
(***************************************************************************)
ClosedConnectionsAreReleased ==
    (peer["a"] # "sending" /\ fpeer["b"] # "sending") ~> main = "closed"
=============================================================================
