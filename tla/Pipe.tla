-------------------------------- MODULE Pipe --------------------------------
(***************************************************************************)
(* transport.Pipe: two goroutines, one per direction, each an io.Copy      *)
(* followed by closeWrite on its destination; when both are done Pipe      *)
(* closes both ends.  One end is a TCP connection, the other a QUIC        *)
(* stream, and closeWrite ends the sending direction of either.            *)
(*                                                                         *)
(* The peers at the two ends are an environment: they send, receive at     *)
(* their own pace (a full window blocks the writer), finish sending, or    *)
(* break the connection.  Bytes are counted: io.Copy keeps their order.    *)
(***************************************************************************)
EXTENDS Integers

CONSTANTS
    Window,      \* bytes an end takes before its peer has received them
    MaxBytes     \* bound on what a peer sends

ASSUME WindowAssumption == Window \in Nat \ {0} /\ MaxBytes \in Nat

Ends == {"a", "b"}
Other(e) == IF e = "a" THEN "b" ELSE "a"

VARIABLES
    peer,      \* the peer at an end: "sending", "finished" or "broken"
    sent,      \* bytes the peer at an end has sent
    got,       \* bytes it has received
    pc,        \* the goroutine that copies from an end
    read,      \* bytes it has read from there
    wrote,     \* bytes written to an end, the Count of the direction into it
    sending,   \* is an end's sending direction open?
    main       \* Pipe itself: "waiting" on wg, or "closed"

peerVars == <<peer, sent, got>>
copyVars == <<pc, read, wrote, sending>>
vars == <<peerVars, copyVars, main>>

TypeOK ==
    /\ peer \in [Ends -> {"sending", "finished", "broken"}]
    /\ sent \in [Ends -> 0..MaxBytes]
    /\ got \in [Ends -> 0..MaxBytes] /\ read \in [Ends -> 0..MaxBytes]
    /\ wrote \in [Ends -> 0..MaxBytes]
    /\ pc \in [Ends -> {"reading", "writing", "closing", "done"}]
    /\ sending \in [Ends -> {"open", "ended"}]
    /\ main \in {"waiting", "closed"}

Init ==
    /\ peer = [e \in Ends |-> "sending"]
    /\ sent = [e \in Ends |-> 0]
    /\ got = [e \in Ends |-> 0]
    /\ pc = [e \in Ends |-> "reading"]
    /\ read = [e \in Ends |-> 0]
    /\ wrote = [e \in Ends |-> 0]
    /\ sending = [e \in Ends |-> "open"]
    /\ main = "waiting"

-----------------------------------------------------------------------------
(* The peers *)

Send(e) ==
    /\ peer[e] = "sending" /\ sent[e] < MaxBytes
    /\ sent' = [sent EXCEPT ![e] = @ + 1]
    /\ UNCHANGED <<peer, got, copyVars, main>>

Receive(e) ==
    /\ peer[e] # "broken" /\ got[e] < wrote[e]
    /\ got' = [got EXCEPT ![e] = @ + 1]
    /\ UNCHANGED <<peer, sent, copyVars, main>>

Finish(e) ==
    /\ peer[e] = "sending"
    /\ peer' = [peer EXCEPT ![e] = "finished"]
    /\ UNCHANGED <<sent, got, copyVars, main>>

(* Reset by the peer, or the QUIC connection under the stream is gone. *)
Break(e) ==
    /\ peer[e] # "broken"
    /\ peer' = [peer EXCEPT ![e] = "broken"]
    /\ UNCHANGED <<sent, got, copyVars, main>>

-----------------------------------------------------------------------------
(* io.Copy from end e to the other, and closeWrite *)

Read(e) ==
    /\ pc[e] = "reading"
    /\ \E n \in (read[e] + 1)..sent[e] : read' = [read EXCEPT ![e] = n]
    /\ pc' = [pc EXCEPT ![e] = "writing"]
    /\ UNCHANGED <<peerVars, wrote, sending, main>>

(* Mutant of ReadEOF: the end is seen before the bytes in front of it. *)
ReadEOFEarly(e) ==
    /\ pc[e] = "reading"
    /\ peer[e] = "finished"
    /\ pc' = [pc EXCEPT ![e] = "closing"]
    /\ UNCHANGED <<peerVars, read, wrote, sending, main>>

ReadEOF(e) ==
    /\ pc[e] = "reading"
    /\ peer[e] = "finished" /\ read[e] = sent[e]
    /\ pc' = [pc EXCEPT ![e] = "closing"]
    /\ UNCHANGED <<peerVars, read, wrote, sending, main>>

ReadError(e) ==
    /\ pc[e] = "reading" /\ peer[e] = "broken"
    /\ pc' = [pc EXCEPT ![e] = "closing"]
    /\ UNCHANGED <<peerVars, read, wrote, sending, main>>

(* Write blocks on a full window and returns when all is written. *)
Write(e) ==
    LET o == Other(e) IN
    /\ pc[e] = "writing"
    /\ wrote[o] - got[o] < Window
    /\ wrote' = [wrote EXCEPT ![o] = @ + 1]
    /\ pc' = IF wrote[o] + 1 = read[e] THEN [pc EXCEPT ![e] = "reading"] ELSE pc
    /\ UNCHANGED <<peerVars, read, sending, main>>

WriteError(e) ==
    /\ pc[e] = "writing" /\ peer[Other(e)] = "broken"
    /\ pc' = [pc EXCEPT ![e] = "closing"]
    /\ UNCHANGED <<peerVars, read, wrote, sending, main>>

(* Mutant of closeWrite: the end of data is not passed on. *)
closeWriteNothing(e) ==
    /\ pc[e] = "closing"
    /\ pc' = [pc EXCEPT ![e] = "done"]
    /\ UNCHANGED <<peerVars, read, wrote, sending, main>>

closeWrite(e) ==
    /\ pc[e] = "closing"
    /\ sending' = [sending EXCEPT ![Other(e)] = "ended"]
    /\ pc' = [pc EXCEPT ![e] = "done"]
    /\ UNCHANGED <<peerVars, read, wrote, main>>

(* Mutant of Close: both ends are closed when one direction is done. *)
CloseFirst ==
    /\ main = "waiting"
    /\ \E e \in Ends : pc[e] = "done"
    /\ main' = "closed"
    /\ sending' = [e \in Ends |-> "ended"]
    /\ UNCHANGED <<peerVars, pc, read, wrote>>

(* wg.Wait returns; a.Close and b.Close. *)
Close ==
    /\ main = "waiting"
    /\ \A e \in Ends : pc[e] = "done"
    /\ main' = "closed"
    /\ sending' = [e \in Ends |-> "ended"]
    /\ UNCHANGED <<peerVars, pc, read, wrote>>

-----------------------------------------------------------------------------
(* The specification *)

Copy(e) ==
    \/ Read(e) \/ ReadEOF(e) \/ ReadError(e)
    \/ Write(e) \/ WriteError(e) \/ closeWrite(e)

Next ==
    \/ Close
    \/ \E e \in Ends :
         \/ Copy(e)
         \/ Send(e) \/ Receive(e) \/ Finish(e) \/ Break(e)

Spec == Init /\ [][Next]_vars

-----------------------------------------------------------------------------
(* Properties *)

(***************************************************************************)
(* As long as neither connection breaks, an end of data is passed on only  *)
(* after the other peer finished and every byte it sent was written: a     *)
(* half-close never overtakes or cuts off data.                            *)
(***************************************************************************)
CleanHalfClose ==
    (\A e \in Ends : peer[e] # "broken") =>
      \A e \in Ends : sending[e] = "ended" =>
        peer[Other(e)] = "finished" /\ wrote[e] = sent[Other(e)]
=============================================================================
