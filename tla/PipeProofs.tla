----------------------------- MODULE PipeProofs -----------------------------
(***************************************************************************)
(* Proofs about module Pipe, for every window and every amount of data.    *)
(***************************************************************************)
EXTENDS Pipe, TLAPS

(***************************************************************************)
(* Each end is the other end's other end.                                  *)
(***************************************************************************)
LEMMA OtherEnd ==
    \A e \in Ends : Other(e) \in Ends /\ Other(e) # e /\ Other(Other(e)) = e
BY DEF Ends, Other

(***************************************************************************)
(* A copying goroutine that has stopped either met a broken connection or  *)
(* has passed on all that its peer sent, and the peer has finished.        *)
(***************************************************************************)
Complete(e) ==
    /\ peer[e] = "finished"
    /\ read[e] = sent[e] /\ wrote[Other(e)] = sent[e]

(***************************************************************************)
(* The inductive invariant.  CleanHalfClose speaks of sending, which       *)
(* closeWrite sets one step after the copy stopped, so the invariant       *)
(* carries what was true when it stopped.                                  *)
(***************************************************************************)
PipeInv ==
    /\ TypeOK
    /\ \A e \in Ends :
         /\ got[e] <= wrote[e] /\ wrote[Other(e)] <= read[e]
         /\ read[e] <= sent[e]
         /\ pc[e] = "reading" => wrote[Other(e)] = read[e]
         /\ pc[e] = "writing" => wrote[Other(e)] < read[e]
         /\ pc[e] \in {"closing", "done"} =>
              \/ peer[e] = "broken" \/ peer[Other(e)] = "broken"
              \/ Complete(e)
         /\ sending[Other(e)] = "ended" <=> pc[e] = "done"

(***************************************************************************)
(* Every step of the peers, of the two goroutines and of Pipe keeps it.    *)
(***************************************************************************)
LEMMA PipeStep == PipeInv /\ [Next]_vars => PipeInv'
<1> SUFFICES ASSUME PipeInv, [Next]_vars PROVE PipeInv'
  OBVIOUS
<1> USE OtherEnd, WindowAssumption DEF PipeInv, TypeOK, Complete
<1>1. CASE UNCHANGED vars
  BY <1>1 DEF vars, peerVars, copyVars
<1>2. CASE Close
  BY <1>2 DEF Close, peerVars
<1>3. ASSUME NEW e \in Ends, Send(e) PROVE PipeInv'
  BY <1>3 DEF Send, copyVars
<1>4. ASSUME NEW e \in Ends, Receive(e) PROVE PipeInv'
  BY <1>4 DEF Receive, copyVars
<1>5. ASSUME NEW e \in Ends, Finish(e) \/ Break(e) PROVE PipeInv'
  BY <1>5 DEF Finish, Break, copyVars
<1>6. ASSUME NEW e \in Ends, Read(e) PROVE PipeInv'
  BY <1>6 DEF Read, peerVars
<1>7. ASSUME NEW e \in Ends, ReadEOF(e) \/ ReadError(e) \/ WriteError(e)
      PROVE PipeInv'
  BY <1>7 DEF ReadEOF, ReadError, WriteError, peerVars
<1>8. ASSUME NEW e \in Ends, Write(e) PROVE PipeInv'
  BY <1>8 DEF Write, peerVars
<1>9. ASSUME NEW e \in Ends, closeWrite(e) PROVE PipeInv'
  BY <1>9 DEF closeWrite, peerVars
<1> QED
  BY <1>1, <1>2, <1>3, <1>4, <1>5, <1>6, <1>7, <1>8, <1>9 DEF Next, Copy

(***************************************************************************)
(* The invariant holds of every behaviour.                                 *)
(***************************************************************************)
LEMMA PipeAlways == Spec => []PipeInv
<1>1. Init => PipeInv
  BY OtherEnd, WindowAssumption DEF Init, PipeInv, TypeOK, Complete
<1> QED
  BY <1>1, PipeStep, PTL DEF Spec

(***************************************************************************)
(* While both connections are sound, Pipe passes an end of data on only    *)
(* after all the data in front of it.                                      *)
(***************************************************************************)
THEOREM HalfCloseIsClean == Spec => []CleanHalfClose
<1>1. PipeInv => CleanHalfClose
  BY OtherEnd DEF PipeInv, CleanHalfClose, Complete
<1> QED
  BY <1>1, PipeAlways, PTL
=============================================================================
