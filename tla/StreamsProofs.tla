---------------------------- MODULE StreamsProofs ----------------------------
(***************************************************************************)
(* Proofs about module Streams, for every set of agents, services and      *)
(* sessions, every policy and every limit.                                 *)
(***************************************************************************)
EXTENDS Streams, FiniteSetTheorems, TLAPS

-----------------------------------------------------------------------------
(* One session at a time *)

(***************************************************************************)
(* The inductive invariant, for one session: the answer is given once, by  *)
(* the responder, and only where its policy permits the request.           *)
(***************************************************************************)
SessionInv(s) ==
    /\ ini[s] \in {"lookup", "opening"} => reply[s] = "none" /\ rsp[s] = "none"
    /\ rsp[s] \in {"reading", "dialing", "dialled"} => reply[s] = "none"
    /\ ini[s] = "piping" => reply[s] = "ok" /\ IsOpen(s)
    /\ rsp[s] = "piping" => reply[s] = "ok"
    /\ reply[s] = "error" => rsp[s] \in {"none", "answered"}
    /\ rsp[s] \in {"dialing", "dialled", "answered", "piping"} \/ reply[s] = "ok"
         => Permitted(s)

(* The variables the invariant speaks of are functions of the sessions. *)
Shape ==
    /\ ini \in [Sessions -> {"idle", "lookup", "opening", "waiting", "piping"}]
    /\ rsp \in [Sessions -> {"none", "reading", "dialing", "answered", "dialled",
                             "piping"}]
    /\ reply \in [Sessions -> {"none", "ok", "error"}]

HandshakeInv == Shape /\ \A s \in Sessions : SessionInv(s)

(***************************************************************************)
(* No step of the tunnel or of either handler breaks it.                   *)
(***************************************************************************)
LEMMA HandshakeStep == HandshakeInv /\ [Next]_vars => HandshakeInv'
<1> SUFFICES ASSUME HandshakeInv, [Next]_vars PROVE HandshakeInv'
  OBVIOUS
<1> USE DEF HandshakeInv, Shape, SessionInv, Permitted, forwardTarget,
            reverseAllowed, IsOpen
<1>1. CASE UNCHANGED vars
  BY <1>1 DEF vars
<1>2. ASSUME NEW a \in Agents, TunnelUp(a) \/ TunnelLost(a)
      PROVE  HandshakeInv'
  BY <1>2 DEF TunnelUp, TunnelLost
<1>3. ASSUME NEW s \in Sessions, Arrive(s) \/ ArriveProbe(s) \/ ProbeLost(s)
      PROVE  HandshakeInv'
  BY <1>3 DEF Arrive, ArriveProbe, ProbeLost
<1>4. ASSUME NEW s \in Sessions,
             LookupFails(s) \/ OpenFails(s) \/ HandshakeFails(s) \/ InitiatorDone(s)
      PROVE  HandshakeInv'
  BY <1>4 DEF LookupFails, OpenFails, HandshakeFails, InitiatorDone, EndInitiator
<1>5. ASSUME NEW s \in Sessions, Lookup(s) \/ OpenStream(s)
      PROVE  HandshakeInv'
  BY <1>5 DEF Lookup, OpenStream
<1>6. ASSUME NEW s \in Sessions, ReceiveOK(s)
      PROVE  HandshakeInv'
  BY <1>6 DEF ReceiveOK, EndInitiator
<1>7. ASSUME NEW s \in Sessions,
             ReadFails(s) \/ Unauthorized(s) \/ Overloaded(s)
      PROVE  HandshakeInv'
  BY <1>7 DEF ReadFails, Unauthorized, Overloaded, Refuse
<1>8. ASSUME NEW s \in Sessions, AnswerReverseProbe(s) \/ StartDial(s)
      PROVE  HandshakeInv'
  BY <1>8 DEF AnswerReverseProbe, StartDial
<1>9. ASSUME NEW s \in Sessions, DialFails(s)
      PROVE  HandshakeInv'
  BY <1>9 DEF DialFails, Refuse, ProbeAnswered
<1>10. ASSUME NEW s \in Sessions, DialSucceeds(s) \/ ProbeReturns(s)
       PROVE  HandshakeInv'
  BY <1>10 DEF DialSucceeds, ProbeReturns, ProbeAnswered
<1>11. ASSUME NEW s \in Sessions,
              Confirm(s) \/ ConfirmFails(s) \/ ResponderDone(s)
       PROVE  HandshakeInv'
  BY <1>11 DEF Confirm, ConfirmFails, ResponderDone
<1> QED
  BY <1>1, <1>2, <1>3, <1>4, <1>5, <1>6, <1>7, <1>8, <1>9, <1>10, <1>11
     DEF Next, Initiator, Responder

(***************************************************************************)
(* The invariant holds of every behaviour.                                 *)
(***************************************************************************)
LEMMA HandshakeAlways == Spec => []HandshakeInv
<1>1. Init => HandshakeInv
  BY DEF Init, HandshakeInv, Shape, SessionInv
<1> QED
  BY <1>1, HandshakeStep, PTL DEF Spec

(***************************************************************************)
(* Nothing is dialled, confirmed or piped that the responder's policy does *)
(* not grant to the authenticated agent, whatever the frame claims.        *)
(***************************************************************************)
THEOREM PolicyIsEnforced == Spec => []OnlyPermitted
<1>1. HandshakeInv => OnlyPermitted
  <2> SUFFICES ASSUME HandshakeInv, NEW s \in Sessions,
                      rsp[s] \in {"dialing", "dialled", "piping"}
                        \/ reply[s] = "ok"
               PROVE  LET i == Of[s] IN
                      IF i.dir = "forward" THEN i.service \in ForwardPolicy[i.agent]
                      ELSE IF i.request = "probe"
                        THEN i.service \in ReversePolicy[i.agent]
                      ELSE i.service \in ReverseTargets[i.agent]
    BY DEF OnlyPermitted
  <2>1. Permitted(s)
    BY DEF HandshakeInv, SessionInv
  <2>2. Of[s].dir \in {"forward", "reverse"}
    BY SessionAssumption DEF SessionInfo
  <2> QED
    BY <2>1, <2>2 DEF Permitted, forwardTarget, reverseAllowed
<1> QED
  BY <1>1, HandshakeAlways, PTL

(***************************************************************************)
(* A TCP client is handed over only after the responder reached the target *)
(* and answered OK, on every interleaving of answers, deadlines and lost   *)
(* tunnels.                                                                *)
(***************************************************************************)
THEOREM HandedOverTogether == Spec => []PipedTogether
<1>1. HandshakeInv => PipedTogether
  BY DEF HandshakeInv, SessionInv, PipedTogether
<1> QED
  BY <1>1, HandshakeAlways, PTL
-----------------------------------------------------------------------------
(* Counting the sessions that hold a token *)

(***************************************************************************)
(* A set of sessions can be counted.                                       *)
(***************************************************************************)
LEMMA SessionsFinite ==
    ASSUME NEW S \in SUBSET Sessions
    PROVE  IsFiniteSet(S) /\ Cardinality(S) \in Nat
BY SessionAssumption, FS_Subset, FS_CardinalityType

(* A step in which session s, and no other, enters or leaves a set. *)
Enters(S, T, s) == s \notin S /\ T = S \cup {s}
Leaves(S, T, s) == s \in S /\ T = S \ {s}

(***************************************************************************)
(* A session that enters makes the set one larger, one that leaves makes   *)
(* it one smaller, and it was not empty then.                              *)
(***************************************************************************)
LEMMA CountChange ==
    ASSUME NEW S \in SUBSET Sessions, NEW T, NEW s \in Sessions
    PROVE  /\ Enters(S, T, s) => Cardinality(T) = Cardinality(S) + 1
           /\ Leaves(S, T, s) => /\ Cardinality(T) = Cardinality(S) - 1
                                 /\ Cardinality(S) > 0
<1>1. IsFiniteSet(S) /\ Cardinality(S) \in Nat
  BY SessionsFinite
<1>2. Enters(S, T, s) => Cardinality(T) = Cardinality(S) + 1
  BY <1>1, FS_AddElement DEF Enters
<1>3. ASSUME Leaves(S, T, s)
      PROVE  Cardinality(T) = Cardinality(S) - 1 /\ Cardinality(S) > 0
  <2>1. Cardinality(T) = Cardinality(S) - 1
    BY <1>1, <1>3, FS_RemoveElement DEF Leaves
  <2>2. Cardinality(T) \in Nat
    BY <1>3, SessionsFinite DEF Leaves
  <2> QED
    BY <1>1, <2>1, <2>2
<1> QED
  BY <1>2, <1>3

(* A semaphore of some capacity counts the members of S, and then of T. *)
Counts(n, limit, S) == n = Cardinality(S) /\ n <= limit

Exchange(n, m, limit, S, T) ==
    \/ m = n /\ T = S
    \/ \E s \in Sessions : n < limit /\ m = n + 1 /\ Enters(S, T, s)
    \/ \E s \in Sessions : m = n - 1 /\ Leaves(S, T, s)

(***************************************************************************)
(* A semaphore that is taken and returned with its holders stays balanced. *)
(***************************************************************************)
LEMMA StaysBalanced ==
    ASSUME NEW S \in SUBSET Sessions, NEW T, NEW n, NEW m, NEW limit \in Nat,
           Counts(n, limit, S), Exchange(n, m, limit, S, T)
    PROVE  Counts(m, limit, T) /\ m \in Nat
<1>1. n \in Nat /\ n = Cardinality(S) /\ n <= limit
  BY SessionsFinite DEF Counts
<1>2. CASE m = n /\ T = S
  BY <1>1, <1>2 DEF Counts
<1>3. ASSUME NEW s \in Sessions, n < limit, m = n + 1, Enters(S, T, s)
      PROVE  Counts(m, limit, T) /\ m \in Nat
  <2>1. Cardinality(T) = Cardinality(S) + 1
    BY <1>3, CountChange
  <2> QED
    BY <1>1, <1>3, <2>1 DEF Counts
<1>4. ASSUME NEW s \in Sessions, m = n - 1, Leaves(S, T, s)
      PROVE  Counts(m, limit, T) /\ m \in Nat
  <2>1. Cardinality(T) = Cardinality(S) - 1 /\ Cardinality(S) > 0
    BY <1>4, CountChange
  <2> QED
    BY <1>1, <1>4, <2>1 DEF Counts
<1> QED
  BY <1>2, <1>3, <1>4 DEF Exchange

-----------------------------------------------------------------------------
(* The holders of each token *)

Dialing        == {s \in Sessions : HoldsDialSlot(s)}
ForwardBusy(a) == {s \in Sessions :
                     Lane(s) = <<a, "forward">> /\ IsOpen(s) /\ ini[s] # "idle"}
ReverseBusy    == {s \in Sessions : ~Forward(s) /\ IsOpen(s) /\ ini[s] # "idle"}

(* The sessions whose responder may still return stream credit. *)
OnStream(l) == {s \in Sessions : /\ Lane(s) = l /\ IsOpen(s)
                                 /\ stream[s] = "live" /\ rsp[s] # "none"}

(***************************************************************************)
(* The inductive invariant.  Credit is returned by a responder that is     *)
(* still there on a live stream, so it is never returned twice: at least   *)
(* as many streams count as there are such responders.                     *)
(***************************************************************************)
CreditInv == \A l \in Lanes : Cardinality(OnStream(l)) <= credit[l]

BalanceInv == HandshakeInv /\ TypeOK /\ SemaphoresBalanced /\ CreditInv

(***************************************************************************)
(* A session belongs to a lane of its agent.                               *)
(***************************************************************************)
LEMMA SessionType ==
    ASSUME NEW s \in Sessions
    PROVE  /\ Of[s].agent \in Agents /\ Of[s].dir \in {"forward", "reverse"}
           /\ Lane(s) \in Lanes
           /\ Forward(s) <=> Lane(s) = <<Of[s].agent, "forward">>
BY SessionAssumption DEF SessionInfo, Lane, Lanes, Forward

(***************************************************************************)
(* The dials channel: a slot is taken when a responder starts to dial and  *)
(* returned once, after the dial or after a probe's answer.                *)
(***************************************************************************)
LEMMA DialsStep ==
    ASSUME HandshakeInv, [Next]_vars
    PROVE  Exchange(dials, dials', MaxPendingDials, Dialing, Dialing')
<1> USE DEF HandshakeInv, Shape, Dialing, HoldsDialSlot, TakesDialSlot
<1> DEFINE Goal == Exchange(dials, dials', MaxPendingDials, Dialing, Dialing')
<1>1. ASSUME dials' = dials, UNCHANGED rsp PROVE Goal
  BY <1>1 DEF Exchange
<1>2. ASSUME NEW s \in Sessions, dials' = dials, NEW r,
             rsp' = [rsp EXCEPT ![s] = r],
             {rsp[s], r} \cap {"dialing", "answered"} = {}
      PROVE  Goal
  <2>1. Dialing' = Dialing
    BY <1>2
  <2> QED
    BY <1>2, <2>1 DEF Exchange
<1>3. ASSUME NEW s \in Sessions, StartDial(s) PROVE Goal
  <2>1. CASE Forward(s)
    <3>1. Enters(Dialing, Dialing', s)
      BY <1>3, <2>1 DEF StartDial, Enters
    <3> QED
      BY <1>3, <2>1, <3>1 DEF StartDial, Exchange
  <2>2. CASE ~Forward(s)
    <3>1. Dialing' = Dialing
      BY <1>3, <2>2 DEF StartDial
    <3> QED
      BY <1>3, <2>2, <3>1 DEF StartDial, Exchange
  <2> QED
    BY <2>1, <2>2
<1>4. ASSUME NEW s \in Sessions, rsp[s] \in {"dialing", "answered"},
             ReturnDialSlot(s), NEW r, r \notin {"dialing", "answered"},
             rsp' = [rsp EXCEPT ![s] = r]
      PROVE  Goal
  <2>1. CASE Forward(s)
    <3>1. Leaves(Dialing, Dialing', s)
      BY <1>4, <2>1 DEF Leaves
    <3> QED
      BY <1>4, <2>1, <3>1 DEF ReturnDialSlot, Exchange
  <2>2. CASE ~Forward(s)
    <3>1. Dialing' = Dialing
      BY <1>4, <2>2
    <3> QED
      BY <1>4, <2>2, <3>1 DEF ReturnDialSlot, Exchange
  <2> QED
    BY <2>1, <2>2
<1>5. ASSUME NEW s \in Sessions, rsp[s] = "dialing", dials' = dials,
             ProbeAnswered(s)
      PROVE  Goal
  <2>1. Dialing' = Dialing
    BY <1>5 DEF ProbeAnswered
  <2> QED
    BY <1>5, <2>1 DEF Exchange
<1>6. CASE UNCHANGED vars \/ \E a \in Agents : TunnelUp(a) \/ TunnelLost(a)
  BY <1>1, <1>6 DEF vars, TunnelUp, TunnelLost
<1>7. ASSUME NEW s \in Sessions,
             \/ Arrive(s) \/ ArriveProbe(s) \/ ProbeLost(s) \/ Lookup(s)
             \/ LookupFails(s) \/ OpenFails(s) \/ HandshakeFails(s)
             \/ ReceiveOK(s) \/ InitiatorDone(s)
      PROVE  Goal
  BY <1>1, <1>7 DEF Arrive, ArriveProbe, ProbeLost, Lookup, LookupFails,
       OpenFails, HandshakeFails, ReceiveOK, InitiatorDone, EndInitiator
<1>8. ASSUME NEW s \in Sessions, OpenStream(s) PROVE Goal
  <2>1. rsp[s] = "none"
    BY <1>8 DEF OpenStream, SessionInv
  <2> QED
    BY <1>2, <1>8, <2>1 DEF OpenStream
<1>9. ASSUME NEW s \in Sessions,
             \/ ReadFails(s) \/ Unauthorized(s) \/ Overloaded(s)
             \/ AnswerReverseProbe(s) \/ Confirm(s) \/ ConfirmFails(s)
             \/ ResponderDone(s)
      PROVE  Goal
  BY <1>2, <1>9 DEF ReadFails, Unauthorized, Overloaded, Refuse,
       AnswerReverseProbe, Confirm, ConfirmFails, ResponderDone
<1>10. ASSUME NEW s \in Sessions,
              DialFails(s) \/ DialSucceeds(s) \/ ProbeReturns(s)
       PROVE  Goal
  BY <1>4, <1>5, <1>10 DEF DialFails, DialSucceeds, ProbeReturns, Refuse
<1> QED
  BY <1>3, <1>6, <1>7, <1>8, <1>9, <1>10 DEF Next, Initiator, Responder

(***************************************************************************)
(* What a step does to the initiators and their semaphores: nothing, or    *)
(* one client arrives, or one moves on, or one leaves.                     *)
(***************************************************************************)
LEMMA InitiatorStep ==
    ASSUME HandshakeInv, [Next]_vars
    PROVE  \/ UNCHANGED <<ini, semVars>>
           \/ \E s \in Sessions :
                \/ /\ ini[s] = "idle" /\ IsOpen(s) /\ TakeSem(s)
                   /\ ini' = [ini EXCEPT ![s] = "lookup"]
                \/ /\ ini[s] # "idle" /\ ReturnSem(s)
                   /\ ini' = [ini EXCEPT ![s] = "idle"]
                \/ /\ ini[s] # "idle" \/ ~IsOpen(s)
                   /\ UNCHANGED semVars
                   /\ \E i \in {"opening", "waiting", "piping"} :
                        ini' = [ini EXCEPT ![s] = i]
<1> DEFINE Goal ==
      \/ UNCHANGED <<ini, semVars>>
      \/ \E s \in Sessions :
           \/ /\ ini[s] = "idle" /\ IsOpen(s) /\ TakeSem(s)
              /\ ini' = [ini EXCEPT ![s] = "lookup"]
           \/ /\ ini[s] # "idle" /\ ReturnSem(s)
              /\ ini' = [ini EXCEPT ![s] = "idle"]
           \/ /\ ini[s] # "idle" \/ ~IsOpen(s)
              /\ UNCHANGED semVars
              /\ \E i \in {"opening", "waiting", "piping"} :
                   ini' = [ini EXCEPT ![s] = i]
<1>1. CASE UNCHANGED vars \/ \E a \in Agents : TunnelUp(a) \/ TunnelLost(a)
  BY <1>1 DEF vars, TunnelUp, TunnelLost
<1>2. ASSUME NEW s \in Sessions, Arrive(s) \/ ArriveProbe(s) PROVE Goal
  BY <1>2 DEF Arrive, ArriveProbe
<1>3. ASSUME NEW s \in Sessions,
             LookupFails(s) \/ OpenFails(s) \/ HandshakeFails(s) \/ InitiatorDone(s)
      PROVE  Goal
  BY <1>3 DEF LookupFails, OpenFails, HandshakeFails, InitiatorDone, EndInitiator
<1>4. ASSUME NEW s \in Sessions, Lookup(s) \/ OpenStream(s) \/ ReceiveOK(s)
      PROVE  Goal
  BY <1>4 DEF Lookup, OpenStream, ReceiveOK, EndInitiator
<1>5. ASSUME NEW s \in Sessions,
             \/ ProbeLost(s) \/ ReadFails(s) \/ Unauthorized(s) \/ Overloaded(s)
             \/ AnswerReverseProbe(s) \/ StartDial(s) \/ DialFails(s)
             \/ DialSucceeds(s) \/ ProbeReturns(s) \/ Confirm(s)
             \/ ConfirmFails(s) \/ ResponderDone(s)
      PROVE  UNCHANGED <<ini, semVars>>
  BY <1>5 DEF ProbeLost, ReadFails, Unauthorized, Overloaded, Refuse,
       AnswerReverseProbe, StartDial, DialFails, DialSucceeds, ProbeReturns,
       Confirm, ConfirmFails, ResponderDone
<1> QED
  BY <1>1, <1>2, <1>3, <1>4, <1>5 DEF Next, Initiator, Responder

(***************************************************************************)
(* The forward semaphore of an agent changes with its busy handlers.       *)
(***************************************************************************)
LEMMA ForwardStep ==
    ASSUME HandshakeInv, TypeOK, [Next]_vars, NEW a \in Agents
    PROVE  Exchange(forwardSem[a], forwardSem'[a], MaxConnections,
                    ForwardBusy(a), ForwardBusy(a)')
<1> USE DEF HandshakeInv, Shape, TypeOK, ForwardBusy, semVars
<1>1. CASE UNCHANGED <<ini, semVars>>
  BY <1>1 DEF Exchange
<1>2. ASSUME NEW s \in Sessions, ini[s] = "idle", IsOpen(s), TakeSem(s),
             ini' = [ini EXCEPT ![s] = "lookup"]
      PROVE  Exchange(forwardSem[a], forwardSem'[a], MaxConnections,
                      ForwardBusy(a), ForwardBusy(a)')
  <2>1. CASE Lane(s) = <<a, "forward">>
    <3>1. Enters(ForwardBusy(a), ForwardBusy(a)', s)
      BY <1>2, <2>1 DEF Enters
    <3>2. Of[s].agent = a /\ Forward(s)
      BY <2>1, SessionType DEF Lane
    <3> QED
      BY <1>2, <3>1, <3>2 DEF TakeSem, Exchange
  <2>2. CASE Lane(s) # <<a, "forward">>
    <3>1. ForwardBusy(a)' = ForwardBusy(a)
      BY <1>2, <2>2
    <3>2. ~Forward(s) \/ Of[s].agent # a
      BY <2>2, SessionType
    <3> QED
      BY <1>2, <3>1, <3>2 DEF TakeSem, Exchange
  <2> QED
    BY <2>1, <2>2
<1>3. ASSUME NEW s \in Sessions, ini[s] # "idle", ReturnSem(s),
             ini' = [ini EXCEPT ![s] = "idle"]
      PROVE  Exchange(forwardSem[a], forwardSem'[a], MaxConnections,
                      ForwardBusy(a), ForwardBusy(a)')
  <2>1. CASE Lane(s) = <<a, "forward">> /\ IsOpen(s)
    <3>1. Leaves(ForwardBusy(a), ForwardBusy(a)', s)
      BY <1>3, <2>1 DEF Leaves
    <3>2. Of[s].agent = a /\ Forward(s)
      BY <2>1, SessionType DEF Lane
    <3> QED
      BY <1>3, <2>1, <3>1, <3>2 DEF ReturnSem, Exchange
  <2>2. CASE ~(Lane(s) = <<a, "forward">> /\ IsOpen(s))
    <3>1. ForwardBusy(a)' = ForwardBusy(a)
      BY <1>3, <2>2
    <3>2. ~Forward(s) \/ Of[s].agent # a \/ ~IsOpen(s)
      BY <2>2, SessionType
    <3> QED
      BY <1>3, <3>1, <3>2 DEF ReturnSem, Exchange
  <2> QED
    BY <2>1, <2>2
<1>4. ASSUME NEW s \in Sessions, ini[s] # "idle" \/ ~IsOpen(s),
             UNCHANGED semVars, NEW i \in {"opening", "waiting", "piping"},
             ini' = [ini EXCEPT ![s] = i]
      PROVE  Exchange(forwardSem[a], forwardSem'[a], MaxConnections,
                      ForwardBusy(a), ForwardBusy(a)')
  <2>1. ForwardBusy(a)' = ForwardBusy(a)
    BY <1>4
  <2> QED
    BY <1>4, <2>1 DEF Exchange
<1> QED
  BY InitiatorStep, <1>1, <1>2, <1>3, <1>4

(***************************************************************************)
(* So does the server's reverse semaphore, which all agents share.         *)
(***************************************************************************)
LEMMA ReverseStep ==
    ASSUME HandshakeInv, [Next]_vars
    PROVE  Exchange(reverseSem, reverseSem', MaxStreams, ReverseBusy, ReverseBusy')
<1> USE DEF HandshakeInv, Shape, ReverseBusy, semVars
<1> DEFINE Goal ==
      Exchange(reverseSem, reverseSem', MaxStreams, ReverseBusy, ReverseBusy')
<1>1. CASE UNCHANGED <<ini, semVars>>
  BY <1>1 DEF Exchange
<1>2. ASSUME NEW s \in Sessions, ini[s] = "idle", IsOpen(s), TakeSem(s),
             ini' = [ini EXCEPT ![s] = "lookup"]
      PROVE  Goal
  <2>1. CASE ~Forward(s)
    <3>1. Enters(ReverseBusy, ReverseBusy', s)
      BY <1>2, <2>1 DEF Enters
    <3> QED
      BY <1>2, <2>1, <3>1 DEF TakeSem, Exchange
  <2>2. CASE Forward(s)
    <3>1. ReverseBusy' = ReverseBusy
      BY <1>2, <2>2
    <3> QED
      BY <1>2, <2>2, <3>1 DEF TakeSem, Exchange
  <2> QED
    BY <2>1, <2>2
<1>3. ASSUME NEW s \in Sessions, ini[s] # "idle", ReturnSem(s),
             ini' = [ini EXCEPT ![s] = "idle"]
      PROVE  Goal
  <2>1. CASE ~Forward(s) /\ IsOpen(s)
    <3>1. Leaves(ReverseBusy, ReverseBusy', s)
      BY <1>3, <2>1 DEF Leaves
    <3> QED
      BY <1>3, <2>1, <3>1 DEF ReturnSem, Exchange
  <2>2. CASE Forward(s) \/ ~IsOpen(s)
    <3>1. ReverseBusy' = ReverseBusy
      BY <1>3, <2>2
    <3> QED
      BY <1>3, <2>2, <3>1 DEF ReturnSem, Exchange
  <2> QED
    BY <2>1, <2>2
<1>4. ASSUME NEW s \in Sessions, ini[s] # "idle" \/ ~IsOpen(s),
             UNCHANGED semVars, NEW i \in {"opening", "waiting", "piping"},
             ini' = [ini EXCEPT ![s] = i]
      PROVE  Goal
  <2>1. ReverseBusy' = ReverseBusy
    BY <1>4
  <2> QED
    BY <1>4, <2>1 DEF Exchange
<1> QED
  BY InitiatorStep, <1>1, <1>2, <1>3, <1>4

-----------------------------------------------------------------------------
(* Stream credit *)

(* The credit n that covers the responders S becomes m, and they become T. *)
CreditShift(n, m, S, T) ==
    \/ m = n /\ T \subseteq S
    \/ m = 0 /\ T = {}
    \/ m = n + 1 /\ \E s \in Sessions : T \subseteq S \cup {s}
    \/ m = n - 1 /\ \E s \in Sessions : Leaves(S, T, s)

(***************************************************************************)
(* Such a change leaves the responders covered.                            *)
(***************************************************************************)
LEMMA StaysCovered ==
    ASSUME NEW S \in SUBSET Sessions, NEW T, NEW n \in Nat, NEW m,
           Cardinality(S) <= n, CreditShift(n, m, S, T)
    PROVE  m \in Nat /\ Cardinality(T) <= m
<1>1. IsFiniteSet(S) /\ Cardinality(S) \in Nat
  BY SessionsFinite
<1>2. CASE m = n /\ T \subseteq S
  <2>1. Cardinality(T) \in Nat /\ Cardinality(T) <= Cardinality(S)
    BY <1>1, <1>2, FS_Subset, SessionsFinite
  <2> QED
    BY <1>1, <1>2, <2>1
<1>3. CASE m = 0 /\ T = {}
  BY <1>3, FS_EmptySet
<1>4. ASSUME m = n + 1, NEW s \in Sessions, T \subseteq S \cup {s}
      PROVE  m \in Nat /\ Cardinality(T) <= m
  <2>1. /\ IsFiniteSet(S \cup {s})
        /\ Cardinality(S \cup {s}) = Cardinality(S) \/
             Cardinality(S \cup {s}) = Cardinality(S) + 1
    BY <1>1, FS_AddElement
  <2>2. Cardinality(T) \in Nat /\ Cardinality(T) <= Cardinality(S \cup {s})
    BY <1>4, <2>1, FS_Subset, SessionsFinite
  <2> QED
    BY <1>1, <1>4, <2>1, <2>2
<1>5. ASSUME m = n - 1, NEW s \in Sessions, Leaves(S, T, s)
      PROVE  m \in Nat /\ Cardinality(T) <= m
  <2>1. Cardinality(T) = Cardinality(S) - 1 /\ Cardinality(S) > 0
    BY <1>5, CountChange
  <2> QED
    BY <1>1, <1>5, <2>1
<1> QED
  BY <1>2, <1>3, <1>4, <1>5 DEF CreditShift

(***************************************************************************)
(* Opening a stream takes credit for its responder; a responder that has   *)
(* read to the end returns it as it leaves; one that leaves otherwise      *)
(* returns nothing; with the tunnel all streams and their credit are gone. *)
(***************************************************************************)
LEMMA CreditStep ==
    ASSUME HandshakeInv, TypeOK, [Next]_vars
    PROVE  /\ credit' \in [Lanes -> Int]
           /\ \A l \in Lanes :
                CreditShift(credit[l], credit'[l], OnStream(l), OnStream(l)')
<1> USE DEF HandshakeInv, Shape, TypeOK, OnStream
<1> DEFINE Shift(l) ==
             CreditShift(credit[l], credit'[l], OnStream(l), OnStream(l)')
           Goal == credit' \in [Lanes -> Int] /\ \A l \in Lanes : Shift(l)
<1>1. ASSUME UNCHANGED credit,
             \A s \in Sessions : stream'[s] = "live" /\ rsp'[s] # "none" =>
                                 stream[s] = "live" /\ rsp[s] # "none"
      PROVE  Goal
  <2>1. \A l \in Lanes : OnStream(l)' \subseteq OnStream(l)
    BY <1>1
  <2> QED
    BY <1>1, <2>1 DEF CreditShift
<1>2. ASSUME NEW s \in Sessions, ReadToEnd(s), rsp[s] # "none",
             rsp' = [rsp EXCEPT ![s] = "none"], UNCHANGED stream
      PROVE  Goal
  <2>1. CASE ~IsOpen(s)
    BY <1>1, <1>2, <2>1 DEF ReadToEnd
  <2>2. CASE IsOpen(s)
    <3>1. Lane(s) \in Lanes
      BY SessionType
    <3>2. credit' = [credit EXCEPT ![Lane(s)] = @ - 1]
      BY <1>2, <2>2 DEF ReadToEnd
    <3>3. ASSUME NEW l \in Lanes PROVE Shift(l)
      <4>1. CASE l = Lane(s)
        <5>1. Leaves(OnStream(l), OnStream(l)', s)
          BY <1>2, <2>2, <4>1 DEF ReadToEnd, Leaves
        <5> QED
          BY <3>1, <3>2, <4>1, <5>1 DEF CreditShift
      <4>2. CASE l # Lane(s)
        <5>1. OnStream(l)' = OnStream(l)
          BY <1>2, <4>2
        <5> QED
          BY <3>1, <3>2, <4>2, <5>1 DEF CreditShift
      <4> QED
        BY <4>1, <4>2
    <3>4. credit' \in [Lanes -> Int]
      BY <3>1, <3>2
    <3> QED
      BY <3>3, <3>4
  <2> QED
    BY <2>1, <2>2
<1>3. CASE UNCHANGED vars
  BY <1>1, <1>3 DEF vars
<1>4. ASSUME NEW a \in Agents, TunnelUp(a) PROVE Goal
  BY <1>1, <1>4 DEF TunnelUp
<1>5. ASSUME NEW a \in Agents, TunnelLost(a) PROVE Goal
  <2>1. ASSUME NEW l \in Lanes, l[1] = a PROVE Shift(l)
    <3>1. OnStream(l)' = {}
      BY <1>5, <2>1 DEF TunnelLost, Lane
    <3> QED
      BY <1>5, <2>1, <3>1 DEF TunnelLost, CreditShift
  <2>2. ASSUME NEW l \in Lanes, l[1] # a PROVE Shift(l)
    <3>1. OnStream(l)' \subseteq OnStream(l)
      BY <1>5 DEF TunnelLost
    <3> QED
      BY <1>5, <2>2, <3>1 DEF TunnelLost, CreditShift
  <2>3. credit' \in [Lanes -> Int]
    BY <1>5 DEF TunnelLost
  <2> QED
    BY <2>1, <2>2, <2>3
<1>6. ASSUME NEW s \in Sessions,
             Arrive(s) \/ ArriveProbe(s) \/ ProbeLost(s) \/ Lookup(s)
      PROVE  Goal
  <2>1. CASE Arrive(s) \/ ArriveProbe(s)
    BY <1>1, <2>1 DEF Arrive, ArriveProbe, SessionInv
  <2>2. CASE ProbeLost(s)
    BY <1>1, <2>2 DEF ProbeLost, SessionInv
  <2>3. CASE Lookup(s)
    BY <1>1, <2>3 DEF Lookup, SessionInv
  <2> QED
    BY <1>6, <2>1, <2>2, <2>3
<1>7. ASSUME NEW s \in Sessions,
             \/ LookupFails(s) \/ OpenFails(s) \/ HandshakeFails(s)
             \/ ReceiveOK(s) \/ InitiatorDone(s)
      PROVE  Goal
  BY <1>1, <1>7 DEF LookupFails, OpenFails, HandshakeFails, ReceiveOK,
       InitiatorDone, EndInitiator
<1>8. ASSUME NEW s \in Sessions, OpenStream(s) PROVE Goal
  <2>1. CASE ~IsOpen(s)
    <3>1. \A l \in Lanes : OnStream(l)' = OnStream(l)
      BY <1>8, <2>1 DEF OpenStream
    <3> QED
      BY <1>8, <2>1, <3>1 DEF OpenStream, CreditShift
  <2>2. CASE IsOpen(s)
    <3>1. Lane(s) \in Lanes
      BY SessionType
    <3>2. credit' = [credit EXCEPT ![Lane(s)] = @ + 1]
      BY <1>8, <2>2 DEF OpenStream
    <3>3. OnStream(Lane(s))' \subseteq OnStream(Lane(s)) \cup {s}
      BY <1>8 DEF OpenStream
    <3>4. \A l \in Lanes \ {Lane(s)} : OnStream(l)' = OnStream(l)
      BY <1>8 DEF OpenStream
    <3> QED
      BY <3>1, <3>2, <3>3, <3>4 DEF CreditShift
  <2> QED
    BY <2>1, <2>2
<1>9. ASSUME NEW s \in Sessions, ReadFails(s) \/ ResponderDone(s) PROVE Goal
  BY <1>1, <1>2, <1>9 DEF ReadFails, ResponderDone, Refuse
<1>10. ASSUME NEW s \in Sessions,
              \/ Unauthorized(s) \/ Overloaded(s) \/ AnswerReverseProbe(s)
              \/ StartDial(s) \/ DialFails(s) \/ DialSucceeds(s)
              \/ ProbeReturns(s) \/ Confirm(s) \/ ConfirmFails(s)
       PROVE  Goal
  <2>1. CASE Unauthorized(s) \/ Overloaded(s)
    BY <1>1, <2>1 DEF Unauthorized, Overloaded, Refuse
  <2>2. CASE AnswerReverseProbe(s)
    BY <1>1, <2>2 DEF AnswerReverseProbe, ProbeAnswered
  <2>3. CASE StartDial(s)
    BY <1>1, <2>3 DEF StartDial
  <2>4. CASE DialFails(s)
    BY <1>1, <2>4 DEF DialFails, Refuse, ProbeAnswered
  <2>5. CASE DialSucceeds(s)
    BY <1>1, <2>5 DEF DialSucceeds, ProbeAnswered
  <2>6. CASE ProbeReturns(s)
    BY <1>1, <2>6 DEF ProbeReturns, ProbeAnswered
  <2>7. CASE Confirm(s) \/ ConfirmFails(s)
    BY <1>1, <2>7 DEF Confirm, ConfirmFails
  <2> QED
    BY <1>10, <2>1, <2>2, <2>3, <2>4, <2>5, <2>6, <2>7
<1> QED
  BY <1>3, <1>4, <1>5, <1>6, <1>7, <1>8, <1>9, <1>10
     DEF Next, Initiator, Responder

-----------------------------------------------------------------------------
(* The theorems *)

(***************************************************************************)
(* The three semaphores, in the words of the lemmas.                       *)
(***************************************************************************)
LEMMA BalanceAsCounts ==
    SemaphoresBalanced <=>
      /\ Counts(dials, MaxPendingDials, Dialing)
      /\ \A a \in Agents :
           Counts(forwardSem[a], MaxConnections, ForwardBusy(a))
      /\ Counts(reverseSem, MaxStreams, ReverseBusy)
BY DEF SemaphoresBalanced, Counts, Dialing, ForwardBusy, ReverseBusy

(***************************************************************************)
(* Streams and tunnels stay in their states, and forwardSem a function.    *)
(***************************************************************************)
LEMMA StreamTypesStep ==
    ASSUME HandshakeInv, TypeOK, [Next]_vars
    PROVE  /\ stream' \in [Sessions -> {"none", "live", "dead"}]
           /\ tunnel' \in [Agents -> {"up", "down"}]
           /\ forwardSem' \in [Agents -> Int]
<1> USE DEF TypeOK
<1>1. forwardSem' \in [Agents -> Int]
  <2>1. CASE UNCHANGED <<ini, semVars>>
    BY <2>1 DEF semVars
  <2>2. ASSUME NEW s \in Sessions, TakeSem(s) \/ ReturnSem(s) \/ UNCHANGED semVars
        PROVE  forwardSem' \in [Agents -> Int]
    BY <2>2 DEF TakeSem, ReturnSem, semVars
  <2> QED
    BY InitiatorStep, <2>1, <2>2
<1> DEFINE Types == /\ stream' \in [Sessions -> {"none", "live", "dead"}]
                    /\ tunnel' \in [Agents -> {"up", "down"}]
<1>2. ASSUME UNCHANGED vars PROVE Types
  BY <1>2 DEF vars
<1>3. ASSUME NEW a \in Agents, TunnelUp(a) \/ TunnelLost(a) PROVE Types
  BY <1>3 DEF TunnelUp, TunnelLost
<1>4. ASSUME NEW s \in Sessions,
             Arrive(s) \/ ArriveProbe(s) \/ ProbeLost(s) \/ Lookup(s)
      PROVE  Types
  BY <1>4 DEF Arrive, ArriveProbe, ProbeLost, Lookup
<1>5. ASSUME NEW s \in Sessions,
             \/ LookupFails(s) \/ OpenFails(s) \/ HandshakeFails(s)
             \/ ReceiveOK(s) \/ InitiatorDone(s) \/ OpenStream(s)
      PROVE  UNCHANGED <<stream, tunnel>>
  BY <1>5 DEF LookupFails, OpenFails, HandshakeFails, ReceiveOK,
       InitiatorDone, EndInitiator, OpenStream
<1>6. ASSUME NEW s \in Sessions, Responder(s) \/ ResponderDone(s)
      PROVE  UNCHANGED <<stream, tunnel>>
  BY <1>6 DEF Responder, ResponderDone, ReadFails, Unauthorized, Overloaded,
       Refuse, AnswerReverseProbe, StartDial, DialFails, DialSucceeds,
       ProbeReturns, Confirm, ConfirmFails
<1>7. Types
  BY <1>2, <1>3, <1>4, <1>5, <1>6 DEF Next, Initiator
<1> QED
  BY <1>1, <1>7

(***************************************************************************)
(* The invariant is inductive.                                             *)
(***************************************************************************)
LEMMA BalanceStep == BalanceInv /\ [Next]_vars => BalanceInv'
<1> SUFFICES ASSUME BalanceInv, [Next]_vars PROVE BalanceInv'
  OBVIOUS
<1>0. HandshakeInv /\ TypeOK /\ SemaphoresBalanced /\ CreditInv
  BY DEF BalanceInv
<1>1. HandshakeInv'
  BY <1>0, HandshakeStep
<1>2. /\ MaxPendingDials \in Nat /\ MaxConnections \in Nat
      /\ MaxStreams \in Nat
  BY StreamLimitAssumption
<1>3. Counts(dials, MaxPendingDials, Dialing)' /\ dials' \in Nat
  <2>1. Dialing \in SUBSET Sessions
    BY DEF Dialing
  <2>2. Counts(dials, MaxPendingDials, Dialing)
    BY <1>0, BalanceAsCounts
  <2>3. Exchange(dials, dials', MaxPendingDials, Dialing, Dialing')
    BY <1>0, DialsStep
  <2>4. Counts(dials', MaxPendingDials, Dialing') /\ dials' \in Nat
    BY <1>2, <2>1, <2>2, <2>3, StaysBalanced
  <2> QED
    BY <2>4 DEF Counts
<1>4. ASSUME NEW a \in Agents
      PROVE  /\ Counts(forwardSem'[a], MaxConnections, ForwardBusy(a)')
             /\ forwardSem'[a] \in Nat
  <2>1. ForwardBusy(a) \in SUBSET Sessions
    BY DEF ForwardBusy
  <2>2. Counts(forwardSem[a], MaxConnections, ForwardBusy(a))
    BY <1>0, BalanceAsCounts
  <2>3. Exchange(forwardSem[a], forwardSem'[a], MaxConnections,
                 ForwardBusy(a), ForwardBusy(a)')
    BY <1>0, ForwardStep
  <2> QED
    BY <1>2, <2>1, <2>2, <2>3, StaysBalanced
<1>5. Counts(reverseSem, MaxStreams, ReverseBusy)' /\ reverseSem' \in Nat
  <2>1. ReverseBusy \in SUBSET Sessions
    BY DEF ReverseBusy
  <2>2. Counts(reverseSem, MaxStreams, ReverseBusy)
    BY <1>0, BalanceAsCounts
  <2>3. Exchange(reverseSem, reverseSem', MaxStreams, ReverseBusy, ReverseBusy')
    BY <1>0, ReverseStep
  <2>4. Counts(reverseSem', MaxStreams, ReverseBusy') /\ reverseSem' \in Nat
    BY <1>2, <2>1, <2>2, <2>3, StaysBalanced
  <2> QED
    BY <2>4 DEF Counts
<1>6. ASSUME NEW l \in Lanes
      PROVE  credit'[l] \in Nat /\ Cardinality(OnStream(l)') <= credit'[l]
  <2>1. OnStream(l) \in SUBSET Sessions
    BY DEF OnStream
  <2>2. credit[l] \in Nat /\ Cardinality(OnStream(l)) <= credit[l]
    BY <1>0 DEF TypeOK, CreditInv
  <2>3. CreditShift(credit[l], credit'[l], OnStream(l), OnStream(l)')
    BY <1>0, CreditStep
  <2> QED
    BY <2>1, <2>2, <2>3, StaysCovered
<1>7. SemaphoresBalanced'
  <2>1. \A a \in Agents : Counts(forwardSem[a], MaxConnections, ForwardBusy(a))'
    BY <1>4 DEF Counts
  <2> QED
    BY <1>3, <1>5, <2>1
       DEF SemaphoresBalanced, Counts, Dialing, ForwardBusy, ReverseBusy
<1>8. CreditInv'
  BY <1>6 DEF CreditInv
<1>9. TypeOK'
  <2>1. credit' \in [Lanes -> Nat]
    BY <1>0, <1>6, CreditStep
  <2>2. forwardSem' \in [Agents -> Nat]
    BY <1>0, <1>4, StreamTypesStep
  <2>3. /\ stream' \in [Sessions -> {"none", "live", "dead"}]
        /\ tunnel' \in [Agents -> {"up", "down"}]
    BY <1>0, StreamTypesStep
  <2> QED
    BY <1>1, <1>3, <1>5, <2>1, <2>2, <2>3 DEF TypeOK, HandshakeInv, Shape
<1> QED
  BY <1>1, <1>7, <1>8, <1>9 DEF BalanceInv

(***************************************************************************)
(* It holds of every behaviour: at first nobody holds anything.            *)
(***************************************************************************)
LEMMA BalanceAlways == Spec => []BalanceInv
<1>1. Init => BalanceInv
  <2> SUFFICES ASSUME Init PROVE BalanceInv
    OBVIOUS
  <2>1. HandshakeInv
    BY DEF Init, HandshakeInv, Shape, SessionInv
  <2>2. TypeOK
    BY DEF Init, TypeOK
  <2>3. /\ Dialing = {} /\ ReverseBusy = {}
        /\ \A a \in Agents : ForwardBusy(a) = {}
        /\ \A l \in Lanes : OnStream(l) = {}
    BY DEF Init, Dialing, HoldsDialSlot, ReverseBusy, ForwardBusy, OnStream
  <2>4. Cardinality({}) = 0
    BY FS_EmptySet
  <2>5. SemaphoresBalanced
    BY <2>3, <2>4, BalanceAsCounts, StreamLimitAssumption DEF Init, Counts
  <2>6. CreditInv
    BY <2>3, <2>4 DEF Init, CreditInv
  <2> QED
    BY <2>1, <2>2, <2>5, <2>6 DEF BalanceInv
<1> QED
  BY <1>1, BalanceStep, PTL DEF Spec

(***************************************************************************)
(* The forward, reverse and dials semaphores hold one token per handler or *)
(* dial that uses them and never exceed their capacity, on every path      *)
(* through the handlers and for any number of sessions.                    *)
(***************************************************************************)
THEOREM TokensAreReturned == Spec => []SemaphoresBalanced
BY BalanceAlways, PTL DEF BalanceInv

(***************************************************************************)
(* The types; in particular stream credit is never returned twice, so it   *)
(* never falls below zero.                                                 *)
(***************************************************************************)
THEOREM StreamsTypeCorrect == Spec => []TypeOK
BY BalanceAlways, PTL DEF BalanceInv

==============================================================================
