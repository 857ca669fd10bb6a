---------------------------- MODULE ServerProofs ----------------------------
(***************************************************************************)
(* Proofs about module Server, for every set of agents, every finite set   *)
(* of connections and every capacity of the probes channel.                *)
(***************************************************************************)
EXTENDS Server, FiniteSetTheorems, TLAPS

-----------------------------------------------------------------------------
(* Counting the connections in a set of stages when one of them moves *)

(***************************************************************************)
(* The connections in a set of stages are finitely many.                   *)
(***************************************************************************)
LEMMA AtFinite ==
    ASSUME NEW f, NEW K
    PROVE  LET S == {x \in Conns : f[x] \in K}
           IN  IsFiniteSet(S) /\ Cardinality(S) \in Nat
<1> DEFINE S == {x \in Conns : f[x] \in K}
<1>1. S \in SUBSET Conns
  OBVIOUS
<1>2. IsFiniteSet(S)
  BY <1>1, ConnsAssumption, FS_Subset
<1> QED
  BY <1>2, FS_CardinalityType

(***************************************************************************)
(* A connection that enters a set of stages makes it one larger.           *)
(***************************************************************************)
LEMMA CountEnter ==
    ASSUME NEW f \in [Conns -> Stages], NEW K, NEW c \in Conns,
           NEW s \in Stages, f[c] \notin K, s \in K
    PROVE  Cardinality({x \in Conns : [f EXCEPT ![c] = s][x] \in K})
             = Cardinality({x \in Conns : f[x] \in K}) + 1
<1> DEFINE S == {x \in Conns : f[x] \in K}
<1>1. {x \in Conns : [f EXCEPT ![c] = s][x] \in K} = S \cup {c}
  OBVIOUS
<1>2. c \notin S
  OBVIOUS
<1>3. IsFiniteSet(S)
  BY AtFinite
<1> QED
  BY <1>1, <1>2, <1>3, FS_AddElement

(***************************************************************************)
(* A connection that leaves a set of stages makes it one smaller.          *)
(***************************************************************************)
LEMMA CountLeave ==
    ASSUME NEW f \in [Conns -> Stages], NEW K, NEW c \in Conns,
           NEW s \in Stages, f[c] \in K, s \notin K
    PROVE  Cardinality({x \in Conns : [f EXCEPT ![c] = s][x] \in K})
             = Cardinality({x \in Conns : f[x] \in K}) - 1
<1> DEFINE S == {x \in Conns : f[x] \in K}
<1>1. {x \in Conns : [f EXCEPT ![c] = s][x] \in K} = S \ {c}
  OBVIOUS
<1>2. c \in S
  OBVIOUS
<1>3. IsFiniteSet(S)
  BY AtFinite
<1> QED
  BY <1>1, <1>2, <1>3, FS_RemoveElement

(***************************************************************************)
(* A connection that moves within, or outside, a set of stages does not    *)
(* change it.                                                              *)
(***************************************************************************)
LEMMA SameMembers ==
    ASSUME NEW f \in [Conns -> Stages], NEW K, NEW c \in Conns,
           NEW s \in Stages, f[c] \in K <=> s \in K
    PROVE  {x \in Conns : [f EXCEPT ![c] = s][x] \in K}
             = {x \in Conns : f[x] \in K}
OBVIOUS

-----------------------------------------------------------------------------
(* The actions, one at a time *)

(***************************************************************************)
(* Next as one flat disjunction.                                           *)
(***************************************************************************)
Step(c) ==
    \/ Dial(c) \/ Drop(c) \/ Accept(c)
    \/ AcceptProbe(c) \/ RefuseProbe(c) \/ AcceptAgent(c)
    \/ AcceptLegacyProbe(c) \/ RefuseDuplicate(c)
    \/ CountConnection(c) \/ AnnounceAgent(c) \/ CloseTaken(c)
    \/ unregister(c) \/ UncountConnection(c) \/ WithdrawAgent(c)
    \/ LeaveProbe(c) \/ RejectNonProbe(c) \/ LeaveLegacyProbe(c)
    \/ ReleaseSlot(c)

Global ==
    \/ Signal \/ AcceptError \/ AcceptorDone \/ SeeCancel
    \/ ReceiveAcceptError \/ ReceiveListenerError
    \/ TakeConnections \/ CancelRunCtx \/ CloseListener \/ WatchCancel

(***************************************************************************)
(* Every step of the server is one of those.                               *)
(***************************************************************************)
LEMMA NextIsFlat == Next => Global \/ \E c \in Conns : Step(c)
BY DEF Next, Environment, Acceptor, Loop, Defers, Handler, Step, Global

-----------------------------------------------------------------------------
(* Type correctness *)

(***************************************************************************)
(* The probes channel is never received from when it is empty: TypeOK      *)
(* needs the slot count, so the two are proved together.                   *)
(***************************************************************************)
TypeInv == TypeOK /\ ProbeSlots

(***************************************************************************)
(* A server that starts has no probe handler and no slot taken.            *)
(***************************************************************************)
LEMMA TypeInit == Init => TypeInv
<1> SUFFICES ASSUME Init PROVE TypeInv
  OBVIOUS
<1>1. TypeOK
  BY ConnsAssumption DEF Init, TypeOK, Stages
<1>2. At(SlotHeld) = {}
  BY DEF Init, At, SlotHeld
<1> QED
  BY <1>1, <1>2, FS_EmptySet, LimitAssumption DEF Init, ProbeSlots, TypeInv

(***************************************************************************)
(* A step leaves the probe slots alone, takes one, or returns one, and the *)
(* connection's stage says which.                                          *)
(***************************************************************************)
LEMMA SlotStep == TypeInv /\ [Next]_vars => ProbeSlots'
<1> SUFFICES ASSUME TypeInv, [Next]_vars PROVE ProbeSlots'
  OBVIOUS
<1> USE DEF TypeInv
<1>t. /\ stage \in [Conns -> Stages]
      /\ probes \in Nat
      /\ probes = Cardinality({x \in Conns : stage[x] \in SlotHeld})
      /\ probes <= MaxPendingDials /\ MaxPendingDials \in Nat
  BY LimitAssumption DEF TypeOK, ProbeSlots, At
<1>g. SUFFICES /\ probes' = Cardinality({x \in Conns : stage'[x] \in SlotHeld})
               /\ probes' <= MaxPendingDials
  BY DEF ProbeSlots, At
<1>1. CASE UNCHANGED vars
  BY <1>t, <1>1 DEF vars
<1>2. CASE Global
  <2>1. probes' = probes
    BY <1>2 DEF Global, Signal, AcceptError, AcceptorDone, SeeCancel,
         ReceiveAcceptError, ReceiveListenerError, TakeConnections,
         CancelRunCtx, CloseListener, WatchCancel
  <2>2. CASE AcceptorDone
    <3>1. {x \in Conns : stage'[x] \in SlotHeld}
            = {x \in Conns : stage[x] \in SlotHeld}
      BY <2>2 DEF AcceptorDone, SlotHeld
    <3> QED
      BY <1>t, <2>1, <3>1
  <2>3. CASE ~AcceptorDone
    <3>1. stage' = stage
      BY <1>2, <2>3 DEF Global, Signal, AcceptError, SeeCancel,
           ReceiveAcceptError, ReceiveListenerError, TakeConnections,
           CancelRunCtx, CloseListener, WatchCancel
    <3> QED
      BY <1>t, <2>1, <3>1
  <2> QED
    BY <2>2, <2>3
<1>3. ASSUME NEW c \in Conns, AcceptProbe(c) \/ AcceptLegacyProbe(c)
      PROVE  /\ probes' = Cardinality({x \in Conns : stage'[x] \in SlotHeld})
             /\ probes' <= MaxPendingDials
  <2>1. PICK s \in {"probe", "legacy"} : stage' = [stage EXCEPT ![c] = s]
    BY <1>3 DEF AcceptProbe, AcceptLegacyProbe, GoTo
  <2>2. stage[c] = "held" /\ probes < MaxPendingDials /\ probes' = probes + 1
    BY <1>3 DEF AcceptProbe, AcceptLegacyProbe, Receive, TakeSlot
  <2>3. stage[c] \notin SlotHeld /\ s \in SlotHeld /\ s \in Stages
    BY <2>2 DEF SlotHeld, Stages
  <2>4. Cardinality({x \in Conns : stage'[x] \in SlotHeld})
          = Cardinality({x \in Conns : stage[x] \in SlotHeld}) + 1
    BY <1>t, <2>1, <2>3, CountEnter
  <2> QED
    BY <1>t, <2>2, <2>4
<1>4. ASSUME NEW c \in Conns, ReleaseSlot(c)
      PROVE  /\ probes' = Cardinality({x \in Conns : stage'[x] \in SlotHeld})
             /\ probes' <= MaxPendingDials
  <2>1. /\ stage[c] = "releasing" /\ stage' = [stage EXCEPT ![c] = "idle"]
        /\ probes' = probes - 1
    BY <1>4 DEF ReleaseSlot, GoTo
  <2>2. stage[c] \in SlotHeld /\ "idle" \notin SlotHeld /\ "idle" \in Stages
    BY <2>1 DEF SlotHeld, Stages
  <2>3. Cardinality({x \in Conns : stage'[x] \in SlotHeld})
          = Cardinality({x \in Conns : stage[x] \in SlotHeld}) - 1
    BY <1>t, <2>1, <2>2, CountLeave
  <2> QED
    BY <1>t, <2>1, <2>3
<1>5. ASSUME NEW c \in Conns, Step(c),
             ~AcceptProbe(c), ~AcceptLegacyProbe(c), ~ReleaseSlot(c)
      PROVE  /\ probes' = Cardinality({x \in Conns : stage'[x] \in SlotHeld})
             /\ probes' <= MaxPendingDials
  <2>1. /\ probes' = probes
        /\ \E s \in Stages : /\ stage' = [stage EXCEPT ![c] = s]
                             /\ stage[c] \in SlotHeld <=> s \in SlotHeld
    <3>1. CASE Dial(c) \/ Drop(c) \/ Accept(c) \/ RejectNonProbe(c) \/ CloseTaken(c)
      BY <1>t, <3>1 DEF Dial, Drop, Accept, RejectNonProbe, CloseTaken, GoTo,
           SlotHeld, Stages
    <3>2. CASE RefuseProbe(c) \/ AcceptAgent(c) \/ RefuseDuplicate(c)
      BY <1>t, <3>2 DEF RefuseProbe, AcceptAgent, RefuseDuplicate, Receive,
           NoSlot, GoTo, SlotHeld, Stages
    <3>3. CASE \/ CountConnection(c) \/ AnnounceAgent(c) \/ unregister(c)
               \/ UncountConnection(c) \/ WithdrawAgent(c)
      BY <1>t, <3>3 DEF CountConnection, AnnounceAgent, unregister,
           UncountConnection, WithdrawAgent, GoTo, SlotHeld, Stages
    <3>4. CASE LeaveProbe(c) \/ LeaveLegacyProbe(c)
      BY <1>t, <3>4 DEF LeaveProbe, LeaveLegacyProbe, GoTo, SlotHeld, Stages
    <3> QED
      BY <1>5, <3>1, <3>2, <3>3, <3>4 DEF Step
  <2>2. {x \in Conns : stage'[x] \in SlotHeld}
          = {x \in Conns : stage[x] \in SlotHeld}
    BY <1>t, <2>1, SameMembers
  <2> QED
    BY <1>t, <2>1, <2>2
<1> QED
  BY NextIsFlat, <1>1, <1>2, <1>3, <1>4, <1>5 DEF Step

(***************************************************************************)
(* A step of one connection moves that connection to a stage and leaves    *)
(* the others where they are.                                              *)
(***************************************************************************)
LEMMA StageStep ==
    ASSUME TypeOK, NEW c \in Conns, Step(c)
    PROVE  \E s \in Stages : stage' = [stage EXCEPT ![c] = s]
<1>1. CASE Dial(c) \/ Drop(c) \/ Accept(c) \/ RejectNonProbe(c) \/ CloseTaken(c)
  BY <1>1 DEF TypeOK, Dial, Drop, Accept, RejectNonProbe, CloseTaken, GoTo,
       Stages
<1>2. CASE \/ AcceptProbe(c) \/ RefuseProbe(c) \/ AcceptAgent(c)
           \/ AcceptLegacyProbe(c) \/ RefuseDuplicate(c)
  BY <1>2 DEF AcceptProbe, RefuseProbe, AcceptAgent, AcceptLegacyProbe,
       RefuseDuplicate, GoTo, Stages
<1>3. CASE \/ CountConnection(c) \/ AnnounceAgent(c) \/ unregister(c)
           \/ UncountConnection(c) \/ WithdrawAgent(c)
  BY <1>3 DEF CountConnection, AnnounceAgent, unregister, UncountConnection,
       WithdrawAgent, GoTo, Stages
<1>4. CASE LeaveProbe(c) \/ LeaveLegacyProbe(c) \/ ReleaseSlot(c)
  BY <1>4 DEF LeaveProbe, LeaveLegacyProbe, ReleaseSlot, GoTo, Stages
<1> QED
  BY <1>1, <1>2, <1>3, <1>4 DEF Step

(***************************************************************************)
(* Every step of Run, of its goroutines and of the peers keeps the types and *)
(* the balance of the probe slots.                                         *)
(***************************************************************************)
LEMMA TypeStep == TypeInv /\ [Next]_vars => TypeInv'
<1> SUFFICES ASSUME TypeInv, [Next]_vars PROVE TypeInv'
  OBVIOUS
<1>s. ProbeSlots'
  BY SlotStep
<1>p. probes' \in Nat
  BY <1>s, AtFinite DEF ProbeSlots, At
<1>t. TypeOK
  BY DEF TypeInv
<1>1. CASE UNCHANGED vars
  BY <1>t, <1>s, <1>1 DEF vars, TypeOK, TypeInv, controlVars, registryVars,
       metricVars
<1>2. CASE Global
  <2>1. TypeOK'
    BY <1>t, <1>2, <1>p DEF Global, Signal, AcceptError, AcceptorDone, SeeCancel,
         ReceiveAcceptError, ReceiveListenerError, TakeConnections,
         CancelRunCtx, CloseListener, WatchCancel, TypeOK, Stages,
         controlVars, registryVars, metricVars
  <2> QED
    BY <1>s, <2>1 DEF TypeInv
<1>3. ASSUME NEW c \in Conns, Step(c) PROVE TypeInv'
  <2>1. stage' \in [Conns -> Stages]
    BY <1>t, <1>3, StageStep DEF TypeOK
  <2>2. PeerID[c] \in Agents
    BY PeerAssumption
  <2>3. CASE Dial(c) \/ Drop(c) \/ Accept(c) \/ RejectNonProbe(c) \/ CloseTaken(c)
    BY <1>t, <1>p, <1>s, <2>1, <2>3 DEF TypeInv, TypeOK, Dial, Drop, Accept,
         RejectNonProbe, CloseTaken, CloseWithError, controlVars,
         registryVars, metricVars
  <2>4. CASE \/ AcceptProbe(c) \/ RefuseProbe(c) \/ AcceptAgent(c)
             \/ AcceptLegacyProbe(c) \/ RefuseDuplicate(c)
    BY <1>t, <1>p, <1>s, <2>1, <2>2, <2>4 DEF TypeInv, TypeOK, AcceptProbe,
         RefuseProbe, AcceptAgent, AcceptLegacyProbe, RefuseDuplicate,
         Receive, register, CloseWithError, metricVars
  <2>5. CASE \/ CountConnection(c) \/ AnnounceAgent(c) \/ unregister(c)
             \/ UncountConnection(c) \/ WithdrawAgent(c)
    BY <1>t, <1>p, <1>s, <2>1, <2>2, <2>5 DEF TypeInv, TypeOK, CountConnection,
         AnnounceAgent, unregister, UncountConnection, WithdrawAgent,
         controlVars, registryVars, metricVars
  <2>6. CASE LeaveProbe(c) \/ LeaveLegacyProbe(c) \/ ReleaseSlot(c)
    BY <1>t, <1>p, <1>s, <2>1, <2>6 DEF TypeInv, TypeOK, LeaveProbe,
         LeaveLegacyProbe, ReleaseSlot, CloseWithError, controlVars,
         registryVars, metricVars
  <2> QED
    BY <1>3, <2>3, <2>4, <2>5, <2>6 DEF Step
<1> QED
  BY NextIsFlat, <1>1, <1>2, <1>3

(***************************************************************************)
(* Every variable keeps its type, and the probes channel holds exactly one *)
(* token per running probe handler, never more than its capacity, whatever *)
(* the peers do and however Run ends.                                      *)
(***************************************************************************)
THEOREM SlotsBalanced == Spec => [](TypeOK /\ ProbeSlots)
<1>1. TypeInv /\ [Next]_vars => TypeInv'
  BY TypeStep
<1> QED
  BY TypeInit, <1>1, PTL DEF Spec, TypeInv

(***************************************************************************)
(* Every variable of the server keeps its type; in particular the probes   *)
(* channel is never received from when it is empty.                        *)
(***************************************************************************)
THEOREM ServerTypeCorrect == Spec => []TypeOK
BY SlotsBalanced, PTL

-----------------------------------------------------------------------------
(* The gauge *)

GaugeInv == TypeOK /\ GaugeBalanced

(***************************************************************************)
(* The gauge moves with the stage of the one connection a step is about.   *)
(***************************************************************************)
LEMMA GaugeStep == GaugeInv /\ [Next]_vars => GaugeBalanced'
<1> SUFFICES ASSUME GaugeInv, [Next]_vars PROVE GaugeBalanced'
  OBVIOUS
<1>t. /\ stage \in [Conns -> Stages]
      /\ quicConnections \in Int
      /\ quicConnections = Cardinality({x \in Conns : stage[x] \in Counted})
  BY DEF GaugeInv, TypeOK, GaugeBalanced, At
<1>g. SUFFICES quicConnections' = Cardinality({x \in Conns : stage'[x] \in Counted})
  BY DEF GaugeBalanced, At
<1>n. Cardinality({x \in Conns : stage[x] \in Counted}) \in Nat
  BY AtFinite
<1>1. CASE UNCHANGED vars
  BY <1>t, <1>1 DEF vars, metricVars
<1>2. CASE Global
  <2>1. {x \in Conns : stage'[x] \in Counted}
          = {x \in Conns : stage[x] \in Counted}
    BY <1>2 DEF Global, Signal, AcceptError, AcceptorDone, SeeCancel,
         ReceiveAcceptError, ReceiveListenerError, TakeConnections,
         CancelRunCtx, CloseListener, WatchCancel, Counted
  <2>2. quicConnections' = quicConnections
    BY <1>2 DEF Global, Signal, AcceptError, AcceptorDone, SeeCancel,
         ReceiveAcceptError, ReceiveListenerError, TakeConnections,
         CancelRunCtx, CloseListener, WatchCancel, metricVars
  <2> QED
    BY <1>t, <2>1, <2>2
<1>3. ASSUME NEW c \in Conns, CountConnection(c)
      PROVE  quicConnections' = Cardinality({x \in Conns : stage'[x] \in Counted})
  <2>1. /\ stage[c] = "registered" /\ stage' = [stage EXCEPT ![c] = "counted"]
        /\ quicConnections' = quicConnections + 1
    BY <1>3 DEF CountConnection, GoTo
  <2>2. stage[c] \notin Counted /\ "counted" \in Counted /\ "counted" \in Stages
    BY <2>1 DEF Counted, Stages
  <2>3. Cardinality({x \in Conns : stage'[x] \in Counted})
          = Cardinality({x \in Conns : stage[x] \in Counted}) + 1
    BY <1>t, <2>1, <2>2, CountEnter
  <2> QED
    BY <1>t, <2>1, <2>3
<1>4. ASSUME NEW c \in Conns, UncountConnection(c)
      PROVE  quicConnections' = Cardinality({x \in Conns : stage'[x] \in Counted})
  <2>1. /\ stage[c] = "left" /\ stage' = [stage EXCEPT ![c] = "uncounted"]
        /\ quicConnections' = quicConnections - 1
    BY <1>4 DEF UncountConnection, GoTo
  <2>2. stage[c] \in Counted /\ "uncounted" \notin Counted /\ "uncounted" \in Stages
    BY <2>1 DEF Counted, Stages
  <2>3. Cardinality({x \in Conns : stage'[x] \in Counted})
          = Cardinality({x \in Conns : stage[x] \in Counted}) - 1
    BY <1>t, <2>1, <2>2, CountLeave
  <2> QED
    BY <1>t, <2>1, <2>3
<1>5. ASSUME NEW c \in Conns, Step(c), ~CountConnection(c), ~UncountConnection(c)
      PROVE  quicConnections' = Cardinality({x \in Conns : stage'[x] \in Counted})
  <2>1. /\ quicConnections' = quicConnections
        /\ \E s \in Stages : /\ stage' = [stage EXCEPT ![c] = s]
                             /\ stage[c] \in Counted <=> s \in Counted
    <3>1. CASE Dial(c) \/ Drop(c) \/ Accept(c) \/ RejectNonProbe(c) \/ CloseTaken(c)
      BY <1>t, <3>1 DEF Dial, Drop, Accept, RejectNonProbe, CloseTaken, GoTo,
           Counted, Stages, metricVars
    <3>2. CASE \/ AcceptProbe(c) \/ RefuseProbe(c) \/ AcceptAgent(c)
               \/ AcceptLegacyProbe(c) \/ RefuseDuplicate(c)
      BY <1>t, <3>2 DEF AcceptProbe, RefuseProbe, AcceptAgent,
           AcceptLegacyProbe, RefuseDuplicate, Receive, GoTo, Counted, Stages,
           metricVars
    <3>3. CASE AnnounceAgent(c) \/ unregister(c) \/ WithdrawAgent(c)
      BY <1>t, <3>3 DEF AnnounceAgent, unregister, WithdrawAgent, GoTo,
           Counted, Stages, metricVars
    <3>4. CASE LeaveProbe(c) \/ LeaveLegacyProbe(c) \/ ReleaseSlot(c)
      BY <1>t, <3>4 DEF LeaveProbe, LeaveLegacyProbe, ReleaseSlot, GoTo,
           Counted, Stages, metricVars
    <3> QED
      BY <1>5, <3>1, <3>2, <3>3, <3>4 DEF Step
  <2>2. {x \in Conns : stage'[x] \in Counted}
          = {x \in Conns : stage[x] \in Counted}
    BY <1>t, <2>1, SameMembers
  <2> QED
    BY <1>t, <2>1, <2>2
<1> QED
  BY NextIsFlat, <1>1, <1>2, <1>3, <1>4, <1>5

(***************************************************************************)
(* The connection gauge always equals the number of agent connections      *)
(* whose handler has been announced and not yet finished.                  *)
(***************************************************************************)
THEOREM GaugeCorrect == Spec => []GaugeBalanced
<1>1. Init => GaugeBalanced
  <2>1. Init => At(Counted) = {}
    BY DEF Init, At, Counted
  <2> QED
    BY <2>1, FS_EmptySet DEF Init, GaugeBalanced
<1>2. TypeOK /\ GaugeBalanced /\ [Next]_vars => GaugeBalanced'
  BY GaugeStep DEF GaugeInv
<1> QED
  BY <1>1, <1>2, SlotsBalanced, PTL DEF Spec

-----------------------------------------------------------------------------
(* The registry *)

(***************************************************************************)
(* register, unregister and closeConnections keep the registry and the     *)
(* goroutines in agreement; no other step touches either.                  *)
(***************************************************************************)
LEMMA RegistryStep ==
    TypeOK /\ RegistryCoherent /\ [Next]_vars => RegistryCoherent'
<1> SUFFICES ASSUME TypeOK, RegistryCoherent, [Next]_vars
             PROVE  RegistryCoherent'
  OBVIOUS
<1> USE ConnsAssumption, PeerAssumption DEF TypeOK, RegistryCoherent
<1>1. CASE UNCHANGED vars
  BY <1>1 DEF vars, controlVars, registryVars
<1>2. CASE Global
  <2>1. CASE AcceptorDone
    BY <2>1 DEF AcceptorDone, Serving, registryVars
  <2>2. CASE TakeConnections
    BY <2>2 DEF TakeConnections
  <2>3. CASE ~AcceptorDone /\ ~TakeConnections
    <3>1. /\ conns' = conns /\ stage' = stage
          /\ run' \in {"serving", "returning"} => run \in {"serving", "returning"}
      BY <1>2, <2>3 DEF Global, Signal, AcceptError, SeeCancel,
           ReceiveAcceptError, ReceiveListenerError, CancelRunCtx,
           CloseListener, WatchCancel, AtSelect, registryVars
    <3> QED
      BY <3>1
  <2> QED
    BY <1>2, <2>1, <2>2, <2>3
<1>3. ASSUME NEW c \in Conns, AcceptAgent(c) PROVE RegistryCoherent'
  <2>1. /\ conns[PeerID[c]] = NoConn
        /\ conns' = [conns EXCEPT ![PeerID[c]] = c]
        /\ stage' = [stage EXCEPT ![c] = "registered"]
        /\ run' = run
    BY <1>3 DEF AcceptAgent, Receive, register, GoTo
  <2>2. \A x \in Conns :
          stage[x] \in Serving /\ run \in {"serving", "returning"} =>
            PeerID[x] # PeerID[c]
    BY <2>1
  <2> QED
    BY <2>1, <2>2 DEF Serving
<1>4. ASSUME NEW c \in Conns, unregister(c) PROVE RegistryCoherent'
  <2>1. /\ stage[c] = "agent" /\ stage' = [stage EXCEPT ![c] = "left"]
        /\ run' = run
        /\ conns' = IF conns[PeerID[c]] = c
                      THEN [conns EXCEPT ![PeerID[c]] = NoConn]
                      ELSE conns
    BY <1>4 DEF unregister, GoTo, controlVars
  <2> QED
    BY <2>1 DEF Serving
<1>5. ASSUME NEW c \in Conns, Step(c), ~AcceptAgent(c), ~unregister(c)
      PROVE  RegistryCoherent'
  <2>1. /\ conns' = conns /\ run' = run
        /\ \E s \in Stages : /\ stage' = [stage EXCEPT ![c] = s]
                             /\ stage[c] \in Serving <=> s \in Serving
    <3>1. CASE Dial(c) \/ Drop(c) \/ Accept(c) \/ RejectNonProbe(c) \/ CloseTaken(c)
      BY <3>1 DEF Dial, Drop, Accept, RejectNonProbe, CloseTaken, GoTo,
           Serving, Stages, controlVars, registryVars
    <3>2. CASE \/ AcceptProbe(c) \/ RefuseProbe(c)
               \/ AcceptLegacyProbe(c) \/ RefuseDuplicate(c)
      BY <3>2 DEF AcceptProbe, RefuseProbe, AcceptLegacyProbe,
           RefuseDuplicate, Receive, GoTo, Serving, Stages
    <3>3. CASE \/ CountConnection(c) \/ AnnounceAgent(c)
               \/ UncountConnection(c) \/ WithdrawAgent(c)
      BY <3>3 DEF CountConnection, AnnounceAgent, UncountConnection,
           WithdrawAgent, GoTo, Serving, Stages, controlVars, registryVars
    <3>4. CASE LeaveProbe(c) \/ LeaveLegacyProbe(c) \/ ReleaseSlot(c)
      BY <3>4 DEF LeaveProbe, LeaveLegacyProbe, ReleaseSlot, GoTo, Serving,
           Stages, controlVars, registryVars
    <3> QED
      BY <1>5, <3>1, <3>2, <3>3, <3>4 DEF Step
  <2> QED
    BY <2>1
<1> QED
  BY NextIsFlat, <1>1, <1>2, <1>3, <1>4, <1>5

(***************************************************************************)
(* Every entry of s.conns belongs to its agent and has a goroutine that    *)
(* will remove it, and while Run serves every served connection is its     *)
(* agent's registered one: two tunnels of one agent never coexist.         *)
(***************************************************************************)
THEOREM OneTunnelPerAgent == Spec => []RegistryCoherent
<1>1. Init => RegistryCoherent
  BY DEF Init, RegistryCoherent, Serving
<1> QED
  BY <1>1, RegistryStep, SlotsBalanced, PTL DEF Spec

(***************************************************************************)
(* The server's registry implements the abstract one: each step joins one  *)
(* agent, removes one, shuts the registry down, or leaves it alone.        *)
(***************************************************************************)
THEOREM RegistryImplemented == Spec => ImplementsRegistry
<1> DEFINE absvars == <<conns, IF run \in {"serving", "returning"}
                                 THEN "open" ELSE "shut">>
<1>1. Init => Reg!Init
  BY DEF Init, Reg!Init
<1>2. TypeOK /\ RegistryCoherent /\ [Next]_vars => [Reg!Next]_absvars
  <2> SUFFICES ASSUME TypeOK, RegistryCoherent, [Next]_vars
               PROVE  [Reg!Next]_absvars
    OBVIOUS
  <2> USE PeerAssumption, ConnsAssumption DEF TypeOK
  <2>1. CASE UNCHANGED vars
    BY <2>1 DEF vars, controlVars, registryVars
  <2>2. CASE Global
    <3>1. CASE TakeConnections
      BY <3>1 DEF TakeConnections, Reg!Next, Reg!Shutdown
    <3>2. CASE ~TakeConnections
      BY <2>2, <3>2 DEF Global, Signal, AcceptError, AcceptorDone, SeeCancel,
           ReceiveAcceptError, ReceiveListenerError, CancelRunCtx,
           CloseListener, WatchCancel, AtSelect, registryVars
    <3> QED
      BY <3>1, <3>2
  <2>3. ASSUME NEW c \in Conns, AcceptAgent(c) PROVE [Reg!Next]_absvars
    <3>1. Reg!Join(c)
      BY <2>3 DEF AcceptAgent, Receive, AtSelect, register, Reg!Join
    <3> QED
      BY <3>1 DEF Reg!Next
  <2>4. ASSUME NEW c \in Conns, unregister(c) PROVE [Reg!Next]_absvars
    <3>1. CASE conns[PeerID[c]] = c
      <4>1. Reg!Leave(PeerID[c])
        BY <2>4, <3>1 DEF unregister, Reg!Leave, controlVars
      <4> QED
        BY <4>1 DEF Reg!Next
    <3>2. CASE conns[PeerID[c]] # c
      BY <2>4, <3>2 DEF unregister, controlVars
    <3> QED
      BY <3>1, <3>2
  <2>5. ASSUME NEW c \in Conns, Step(c), ~AcceptAgent(c), ~unregister(c)
        PROVE  [Reg!Next]_absvars
    <3>1. conns' = conns /\ run' = run
      BY <2>5 DEF Step, Dial, Drop, Accept, RejectNonProbe, CloseTaken,
           AcceptProbe, RefuseProbe, AcceptLegacyProbe, RefuseDuplicate,
           Receive, CountConnection, AnnounceAgent, UncountConnection,
           WithdrawAgent, LeaveProbe, LeaveLegacyProbe, ReleaseSlot,
           controlVars, registryVars
    <3> QED
      BY <3>1
  <2> QED
    BY NextIsFlat, <2>1, <2>2, <2>3, <2>4, <2>5
<1> QED
  BY <1>1, <1>2, SlotsBalanced, OneTunnelPerAgent, PTL
     DEF Spec, ImplementsRegistry, Reg!Spec

(***************************************************************************)
(* A registered connection is never replaced, and it is removed only when  *)
(* it is dead or the server shuts down: no probe and no second connection  *)
(* of the agent evicts a live tunnel.                                      *)
(***************************************************************************)
THEOREM LiveTunnelStays == Spec => NoEviction
<1> DEFINE Kept ==
      \A a \in Agents :
        conns[a] # NoConn /\ conns'[a] # conns[a] =>
          /\ conns'[a] = NoConn
          /\ link[conns[a]] = "down" \/ Cancelled \/ run = "returning"
<1>1. TypeOK /\ [Next]_vars => [Kept]_vars
  <2> SUFFICES ASSUME TypeOK, Next PROVE Kept
    OBVIOUS
  <2> USE PeerAssumption, ConnsAssumption DEF TypeOK
  <2>1. CASE TakeConnections
    BY <2>1 DEF TakeConnections
  <2>2. CASE Global /\ ~TakeConnections
    <3>1. conns' = conns
      BY <2>2 DEF Global, Signal, AcceptError, AcceptorDone, SeeCancel,
           ReceiveAcceptError, ReceiveListenerError, CancelRunCtx,
           CloseListener, WatchCancel, registryVars
    <3> QED
      BY <3>1
  <2>3. ASSUME NEW c \in Conns, AcceptAgent(c) PROVE Kept
    BY <2>3 DEF AcceptAgent, register
  <2>4. ASSUME NEW c \in Conns, unregister(c) PROVE Kept
    <3>1. link[c] = "down" \/ Cancelled
      BY <2>4 DEF unregister
    <3>2. \A a \in Agents : conns'[a] # conns[a] => conns[a] = c /\ conns'[a] = NoConn
      BY <2>4 DEF unregister
    <3> QED
      BY <3>1, <3>2
  <2>5. ASSUME NEW c \in Conns, Step(c), ~AcceptAgent(c), ~unregister(c)
        PROVE  Kept
    <3>1. conns' = conns
      BY <2>5 DEF Step, Dial, Drop, Accept, RejectNonProbe, CloseTaken,
           AcceptProbe, RefuseProbe, AcceptLegacyProbe, RefuseDuplicate,
           CountConnection, AnnounceAgent, UncountConnection,
           WithdrawAgent, LeaveProbe, LeaveLegacyProbe, ReleaseSlot,
           registryVars
    <3> QED
      BY <3>1
  <2> QED
    BY NextIsFlat, <2>1, <2>2, <2>3, <2>4, <2>5
<1> QED
  BY <1>1, SlotsBalanced, PTL DEF Spec, NoEviction

-----------------------------------------------------------------------------
(* The status *)

(***************************************************************************)
(* SetAgentConnected(true) comes with a handler, and the handler leaves only *)
(* by SetAgentConnected(false).                                            *)
(***************************************************************************)
LEMMA StatusStep ==
    TypeOK /\ NoGhostAgents /\ [Next]_vars => NoGhostAgents'
<1> SUFFICES ASSUME TypeOK, NoGhostAgents, [Next]_vars PROVE NoGhostAgents'
  OBVIOUS
<1> DEFINE Announced == {"agent", "left", "uncounted"}
<1>1. CASE UNCHANGED vars
  BY <1>1 DEF vars, metricVars, NoGhostAgents
<1>2. CASE Global
  <2>1. connected' = connected
    BY <1>2 DEF Global, Signal, AcceptError, AcceptorDone, SeeCancel,
         ReceiveAcceptError, ReceiveListenerError, TakeConnections,
         CancelRunCtx, CloseListener, WatchCancel, metricVars
  <2>2. \A x \in Conns : stage[x] \in Announced => stage'[x] = stage[x]
    BY <1>2 DEF Global, Signal, AcceptError, AcceptorDone, SeeCancel,
         ReceiveAcceptError, ReceiveListenerError, TakeConnections,
         CancelRunCtx, CloseListener, WatchCancel
  <2> QED
    BY <2>1, <2>2 DEF NoGhostAgents
<1>3. ASSUME NEW c \in Conns, AnnounceAgent(c) PROVE NoGhostAgents'
  BY <1>3, PeerAssumption DEF AnnounceAgent, GoTo, TypeOK, NoGhostAgents
<1>4. ASSUME NEW c \in Conns, WithdrawAgent(c) PROVE NoGhostAgents'
  BY <1>4, PeerAssumption DEF WithdrawAgent, GoTo, TypeOK, NoGhostAgents
<1>5. ASSUME NEW c \in Conns, Step(c), ~AnnounceAgent(c), ~WithdrawAgent(c)
      PROVE  NoGhostAgents'
  <2>1. /\ connected' = connected
        /\ \E s \in Stages : /\ stage' = [stage EXCEPT ![c] = s]
                             /\ stage[c] \in Announced => s \in Announced
    <3>1. CASE Dial(c) \/ Drop(c) \/ Accept(c) \/ RejectNonProbe(c) \/ CloseTaken(c)
      BY <3>1 DEF Dial, Drop, Accept, RejectNonProbe, CloseTaken, GoTo,
           TypeOK, Stages, metricVars
    <3>2. CASE \/ AcceptProbe(c) \/ RefuseProbe(c) \/ AcceptAgent(c)
               \/ AcceptLegacyProbe(c) \/ RefuseDuplicate(c)
      BY <3>2 DEF AcceptProbe, RefuseProbe, AcceptAgent, AcceptLegacyProbe,
           RefuseDuplicate, Receive, GoTo, TypeOK, Stages, metricVars
    <3>3. CASE CountConnection(c) \/ unregister(c) \/ UncountConnection(c)
      BY <3>3 DEF CountConnection, unregister, UncountConnection, GoTo,
           TypeOK, Stages, metricVars
    <3>4. CASE LeaveProbe(c) \/ LeaveLegacyProbe(c) \/ ReleaseSlot(c)
      BY <3>4 DEF LeaveProbe, LeaveLegacyProbe, ReleaseSlot, GoTo, TypeOK,
           Stages, metricVars
    <3> QED
      BY <1>5, <3>1, <3>2, <3>3, <3>4 DEF Step
  <2> QED
    BY <2>1 DEF NoGhostAgents, TypeOK
<1> QED
  BY NextIsFlat, <1>1, <1>2, <1>3, <1>4, <1>5

(***************************************************************************)
(* The status never lists an agent none of whose handlers is running.      *)
(***************************************************************************)
THEOREM StatusHasNoGhosts == Spec => []NoGhostAgents
<1>1. Init => NoGhostAgents
  BY DEF Init, NoGhostAgents
<1> QED
  BY <1>1, StatusStep, SlotsBalanced, PTL DEF Spec

-----------------------------------------------------------------------------
(* What the server lets go of is closed *)

(***************************************************************************)
(* The strengthening.  closeConnections' slice is empty outside            *)
(* closeConnections, and once the registry has been emptied every          *)
(* connection still served is dead or in that slice: that is what makes it *)
(* safe for handleAgent to stop when Run cancels runCtx afterwards.        *)
(***************************************************************************)
CloseInv ==
    /\ run # "closing" => toClose = {}
    /\ ctx = "live" /\ run \notin {"serving", "returning"} =>
         \A c \in Conns :
           stage[c] \in Serving => link[c] = "down" \/ c \in toClose
    /\ NoAbandonedConnection

(***************************************************************************)
(* Every way out of a stage closes the connection, or finds it closed, or  *)
(* leaves it to closeConnections.                                          *)
(***************************************************************************)
LEMMA CloseStep ==
    TypeOK /\ RegistryCoherent /\ CloseInv /\ [Next]_vars => CloseInv'
<1> SUFFICES ASSUME TypeOK, RegistryCoherent, CloseInv, [Next]_vars
             PROVE  CloseInv'
  OBVIOUS
<1> USE DEF TypeOK, CloseInv, NoAbandonedConnection
<1>1. CASE UNCHANGED vars
  BY <1>1 DEF vars, controlVars, registryVars
<1>2. CASE TakeConnections
  <2>1. \A c \in Conns : stage[c] \in Serving => c \in toClose'
    BY <1>2, PeerAssumption, ConnsAssumption DEF TakeConnections,
         RegistryCoherent
  <2>2. /\ run = "returning" /\ run' = "closing" /\ toClose = {}
        /\ link' = link /\ stage' = stage /\ ctx' = ctx
    BY <1>2 DEF TakeConnections
  <2> QED
    BY <2>1, <2>2
<1>3. CASE AcceptorDone
  BY <1>3 DEF AcceptorDone, Serving, registryVars
<1>4. CASE Global /\ ~TakeConnections /\ ~AcceptorDone
  <2>1. /\ link' = link /\ stage' = stage /\ toClose' = toClose
        /\ ctx' = "live" => ctx = "live"
        /\ run' # "closing" => run # "closing" \/ toClose = {}
        /\ run' \notin {"serving", "returning"} =>
             run \notin {"serving", "returning"}
    BY <1>4 DEF Global, Signal, AcceptError, SeeCancel, ReceiveAcceptError,
         ReceiveListenerError, CancelRunCtx, CloseListener, WatchCancel,
         AtSelect, registryVars
  <2> QED
    BY <2>1
<1>5. ASSUME NEW c \in Conns, Step(c) PROVE CloseInv'
  <2>1. CASE Dial(c)
    BY <2>1 DEF Dial, GoTo, Serving, controlVars, registryVars
  <2>2. CASE Drop(c) \/ Accept(c) \/ RejectNonProbe(c)
    BY <2>2 DEF Drop, Accept, RejectNonProbe, CloseWithError, GoTo, Serving,
         controlVars, registryVars
  <2>3. CASE CloseTaken(c)
    BY <2>3 DEF CloseTaken, CloseWithError, controlVars
  <2>4. CASE AcceptProbe(c) \/ AcceptAgent(c) \/ AcceptLegacyProbe(c)
    <3>1. /\ run = "serving" /\ run' = run /\ ctx' = ctx
          /\ link' = link /\ toClose' = toClose
          /\ \E s \in {"probe", "registered", "legacy"} :
               stage' = [stage EXCEPT ![c] = s]
      BY <2>4 DEF AcceptProbe, AcceptAgent, AcceptLegacyProbe, Receive,
           AtSelect, GoTo
    <3> QED
      BY <3>1
  <2>5. CASE RefuseProbe(c) \/ RefuseDuplicate(c)
    BY <2>5 DEF RefuseProbe, RefuseDuplicate, Receive, CloseWithError, GoTo,
         Serving
  <2>6. CASE CountConnection(c) \/ AnnounceAgent(c)
    BY <2>6 DEF CountConnection, AnnounceAgent, GoTo, Serving, controlVars,
         registryVars
  <2>7. CASE unregister(c)
    <3>1. /\ stage[c] = "agent" /\ stage' = [stage EXCEPT ![c] = "left"]
          /\ link[c] = "down" \/ Cancelled
          /\ link' = link /\ run' = run /\ ctx' = ctx /\ toClose' = toClose
      BY <2>7 DEF unregister, GoTo, controlVars
    <3>2. ctx = "live" => link[c] = "down"
      BY <3>1 DEF Cancelled, Serving
    <3> QED
      BY <3>1, <3>2 DEF Serving
  <2>8. CASE UncountConnection(c) \/ WithdrawAgent(c)
    BY <2>8 DEF UncountConnection, WithdrawAgent, GoTo, Serving, controlVars,
         registryVars
  <2>9. CASE LeaveProbe(c) \/ LeaveLegacyProbe(c) \/ ReleaseSlot(c)
    BY <2>9 DEF LeaveProbe, LeaveLegacyProbe, ReleaseSlot, CloseWithError,
         GoTo, Serving, controlVars, registryVars
  <2> QED
    BY <1>5, <2>1, <2>2, <2>3, <2>4, <2>5, <2>6, <2>7, <2>8, <2>9 DEF Step
<1> QED
  BY NextIsFlat, <1>1, <1>2, <1>3, <1>4, <1>5

(***************************************************************************)
(* As long as the process is not signalled, every connection the server    *)
(* has let go of is closed, the failure of a listener included.            *)
(***************************************************************************)
THEOREM NothingAbandoned == Spec => []NoAbandonedConnection
<1>1. Init => CloseInv
  BY DEF Init, CloseInv, NoAbandonedConnection, Serving
<1>2. CloseInv => NoAbandonedConnection
  BY DEF CloseInv
<1> QED
  BY <1>1, <1>2, CloseStep, SlotsBalanced, OneTunnelPerAgent, PTL DEF Spec
=============================================================================
