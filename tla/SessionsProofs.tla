--------------------------- MODULE SessionsProofs ---------------------------
(***************************************************************************)
(* Proofs about module Sessions, for every number of connections, probe    *)
(* slots and faults: what is proved of the server and of the agent alone   *)
(* holds of the two together, across restarts and crashes of either, and   *)
(* their tunnel is disturbed by nothing but a fault.                       *)
(***************************************************************************)
EXTENDS Sessions, TLAPS

(* The results of ServerProofs and AgentProofs, for the two processes. The *)
(* frame around the agent is not part of Sessions: it stands still, and no *)
(* result about it is used.                                                *)
SP == INSTANCE ServerProofs
        WITH link <- slink, ctx <- sctx,
             Agents <- {AgentID},
             PeerID <- [c \in Conns |-> AgentID],
             ServerName <- [c \in Conns |-> "exit"]

AP == INSTANCE AgentProofs
        WITH link <- alink, ctx <- actx,
             ReconnectDelay <- 1, MaxReconnectDelay <- 1,
             proc <- "selecting", signalled <- FALSE, fn <- "running",
             http <- "off", errCh <- << >>, result <- "none"

-----------------------------------------------------------------------------
(* Every step of the system is one of a process, or a process starts *)

(***************************************************************************)
(* A step of the system is, for the server, a step of module Server or the *)
(* start of a new process.                                                 *)
(***************************************************************************)
LEMMA ServerStep == [Next]_vars => [S!Next]_serverVars \/ FreshServer
BY DEF Next, vars, Connect, ServerSeesEnd, AgentSeesEnd, Handler, DialRefused,
   ProbeDone, Acceptor, RunServer, Watcher, Maintain, Main, RestartServer,
   RestartAgent, FreshAgent, Fault, ServerFault, AgentFault, ProbeFallback,
   OfServer, OfAgent, S!Next, S!Environment, S!Acceptor

(***************************************************************************)
(* And the same for the agent.                                             *)
(***************************************************************************)
LEMMA AgentStep == [Next]_vars => [A!Next]_agentVars \/ FreshAgent
BY DEF Next, vars, Connect, ServerSeesEnd, AgentSeesEnd, Handler, DialRefused,
   ProbeDone, Acceptor, RunServer, Watcher, Maintain, Main, RestartServer,
   RestartAgent, FreshServer, Fault, ServerFault, AgentFault, ProbeFallback,
   OfServer, OfAgent, A!Next, A!Maintain
(***************************************************************************)
(* The Server of module Sessions is the one whose results SP holds.        *)
(***************************************************************************)
LEMMA ServerIsSP == [S!Next]_serverVars => [SP!Next]_SP!vars
<1> USE DEF S!CloseWithError, SP!CloseWithError, S!GoTo, SP!GoTo, S!controlVars,
       SP!controlVars, S!registryVars, SP!registryVars, S!metricVars,
       SP!metricVars, S!Cancelled, SP!Cancelled
<1>1. S!Environment \/ S!Acceptor => SP!Environment \/ SP!Acceptor
  BY DEF S!Environment, SP!Environment, S!Signal, SP!Signal, S!Dial, SP!Dial,
       S!Drop, SP!Drop, S!Acceptor, SP!Acceptor, S!AcceptError,
       SP!AcceptError, S!AcceptorDone, SP!AcceptorDone, S!Accept,
       SP!Accept
<1>2. S!Loop \/ S!ReceiveListenerError => SP!Loop \/ SP!ReceiveListenerError
  BY DEF S!Loop, SP!Loop, S!AtSelect, SP!AtSelect, S!At, SP!At, S!Receive,
       SP!Receive, S!register, SP!register, S!TakeSlot, SP!TakeSlot,
       S!NoSlot, SP!NoSlot, S!SeeCancel, SP!SeeCancel,
       S!ReceiveAcceptError, SP!ReceiveAcceptError,
       S!ReceiveListenerError, SP!ReceiveListenerError, S!AcceptProbe,
       SP!AcceptProbe, S!RefuseProbe, SP!RefuseProbe, S!AcceptAgent,
       SP!AcceptAgent, S!AcceptLegacyProbe, SP!AcceptLegacyProbe,
       S!RefuseDuplicate, SP!RefuseDuplicate, S!CountConnection,
       SP!CountConnection, S!AnnounceAgent, SP!AnnounceAgent
<1>3. S!Defers \/ S!WatchCancel => SP!Defers \/ SP!WatchCancel
  BY DEF S!Defers, SP!Defers, S!TakeConnections, SP!TakeConnections,
       S!CloseTaken, SP!CloseTaken, S!CancelRunCtx, SP!CancelRunCtx,
       S!CloseListener, SP!CloseListener, S!WatchCancel,
       SP!WatchCancel
<1>4. ASSUME NEW c \in Conns
      PROVE  S!Handler(c) \/ S!RejectNonProbe(c) =>
               SP!Handler(c) \/ SP!RejectNonProbe(c)
  BY DEF S!Handler, SP!Handler, S!unregister, SP!unregister,
       S!UncountConnection, SP!UncountConnection, S!WithdrawAgent,
       SP!WithdrawAgent, S!LeaveProbe, SP!LeaveProbe,
       S!RejectNonProbe, SP!RejectNonProbe, S!LeaveLegacyProbe,
       SP!LeaveLegacyProbe, S!ReleaseSlot, SP!ReleaseSlot
<1>5. UNCHANGED serverVars => UNCHANGED SP!vars
  BY DEF serverVars, SP!vars
<1> QED
  BY <1>1, <1>2, <1>3, <1>4, <1>5 DEF S!Next, SP!Next

(***************************************************************************)
(* Its agent is the one whose results AP holds.                            *)
(***************************************************************************)
LEMMA AgentIsAP == [A!Next]_agentVars => [AP!Next]_AP!vars
BY DEF A!Next, AP!Next, A!Maintain, AP!Maintain, A!Main, AP!Main, A!Signal,
       AP!Signal, A!Lose, AP!Lose, A!DialOK, AP!DialOK, A!DialFail,
       AP!DialFail, A!setConn, AP!setConn, A!Announce, AP!Announce,
       A!clearConn, AP!clearConn, A!Withdraw, AP!Withdraw, A!Retry,
       AP!Retry, A!GiveUp, AP!GiveUp, A!TakeConn, AP!TakeConn,
       A!CloseTaken, AP!CloseTaken, A!nextReconnectDelay,
       AP!nextReconnectDelay, A!DelayLimit, AP!DelayLimit, A!mainVars,
       AP!mainVars, A!maintainVars, AP!maintainVars, agentVars,
       AP!vars

-----------------------------------------------------------------------------
(* The invariants of the processes survive their restarts *)

(***************************************************************************)
(* What modules Server and Agent assume of their constants.                *)
(***************************************************************************)
LEMMA ProcessAssumptions ==
    /\ SP!IsFiniteSet(Conns) /\ NoConn \notin Conns
    /\ [c \in Conns |-> AgentID] \in [Conns -> {AgentID}]
    /\ [c \in Conns |-> "exit"] \in [Conns -> {"exit", "probe"}]
    /\ MaxPendingDials \in Nat \ {0}
    /\ 1 \in Nat \ {0}
BY SessionsAssumption DEF IsFiniteSet, SP!IsFiniteSet

ServerInv ==
    /\ SP!TypeInv /\ SP!GaugeBalanced /\ SP!RegistryCoherent
    /\ SP!NoGhostAgents /\ SP!CloseInv

AgentInv == AP!DelayInv /\ AP!ConnInv

FaultsCounted == faults \in Nat

(***************************************************************************)
(* A server process that starts satisfies the invariant.                   *)
(***************************************************************************)
LEMMA ServerInit == SP!Init => ServerInv
<1> SUFFICES ASSUME SP!Init PROVE ServerInv
  OBVIOUS
<1>1. SP!TypeInv
  BY SP!TypeInit, ProcessAssumptions
<1>2. SP!GaugeBalanced
  <2>1. SP!At(SP!Counted) = {}
    BY DEF SP!Init, SP!At, SP!Counted
  <2> QED
    BY <2>1, SP!FS_EmptySet, ProcessAssumptions DEF SP!Init, SP!GaugeBalanced
<1>3. SP!RegistryCoherent /\ SP!NoGhostAgents /\ SP!CloseInv
  BY DEF SP!Init, SP!RegistryCoherent, SP!NoGhostAgents, SP!CloseInv,
         SP!NoAbandonedConnection, SP!Serving
<1> QED
  BY <1>1, <1>2, <1>3 DEF ServerInv

(***************************************************************************)
(* So does an agent process.                                               *)
(***************************************************************************)
LEMMA AgentInit == AP!Init => AgentInv
BY ProcessAssumptions
   DEF AP!Init, AgentInv, AP!DelayInv, AP!ConnInv, AP!TypeOK, AP!DelayBounded,
       AP!DelayLimit, AP!Optional, AP!ConnIsCurrent, AP!OneConnection, AP!Using

(***************************************************************************)
(* Steps of the server process keep its invariant.                         *)
(***************************************************************************)
LEMMA ServerInvStep ==
    ASSUME ServerInv, [SP!Next]_SP!vars PROVE ServerInv'
<1>1. /\ SP!TypeInv /\ SP!TypeOK /\ SP!GaugeBalanced /\ SP!GaugeInv
      /\ SP!RegistryCoherent /\ SP!NoGhostAgents /\ SP!CloseInv
  BY DEF ServerInv, SP!TypeInv, SP!GaugeInv
<1>2. SP!TypeInv'
  BY <1>1, SP!TypeStep, ProcessAssumptions
<1>3. SP!GaugeBalanced'
  BY <1>1, SP!GaugeStep, ProcessAssumptions
<1>4. SP!RegistryCoherent'
  BY <1>1, SP!RegistryStep, ProcessAssumptions
<1>5. SP!NoGhostAgents'
  BY <1>1, SP!StatusStep, ProcessAssumptions
<1>6. SP!CloseInv'
  BY <1>1, SP!CloseStep, ProcessAssumptions
<1> QED
  BY <1>2, <1>3, <1>4, <1>5, <1>6 DEF ServerInv

(***************************************************************************)
(* Steps of the agent process keep its invariant.                          *)
(***************************************************************************)
LEMMA AgentInvStep ==
    ASSUME AgentInv, [AP!Next]_AP!vars PROVE AgentInv'
<1>1. AP!DelayInv'
  BY AP!DelayStep, ProcessAssumptions DEF AgentInv
<1>2. AP!TypeOK'
  BY <1>1 DEF AP!DelayInv
<1>3. AP!ConnInv'
  BY <1>2, AP!ConnStep, ProcessAssumptions DEF AgentInv
<1> QED
  BY <1>1, <1>3 DEF AgentInv

(***************************************************************************)
(* A process that is started again is in its initial state.                *)
(***************************************************************************)
LEMMA FreshIsInit ==
    (FreshServer => SP!Init') /\ (FreshAgent => AP!Init')
BY DEF FreshServer, SP!Init, FreshAgent, AP!Init

(***************************************************************************)
(* Both invariants hold of every behaviour of the two together, and the    *)
(* faults are counted.                                                     *)
(***************************************************************************)
LEMMA InvAlways == Spec => [](ServerInv /\ AgentInv /\ FaultsCounted)
<1>1. Init => SP!Init /\ AP!Init
  BY DEF Init, S!Init, SP!Init, A!Init, AP!Init
<1>2. [Next]_vars => [SP!Next]_SP!vars \/ SP!Init'
  BY ServerStep, ServerIsSP, FreshIsInit
<1>3. [Next]_vars => [AP!Next]_AP!vars \/ AP!Init'
  BY AgentStep, AgentIsAP, FreshIsInit
<1>4. ServerInv /\ [SP!Next]_SP!vars => ServerInv'
  BY ServerInvStep
<1>5. AgentInv /\ [AP!Next]_AP!vars => AgentInv'
  BY AgentInvStep
<1>6. Init => FaultsCounted
  BY DEF Init, FaultsCounted
<1>7. FaultsCounted /\ [Next]_vars => FaultsCounted'
  <2>1. [Next]_vars => Fault \/ UNCHANGED faults
    BY DEF Next, vars, envVars, Connect, ServerSeesEnd, AgentSeesEnd, Handler,
       DialRefused, ProbeDone, Acceptor, RunServer, Watcher, Maintain, Main,
       RestartServer, RestartAgent, OfServer, OfAgent
  <2> QED
    BY <2>1 DEF Fault, FaultsCounted
<1> QED
  BY <1>1, <1>2, <1>3, <1>4, <1>5, <1>6, <1>7, ServerInit, AgentInit, PTL DEF Spec

(***************************************************************************)
(* What ServerProofs shows of one server process holds of the server side  *)
(* of the system, whatever crashes, signals and restarts of either side    *)
(* come in between: slots and gauge balance, the registry and the status   *)
(* agree with the handlers.                                                *)
(***************************************************************************)
THEOREM ServerHoldsAcrossRestarts ==
    Spec => [](/\ S!ProbeSlots /\ S!GaugeBalanced
               /\ S!RegistryCoherent /\ S!NoGhostAgents)
<1>1. ServerInv => S!ProbeSlots
  BY DEF ServerInv, SP!TypeInv, SP!ProbeSlots, S!ProbeSlots, SP!Cardinality,
         S!Cardinality, SP!At, S!At, SP!SlotHeld, S!SlotHeld
<1>2. ServerInv => S!GaugeBalanced
  BY DEF ServerInv, SP!GaugeBalanced, S!GaugeBalanced, SP!Cardinality,
         S!Cardinality, SP!At, S!At, SP!Counted, S!Counted
<1>3. ServerInv => S!RegistryCoherent /\ S!NoGhostAgents
  BY DEF ServerInv, SP!RegistryCoherent, S!RegistryCoherent, SP!NoGhostAgents,
         S!NoGhostAgents, SP!Serving, S!Serving
<1> QED
  BY <1>1, <1>2, <1>3, InvAlways, PTL

(***************************************************************************)
(* A fault shows in the count.                                             *)
(***************************************************************************)
LEMMA FaultIsCounted == ASSUME FaultsCounted, Fault PROVE faults' # faults
BY DEF Fault, FaultsCounted

-----------------------------------------------------------------------------
(* A connection that is turned away *)

(* The loop turns away the connection the running agent relies on. *)
TurnedAway(c) ==
    /\ c = cur /\ actx = "live" /\ ~S!Cancelled
    /\ stage[c] = "held" /\ stage'[c] \in {"legacy", "idle"}
    /\ faults' = faults

(***************************************************************************)
(* Only the two branches of the loop after a failed register do that: the  *)
(* acceptor closes what it holds when the server is stopping, and a new    *)
(* server process starts after one that stopped, or after a fault.         *)
(***************************************************************************)
LEMMA TurnedAwayByLoop ==
    ASSUME ServerInv, FaultsCounted, Next, NEW c \in Conns, TurnedAway(c)
    PROVE  (\E d \in Conns : S!AcceptLegacyProbe(d) \/ S!RefuseDuplicate(d))
             /\ conns[AgentID] # NoConn
<1> USE DEF TurnedAway, S!GoTo, S!CloseWithError
<1>1. stage \in [Conns -> SP!Stages]
  BY DEF ServerInv, SP!TypeInv, SP!TypeOK
<1>2. ~UNCHANGED stage
  OBVIOUS
<1>3. \A d \in Conns : ~Connect(d) /\ ~ServerSeesEnd(d) /\ ~AgentSeesEnd(d)
  BY <1>1, <1>2 DEF Connect, S!Dial, ServerSeesEnd, S!Drop, AgentSeesEnd, serverVars
<1>4. \A d \in Conns : ~Handler(d)
  BY <1>1 DEF Handler, OfServer, S!Handler, S!unregister, S!UncountConnection,
       S!WithdrawAgent, S!LeaveProbe, S!LeaveLegacyProbe, S!ReleaseSlot
<1>5. ~DialRefused /\ ~ProbeDone /\ ~Maintain /\ ~Main /\ ~RestartAgent
  BY <1>2 DEF DialRefused, ProbeDone, Maintain, Main, RestartAgent, FreshAgent,
       OfAgent, serverVars
<1>6. ~Acceptor /\ ~Watcher /\ ~RestartServer
  BY <1>1 DEF Acceptor, Watcher, RestartServer, OfServer, S!Accept,
       S!AcceptorDone, S!WatchCancel, S!Cancelled
<1>7. ~Fault
  BY FaultIsCounted
<1>8. RunServer
  BY <1>3, <1>4, <1>5, <1>6, <1>7 DEF Next
<1>9. ~S!Defers
  BY <1>2 DEF S!Defers, S!TakeConnections, S!CloseTaken, S!CancelRunCtx, S!CloseListener
<1> QED
  BY <1>1, <1>8, <1>9 DEF RunServer, OfServer, S!Loop, S!Receive, S!AcceptProbe,
       S!RefuseProbe, S!AcceptAgent, S!AcceptLegacyProbe, S!RefuseDuplicate,
       S!CountConnection, S!AnnounceAgent, S!SeeCancel, S!ReceiveAcceptError

(***************************************************************************)
(* Whenever the server turns away the connection a running agent relies    *)
(* on, what it is registered with is a leftover: not open on the agent's   *)
(* side, and about to be removed by a handler that still runs.             *)
(***************************************************************************)
THEOREM OnlyLeftoversTurnAway == Spec => TurnedAwayByLeftover
<1> DEFINE Leftover(c) ==
      LET o == conns[AgentID]
      IN  o \in Conns \ {c} /\ alink[o] = "down" /\ stage[o] \in S!Serving
    Explained == \A c \in Conns : TurnedAway(c) => Leftover(c)
<1>1. ServerInv /\ AgentInv /\ FaultsCounted /\ [Next]_vars => [Explained]_vars
  <2> SUFFICES ASSUME ServerInv, AgentInv, FaultsCounted, Next,
                      NEW c \in Conns, TurnedAway(c)
               PROVE  Leftover(c)
    OBVIOUS
  <2>1. conns[AgentID] # NoConn
    BY TurnedAwayByLoop
  <2>2. conns[AgentID] \in Conns
    BY <2>1 DEF ServerInv, SP!TypeInv, SP!TypeOK
  <2>3. stage[conns[AgentID]] \in S!Serving
    BY <2>1 DEF ServerInv, SP!RegistryCoherent, SP!Serving, S!Serving
  <2>4. conns[AgentID] # c
    BY <2>3 DEF TurnedAway, S!Serving
  <2>5. alink[conns[AgentID]] = "down"
    BY <2>2, <2>4 DEF TurnedAway, AgentInv, AP!ConnInv, AP!OneConnection, AP!TypeOK
  <2> QED
    BY <2>2, <2>3, <2>4, <2>5
<1>2. [Explained]_vars =>
        [\A c \in Conns :
           /\ c = cur /\ actx = "live" /\ ~S!Cancelled
           /\ stage[c] = "held" /\ stage'[c] \in {"legacy", "idle"}
           /\ faults' = faults
           => LET o == conns[AgentID]
              IN  o \in Conns \ {c} /\ alink[o] = "down"
                    /\ stage[o] \in S!Serving]_vars
  BY DEF TurnedAway
<1> QED
  BY <1>1, <1>2, InvAlways, PTL DEF Spec, TurnedAwayByLeftover

-----------------------------------------------------------------------------
(* A tunnel that is up *)

(* The condition under which TunnelUndisturbed protects the tunnel. *)
Protected ==
    Tunnelled /\ actx = "live" /\ sctx = "live" /\ run = "serving"

(***************************************************************************)
(* The types of the variables that make up the tunnel, and that a running  *)
(* agent's closeConn has not been called.                                  *)
(***************************************************************************)
LEMMA ProtectedState ==
    ASSUME ServerInv, AgentInv, Protected
    PROVE  /\ conn \in Conns /\ cur = conn /\ main = "serving"
           /\ slink \in [Conns -> {"up", "down"}]
           /\ alink \in [Conns -> {"up", "down"}]
           /\ stage \in [Conns -> SP!Stages]
           /\ conns \in [{AgentID} -> Conns \cup {NoConn}]
BY DEF ServerInv, AgentInv, SP!TypeInv, SP!TypeOK, AP!ConnInv, AP!TypeOK,
   AP!Optional, AP!ConnIsCurrent, Protected, Tunnelled

(***************************************************************************)
(* The server's own steps keep the tunnel: its handler leaves only when    *)
(* the connection is dead or the server is stopping, and a probe or a      *)
(* second connection under the agent's name is refused.                    *)
(***************************************************************************)
LEMMA ServerKeepsTunnel ==
    ASSUME ServerInv, AgentInv, Protected, UNCHANGED agentVars,
           \/ S!Loop \/ S!Defers \/ S!WatchCancel \/ S!AcceptorDone
           \/ S!AcceptError
           \/ \E c \in Conns :
                \/ S!Accept(c) \/ S!Handler(c) \/ S!Dial(c)
                \/ alink[c] = "down" /\ S!Drop(c)
    PROVE  Tunnelled'
<1> USE ProtectedState, SessionsAssumption
    DEF Protected, Tunnelled, agentVars, S!Cancelled
<1>1. CASE S!Loop
  BY <1>1 DEF S!Loop, S!SeeCancel, S!ReceiveAcceptError, S!Receive, S!AtSelect,
       S!AcceptProbe, S!RefuseProbe, S!AcceptAgent, S!register,
       S!AcceptLegacyProbe, S!RefuseDuplicate, S!CountConnection,
       S!AnnounceAgent, S!CloseWithError, S!GoTo, S!registryVars
<1>2. CASE S!Defers \/ S!WatchCancel \/ S!AcceptorDone \/ S!AcceptError
  BY <1>2 DEF S!Defers, S!TakeConnections, S!CloseTaken, S!CancelRunCtx,
       S!CloseListener, S!WatchCancel, S!AcceptorDone, S!AcceptError,
       S!registryVars
<1>3. ASSUME NEW c \in Conns, S!Handler(c) PROVE Tunnelled'
  BY <1>3 DEF S!Handler, S!unregister, S!UncountConnection, S!WithdrawAgent,
       S!LeaveProbe, S!LeaveLegacyProbe, S!ReleaseSlot, S!CloseWithError,
       S!GoTo, S!registryVars
<1>4. ASSUME NEW c \in Conns, S!Accept(c) \/ S!Dial(c) PROVE Tunnelled'
  BY <1>4 DEF S!Accept, S!Dial, S!GoTo, S!registryVars
<1>5. ASSUME NEW c \in Conns, alink[c] = "down", S!Drop(c) PROVE Tunnelled'
  BY <1>5 DEF S!Drop, S!registryVars
<1> QED
  BY <1>1, <1>2, <1>3, <1>4, <1>5

(***************************************************************************)
(* The agent's own steps keep it: maintainConnection leaves acceptReverse  *)
(* only when the connection is dead or the agent is stopping.              *)
(***************************************************************************)
LEMMA AgentKeepsTunnel ==
    ASSUME ServerInv, AgentInv, Protected, UNCHANGED serverVars,
           \/ A!setConn \/ A!Announce \/ A!clearConn \/ A!Withdraw
           \/ A!Retry \/ A!GiveUp \/ A!DialFail \/ A!Main
           \/ \E c \in Conns : slink[c] = "down" /\ A!Lose(c)
    PROVE  Tunnelled'
<1> USE ProtectedState, SessionsAssumption DEF Protected, Tunnelled, serverVars
<1>1. CASE \/ A!setConn \/ A!Announce \/ A!clearConn \/ A!Withdraw
           \/ A!Retry \/ A!GiveUp \/ A!DialFail \/ A!Main
  BY <1>1 DEF A!setConn, A!Announce, A!clearConn, A!Withdraw, A!Retry,
       A!GiveUp, A!DialFail, A!Main, A!TakeConn, A!CloseTaken
<1>2. ASSUME NEW c \in Conns, slink[c] = "down", A!Lose(c) PROVE Tunnelled'
  BY <1>2 DEF A!Lose, A!maintainVars
<1> QED
  BY <1>1, <1>2

(***************************************************************************)
(* A tunnel that is up is taken down by a fault only, or when one of the   *)
(* processes was told to stop: not by a probe under the agent's name, not  *)
(* by a reconnect, and by no interleaving of the handlers.                 *)
(***************************************************************************)
THEOREM TunnelStaysUp == Spec => TunnelUndisturbed
<1> DEFINE Kept == Protected => Tunnelled' \/ faults' # faults
<1>1. ServerInv /\ AgentInv /\ FaultsCounted /\ [Next]_vars => [Kept]_vars
  <2> SUFFICES ASSUME ServerInv, AgentInv, FaultsCounted, Next, Protected
               PROVE  Tunnelled' \/ faults' # faults
    OBVIOUS
  <2>1. ASSUME NEW c \in Conns,
               Connect(c) \/ ServerSeesEnd(c) \/ AgentSeesEnd(c) \/ Handler(c)
        PROVE  Tunnelled'
    <3>1. ~Connect(c)
      BY DEF Connect, A!DialOK, Protected, Tunnelled
    <3> QED
      BY <2>1, <3>1, ServerKeepsTunnel, AgentKeepsTunnel
         DEF ServerSeesEnd, AgentSeesEnd, Handler, OfServer
  <2>2. CASE DialRefused \/ Maintain \/ Main
    BY <2>2, AgentKeepsTunnel DEF DialRefused, Maintain, Main, OfAgent
  <2>3. CASE ProbeDone
    BY <2>3 DEF ProbeDone, Protected, Tunnelled, serverVars, agentVars
  <2>4. CASE Acceptor \/ RunServer \/ Watcher
    BY <2>4, ServerKeepsTunnel DEF Acceptor, RunServer, Watcher, OfServer
  <2>5. ~RestartServer /\ ~RestartAgent
    BY ProtectedState DEF RestartServer, RestartAgent, Protected
  <2>6. CASE Fault
    BY <2>6, FaultIsCounted
  <2> QED
    BY <2>1, <2>2, <2>3, <2>4, <2>5, <2>6 DEF Next
<1>2. [Kept]_vars =>
        [Tunnelled /\ actx = "live" /\ sctx = "live" /\ run = "serving"
           => Tunnelled' \/ faults' # faults]_vars
  BY DEF Protected
<1> QED
  BY <1>1, <1>2, InvAlways, PTL DEF Spec, TunnelUndisturbed

=============================================================================
