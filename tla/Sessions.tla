------------------------------ MODULE Sessions ------------------------------
(***************************************************************************)
(* One agent process and the server, composed over QUIC.  Each side has    *)
(* its own view of a connection: an end that closes or vanishes is noticed *)
(* by the other later, when the CONNECTION_CLOSE arrives or the idle       *)
(* timeout expires (ServerSeesEnd, AgentSeesEnd), and in between the       *)
(* server may hold a stale registration while the agent redials.           *)
(*                                                                         *)
(* A probe command that could not use its own server name dials under the  *)
(* agent's (runProbe), and the server cannot tell it from the agent.       *)
(*                                                                         *)
(* Faults are bounded by MaxFaults: a connection lost by one side only, a  *)
(* failed dial, a broken listener, a signal, a crash of either process, or *)
(* a probe that falls back.                                                *)
(***************************************************************************)
EXTENDS Integers, FiniteSets

CONSTANTS
    AgentID,             \* the agent
    Conns, NoConn,
    MaxPendingDials,
    MaxFaults            \* bound on the number of faults

ASSUME SessionsAssumption ==
    IsFiniteSet(Conns) /\ NoConn \notin Conns /\ MaxPendingDials \in Nat \ {0}
ASSUME FaultAssumption == MaxFaults \in Nat

VARIABLES
    (* the server process *)
    slink, stage, acceptor, run, sctx, listener, toClose, conns, probes,
    quicConnections, connected,
    (* the agent process *)
    alink, actx, main, taken, pc, cur, conn, reconnectDelay, status,
    (* the environment *)
    prober,    \* the connection of a probe command that fell back, or NoConn
    faults

serverVars == <<slink, stage, acceptor, run, sctx, listener, toClose, conns,
                probes, quicConnections, connected>>
agentVars  == <<alink, actx, main, taken, pc, cur, conn, reconnectDelay, status>>
envVars == <<prober, faults>>
vars == <<serverVars, agentVars, envVars>>

S == INSTANCE Server
       WITH link <- slink, ctx <- sctx,
            Agents <- {AgentID},
            PeerID <- [c \in Conns |-> AgentID],
            ServerName <- [c \in Conns |-> "exit"]

(* The delays play no role here: one unit each. *)
A == INSTANCE Agent
       WITH link <- alink, ctx <- actx,
            ReconnectDelay <- 1, MaxReconnectDelay <- 1

TypeOK ==
    /\ S!TypeOK /\ A!TypeOK
    /\ prober \in Conns \cup {NoConn}
    /\ faults \in 0..MaxFaults

Init == S!Init /\ A!Init /\ prober = NoConn /\ faults = 0

-----------------------------------------------------------------------------
(* The network *)

(* A handshake completes: dial returns, and the listener queues it. *)
Connect(c) ==
    /\ c # prober
    /\ A!DialOK(c) /\ S!Dial(c)
    /\ UNCHANGED envVars

(* Nothing listens, or the agent is stopping. *)
DialRefused ==
    /\ listener = "closed" \/ actx = "done"
    /\ A!DialFail
    /\ UNCHANGED <<serverVars, envVars>>

(* The other side's end reaches this side, or its idle timeout expires. *)
ServerSeesEnd(c) ==
    /\ alink[c] = "down" /\ c # prober
    /\ S!Drop(c)
    /\ UNCHANGED <<agentVars, envVars>>

AgentSeesEnd(c) ==
    /\ slink[c] = "down"
    /\ A!Lose(c)
    /\ UNCHANGED <<serverVars, envVars>>

(* runProbe dials under ExitServerNameForClient: a peer like the agent. *)
ProbeFallback(c) ==
    /\ prober = NoConn
    /\ alink[c] = "down" /\ c # cur /\ c # taken
    /\ S!Dial(c)
    /\ prober' = c
    /\ UNCHANGED agentVars

(* runProbe has its answer, or its deadline expired: it closes. *)
ProbeDone ==
    /\ prober # NoConn
    /\ prober' = NoConn
    /\ UNCHANGED <<serverVars, agentVars, faults>>

-----------------------------------------------------------------------------
(* The two processes *)

OfServer(step) == step /\ UNCHANGED <<agentVars, envVars>>
OfAgent(step)  == step /\ UNCHANGED <<serverVars, envVars>>

Acceptor == OfServer(\/ \E c \in Conns : S!Accept(c)
                     \/ S!Cancelled /\ S!AcceptError
                     \/ S!AcceptorDone)
RunServer == OfServer(S!Loop \/ S!Defers)
Watcher  == OfServer(S!WatchCancel)
Handler(c) == OfServer(S!Handler(c))

Maintain == OfAgent(\/ A!setConn \/ A!Announce \/ A!clearConn \/ A!Withdraw
                    \/ A!Retry \/ A!GiveUp)
Main     == OfAgent(A!Main)

(* A process that starts has none of the connections of the one before. *)
FreshServer ==
    /\ slink' = [c \in Conns |-> "down"]
    /\ stage' = [c \in Conns |-> "idle"]
    /\ acceptor' = "accepting" /\ run' = "serving"
    /\ sctx' = "live" /\ listener' = "open"
    /\ toClose' = {} /\ conns' = [a \in {AgentID} |-> NoConn]
    /\ probes' = 0 /\ quicConnections' = 0 /\ connected' = {}
    /\ UNCHANGED agentVars

FreshAgent ==
    /\ alink' = [c \in Conns |-> "down"]
    /\ actx' = "live" /\ main' = "serving" /\ taken' = NoConn
    /\ pc' = "dialing" /\ cur' = NoConn /\ conn' = NoConn
    /\ reconnectDelay' = 1 /\ status' = "disconnected"
    /\ UNCHANGED serverVars

(* Run has returned, the process ends and another one is started. *)
RestartServer == run = "stopped" /\ FreshServer /\ UNCHANGED envVars
RestartAgent  == main = "returned" /\ FreshAgent /\ UNCHANGED envVars

-----------------------------------------------------------------------------
(* Faults *)

(* What befalls one of the two processes or its side of a connection. *)
ServerFault ==
    \/ (\E c \in Conns : S!Drop(c)) /\ UNCHANGED agentVars
    \/ (S!Signal \/ S!AcceptError \/ S!ReceiveListenerError)
         /\ UNCHANGED agentVars
    \/ FreshServer

AgentFault ==
    \/ (\E c \in Conns : A!Lose(c)) /\ UNCHANGED serverVars
    \/ (A!DialFail \/ A!Signal) /\ UNCHANGED serverVars
    \/ FreshAgent

Fault ==
    /\ faults < MaxFaults
    /\ faults' = faults + 1
    /\ \/ (ServerFault \/ AgentFault) /\ UNCHANGED prober
       \/ \E c \in Conns : ProbeFallback(c)

-----------------------------------------------------------------------------
(* The specification *)

Next ==
    \/ \E c \in Conns :
         Connect(c) \/ ServerSeesEnd(c) \/ AgentSeesEnd(c) \/ Handler(c)
    \/ DialRefused \/ ProbeDone
    \/ Acceptor \/ RunServer \/ Watcher
    \/ Maintain \/ Main
    \/ RestartServer \/ RestartAgent
    \/ Fault

(***************************************************************************)
(* Each goroutine that can move does, ends are noticed (idle timeouts),    *)
(* dials succeed when the server listens and no fault hits them, and what  *)
(* exited is started again: by systemd after an error or a crash, by the   *)
(* operator after a signal.  A probe command ends at the latest with its   *)
(* connect timeout and its stream's deadline.                              *)
(***************************************************************************)
Fairness ==
    /\ WF_vars(Maintain \/ DialRefused \/ \E c \in Conns : Connect(c))
    /\ WF_vars(Main \/ RestartAgent)
    /\ WF_vars(Acceptor) /\ WF_vars(Watcher)
    /\ WF_vars(RunServer \/ RestartServer)
    /\ WF_vars(ProbeDone)
    /\ \A c \in Conns :
         /\ WF_vars(ServerSeesEnd(c))
         /\ WF_vars(AgentSeesEnd(c))
         /\ WF_vars(Handler(c))

Spec == Init /\ [][Next]_vars
FairSpec == Spec /\ Fairness

-----------------------------------------------------------------------------
(* Properties *)

(* The agent's tunnel is up: both processes mean the same open connection. *)
Tunnelled ==
    /\ conns[AgentID] = conn /\ conn # NoConn
    /\ slink[conn] = "up" /\ alink[conn] = "up"
    /\ stage[conn] = "agent" /\ pc = "accepting"

(***************************************************************************)
(* Whatever the faults were, once they stop the agent ends up with a       *)
(* tunnel that both sides agree on, and keeps it: no stale registration,   *)
(* no leftover probe slot and no half-closed connection blocks it.         *)
(***************************************************************************)
Recovers == <>[]Tunnelled

(***************************************************************************)
(* CHANGELOG.md v2.0.3: reconnects do not get "stuck as probes".  A        *)
(* connection the agent believes in and the server has not registered      *)
(* becomes registered, or the agent notices its end and leaves it.         *)
(***************************************************************************)
NotStuckAsProbe ==
    (pc = "accepting" /\ conns[AgentID] # cur)
      ~> (pc # "accepting" \/ conns[AgentID] = cur)

(***************************************************************************)
(* When the loop of Run turns away the connection that a running agent     *)
(* relies on (register fails, and it becomes a legacy probe or is closed   *)
(* as a duplicate), the registered connection it meets is a leftover: the  *)
(* agent no longer has it open (it was lost, or belongs to a process that  *)
(* crashed or to a probe command), and the handler that will unregister it *)
(* is still there.  The server never holds the agent off by an entry that  *)
(* nobody removes, nor the agent itself by a second open connection.       *)
(***************************************************************************)
TurnedAwayByLeftover ==
    [][ \A c \in Conns :
          /\ c = cur /\ actx = "live" /\ ~S!Cancelled
          /\ stage[c] = "held" /\ stage'[c] \in {"legacy", "idle"}
          /\ faults' = faults
          => LET o == conns[AgentID]
             IN  o \in Conns \ {c} /\ alink[o] = "down" /\ stage[o] \in S!Serving
      ]_vars

(***************************************************************************)
(* A tunnel that is up stays up through every step of either process and   *)
(* through every probe that arrives under the agent's name: only a fault   *)
(* takes it down (or the end of a process that was told to stop).          *)
(***************************************************************************)
TunnelUndisturbed ==
    [][ Tunnelled /\ actx = "live" /\ sctx = "live" /\ run = "serving"
          => Tunnelled' \/ faults' # faults ]_vars
=============================================================================
