------------------------------- MODULE Server -------------------------------
(***************************************************************************)
(* The exit server's connection handling (internal/server/server.go): the  *)
(* accept loop of Run, the goroutine that feeds it, the registry of one    *)
(* tunnel per agent, the handler goroutines it starts, the probe slots,    *)
(* the connection gauge and the per-agent status flag of package metrics,  *)
(* and the way Run returns.                                                *)
(*                                                                         *)
(* The peers are an environment: they complete QUIC handshakes (Dial) and  *)
(* connections die under the server at any time (Drop: a close by the peer *)
(* or the idle timeout).  A member of Conns is a *quic.Conn; once nothing  *)
(* refers to it any more the same member may stand for a new connection,   *)
(* so a finite Conns bounds how many exist at a time, not how many come.   *)
(*                                                                         *)
(* A connection whose certificate is not an agent's never reaches the      *)
(* accept loop (auth.MultiClientTLSConfig rejects it in the handshake), so *)
(* the loop's own "unauthorized" branch has no counterpart here.           *)
(***************************************************************************)
EXTENDS Integers, FiniteSets

CONSTANTS
    Agents,           \* configured agent identities
    Conns,            \* QUIC connections
    NoConn,           \* "no connection", Go's nil
    PeerID,           \* the agent a connection's certificate proves
    ServerName,       \* the TLS server name it asked for: "exit" or "probe"
    MaxPendingDials   \* capacity of the probes channel

ASSUME ConnsAssumption == IsFiniteSet(Conns) /\ NoConn \notin Conns
ASSUME PeerAssumption ==
    /\ PeerID \in [Conns -> Agents]
    /\ ServerName \in [Conns -> {"exit", "probe"}]
ASSUME LimitAssumption == MaxPendingDials \in Nat \ {0}

VARIABLES
    link,             \* is the server's side of the connection still open?
    stage,            \* which piece of the server's code holds the connection
    acceptor,         \* the goroutine around ln.Accept
    run,              \* where Run is: its loop, then its deferred calls
    ctx,              \* the context given to Run: "live" or "done"
    listener,         \* the QUIC listener: "open" or "closed"
    toClose,          \* closeConnections' local slice
    conns,            \* s.conns, the registry
    probes,           \* length of the probes channel
    quicConnections,  \* metrics.QUICConnections
    connected         \* the agents metrics.connectedAgents maps to true

registryVars == <<conns, toClose>>
metricVars   == <<quicConnections, connected>>
controlVars  == <<acceptor, run, ctx, listener>>
vars == <<link, stage, controlVars, registryVars, probes, metricVars>>

-----------------------------------------------------------------------------
(* Types and helpers *)

(***************************************************************************)
(* "idle"        nothing refers to the connection                          *)
(* "queued"      handshake complete, in the listener's accept queue        *)
(* "held"        returned by ln.Accept, not yet taken by Run's loop        *)
(* "registered"  in the loop, register succeeded                           *)
(* "counted"     in the loop, gauge incremented                            *)
(* "agent"       handleAgent waits in AcceptStream                         *)
(* "left"        handleAgent's deferred call has unregistered it           *)
(* "uncounted"   ... and decremented the gauge                             *)
(* "probe"       handleProbeConnection waits in AcceptStream               *)
(* "legacy"      handleLegacyProbeConnection is running                    *)
(* "releasing"   a probe handler has closed it, its slot is still taken    *)
(***************************************************************************)
Stages == {"idle", "queued", "held", "registered", "counted", "agent",
           "left", "uncounted", "probe", "legacy", "releasing"}

(* Between register and the deferred unregister. *)
Serving == {"registered", "counted", "agent"}

(* Between QUICConnections.Add(1) and QUICConnections.Add(-1). *)
Counted == {"counted", "agent", "left"}

(* Between the send to probes and the receive from it. *)
SlotHeld == {"probe", "legacy", "releasing"}

TypeOK ==
    /\ link \in [Conns -> {"up", "down"}]
    /\ stage \in [Conns -> Stages]
    /\ acceptor \in {"accepting", "sending", "exited"}
    /\ run \in {"serving", "returning", "closing", "cancelled", "stopped"}
    /\ ctx \in {"live", "done"}
    /\ listener \in {"open", "closed"}
    /\ toClose \in SUBSET Conns
    /\ conns \in [Agents -> Conns \cup {NoConn}]
    /\ probes \in Nat
    /\ quicConnections \in Int
    /\ connected \in SUBSET Agents

(* runCtx is done: its parent is, or Run has called cancel. *)
Cancelled == ctx = "done" \/ run \in {"cancelled", "stopped"}

(* The loop of Run is at its select statement. *)
AtSelect ==
    /\ run = "serving"
    /\ \A c \in Conns : stage[c] \notin {"registered", "counted"}

(* The connections that the code in one of these stages holds. *)
At(stages) == {c \in Conns : stage[c] \in stages}

(* conn.CloseWithError, for any code and reason. *)
CloseWithError(c) == link' = [link EXCEPT ![c] = "down"]

GoTo(c, s) == stage' = [stage EXCEPT ![c] = s]

Init ==
    /\ link = [c \in Conns |-> "down"]
    /\ stage = [c \in Conns |-> "idle"]
    /\ acceptor = "accepting"
    /\ run = "serving"
    /\ ctx = "live"
    /\ listener = "open"
    /\ toClose = {}
    /\ conns = [a \in Agents |-> NoConn]
    /\ probes = 0
    /\ quicConnections = 0
    /\ connected = {}

-----------------------------------------------------------------------------
(* The environment *)

(* A peer completes the TLS handshake on a new connection. *)
Dial(c) ==
    /\ listener = "open"
    /\ stage[c] = "idle" /\ link[c] = "down" /\ c \notin toClose
    /\ link' = [link EXCEPT ![c] = "up"]
    /\ GoTo(c, "queued")
    /\ UNCHANGED <<controlVars, registryVars, probes, metricVars>>

(* The peer closes the connection, or it times out idle. *)
Drop(c) ==
    /\ link[c] = "up"
    /\ link' = [link EXCEPT ![c] = "down"]
    /\ UNCHANGED <<stage, controlVars, registryVars, probes, metricVars>>

(* The context given to Run is cancelled (SIGINT, SIGTERM). *)
Signal ==
    /\ ctx = "live"
    /\ ctx' = "done"
    /\ UNCHANGED <<link, stage, acceptor, run, listener, registryVars, probes,
                   metricVars>>

-----------------------------------------------------------------------------
(* The goroutine around ln.Accept *)

Accept(c) ==
    /\ acceptor = "accepting"
    /\ stage[c] = "queued"
    /\ GoTo(c, "held")
    /\ acceptor' = "sending"
    /\ UNCHANGED <<link, run, ctx, listener, registryVars, probes,
                   metricVars>>

(* ln.Accept fails: runCtx is done, the listener closed or its socket broke. *)
AcceptError ==
    /\ acceptor = "accepting"
    /\ acceptor' = "sending"
    /\ UNCHANGED <<link, stage, run, ctx, listener, registryVars, probes,
                   metricVars>>

(* The goroutine's select takes runCtx.Done: close what it holds, return. *)
AcceptorDone ==
    /\ acceptor = "sending"
    /\ Cancelled
    /\ acceptor' = "exited"
    /\ link' = [c \in Conns |-> IF stage[c] = "held" THEN "down" ELSE link[c]]
    /\ stage' = [c \in Conns |-> IF stage[c] = "held" THEN "idle" ELSE stage[c]]
    /\ UNCHANGED <<run, ctx, listener, registryVars, probes, metricVars>>

-----------------------------------------------------------------------------
(* The loop of Run *)

(* The loop receives connection c; the acceptor goes back to ln.Accept. *)
Receive(c) ==
    /\ AtSelect
    /\ acceptor = "sending" /\ stage[c] = "held"
    /\ acceptor' = "accepting"
    /\ UNCHANGED <<run, ctx, listener, toClose, metricVars>>

(* Mutant of register: a newer connection replaces the registered one. *)
registerReplacing(c) == conns' = [conns EXCEPT ![PeerID[c]] = c]

(* register, called from the loop only. *)
register(c) ==
    /\ conns[PeerID[c]] = NoConn
    /\ conns' = [conns EXCEPT ![PeerID[c]] = c]

(* Mutant of TakeSlot: one slot too many. *)
TakeSlotAboveLimit == probes <= MaxPendingDials /\ probes' = probes + 1

(* Non-blocking send to the probes channel. *)
TakeSlot == probes < MaxPendingDials /\ probes' = probes + 1

NoSlot == probes >= MaxPendingDials /\ UNCHANGED probes

AcceptProbe(c) ==
    /\ Receive(c)
    /\ ServerName[c] = "probe"
    /\ TakeSlot
    /\ GoTo(c, "probe")
    /\ UNCHANGED <<link, conns>>

RefuseProbe(c) ==
    /\ Receive(c)
    /\ ServerName[c] = "probe"
    /\ NoSlot
    /\ CloseWithError(c)
    /\ GoTo(c, "idle")
    /\ UNCHANGED conns

AcceptAgent(c) ==
    /\ Receive(c)
    /\ ServerName[c] = "exit"
    /\ register(c)
    /\ GoTo(c, "registered")
    /\ UNCHANGED <<link, probes>>

AcceptLegacyProbe(c) ==
    /\ Receive(c)
    /\ ServerName[c] = "exit" /\ conns[PeerID[c]] # NoConn
    /\ TakeSlot
    /\ GoTo(c, "legacy")
    /\ UNCHANGED <<link, conns>>

(* Mutant of RefuseDuplicate: the connection is forgotten, not closed. *)
RefuseDuplicateOpen(c) ==
    /\ Receive(c)
    /\ ServerName[c] = "exit" /\ conns[PeerID[c]] # NoConn
    /\ NoSlot
    /\ GoTo(c, "idle")
    /\ UNCHANGED <<link, conns>>

RefuseDuplicate(c) ==
    /\ Receive(c)
    /\ ServerName[c] = "exit" /\ conns[PeerID[c]] # NoConn
    /\ NoSlot
    /\ CloseWithError(c)
    /\ GoTo(c, "idle")
    /\ UNCHANGED conns

(* s.metrics.QUICConnections.Add(1) *)
CountConnection(c) ==
    /\ stage[c] = "registered"
    /\ quicConnections' = quicConnections + 1
    /\ GoTo(c, "counted")
    /\ UNCHANGED <<link, controlVars, registryVars, probes, connected>>

(* s.metrics.SetAgentConnected(agentID, true), then go s.handleAgent *)
AnnounceAgent(c) ==
    /\ stage[c] = "counted"
    /\ connected' = connected \cup {PeerID[c]}
    /\ GoTo(c, "agent")
    /\ UNCHANGED <<link, controlVars, registryVars, probes, quicConnections>>

(* The select takes runCtx.Done. *)
SeeCancel ==
    /\ AtSelect
    /\ Cancelled
    /\ run' = "returning"
    /\ UNCHANGED <<link, stage, acceptor, ctx, listener, registryVars,
                   probes, metricVars>>

(* The select takes the error of ln.Accept. *)
ReceiveAcceptError ==
    /\ AtSelect
    /\ acceptor = "sending" /\ At({"held"}) = {}
    /\ acceptor' = "exited"
    /\ run' = "returning"
    /\ UNCHANGED <<link, stage, ctx, listener, registryVars, probes,
                   metricVars>>

(* The select takes a reverse listener's error from errCh. *)
ReceiveListenerError ==
    /\ AtSelect
    /\ run' = "returning"
    /\ UNCHANGED <<link, stage, acceptor, ctx, listener, registryVars,
                   probes, metricVars>>

-----------------------------------------------------------------------------
(* Run's deferred calls *)

(* Mutant of TakeConnections: the entries are not deleted. *)
TakeConnectionsKeeping ==
    /\ run = "returning"
    /\ run' = "closing"
    /\ toClose' = {conns[a] : a \in Agents} \ {NoConn}
    /\ UNCHANGED <<link, stage, acceptor, ctx, listener, conns, probes,
                   metricVars>>

(* closeConnections while it holds s.mu: empty the registry. *)
TakeConnections ==
    /\ run = "returning"
    /\ run' = "closing"
    /\ toClose' = {conns[a] : a \in Agents} \ {NoConn}
    /\ conns' = [a \in Agents |-> NoConn]
    /\ UNCHANGED <<link, stage, acceptor, ctx, listener, probes,
                   metricVars>>

(* closeConnections after it released s.mu: close them one by one. *)
CloseTaken(c) ==
    /\ run = "closing"
    /\ c \in toClose
    /\ toClose' = toClose \ {c}
    /\ CloseWithError(c)
    /\ UNCHANGED <<stage, controlVars, conns, probes, metricVars>>

(* The deferred cancel. *)
CancelRunCtx ==
    /\ run = "closing" /\ toClose = {}
    /\ run' = "cancelled"
    /\ UNCHANGED <<link, stage, acceptor, ctx, listener, registryVars,
                   probes, metricVars>>

(* The deferred ln.Close; Run returns. *)
CloseListener ==
    /\ run = "cancelled"
    /\ run' = "stopped"
    /\ listener' = "closed"
    /\ UNCHANGED <<link, stage, acceptor, ctx, registryVars, probes,
                   metricVars>>

(* The goroutine that closes the listener when runCtx is done. *)
WatchCancel ==
    /\ Cancelled /\ listener = "open"
    /\ listener' = "closed"
    /\ UNCHANGED <<link, stage, acceptor, run, ctx, registryVars,
                   probes, metricVars>>

-----------------------------------------------------------------------------
(* handleAgent *)

(* Mutant of unregister: the entry is left in the registry. *)
unregisterKeeping(c) ==
    /\ stage[c] = "agent"
    /\ link[c] = "down" \/ Cancelled
    /\ GoTo(c, "left")
    /\ UNCHANGED <<link, controlVars, registryVars, probes, metricVars>>

(* AcceptStream fails: the connection is dead or runCtx done; unregister. *)
unregister(c) ==
    /\ stage[c] = "agent"
    /\ link[c] = "down" \/ Cancelled
    /\ conns' = IF conns[PeerID[c]] = c
                  THEN [conns EXCEPT ![PeerID[c]] = NoConn]
                  ELSE conns
    /\ GoTo(c, "left")
    /\ UNCHANGED <<link, controlVars, toClose, probes, metricVars>>

(* Mutant of UncountConnection: no Add(-1). *)
UncountNothing(c) ==
    /\ stage[c] = "left"
    /\ GoTo(c, "uncounted")
    /\ UNCHANGED <<link, controlVars, registryVars, probes, metricVars>>

(* s.metrics.QUICConnections.Add(-1) *)
UncountConnection(c) ==
    /\ stage[c] = "left"
    /\ quicConnections' = quicConnections - 1
    /\ GoTo(c, "uncounted")
    /\ UNCHANGED <<link, controlVars, registryVars, probes, connected>>

(* Mutant of WithdrawAgent: the flag stays set. *)
WithdrawNothing(c) ==
    /\ stage[c] = "uncounted"
    /\ GoTo(c, "idle")
    /\ UNCHANGED <<link, controlVars, registryVars, probes, metricVars>>

(* s.metrics.SetAgentConnected(agentID, false); the goroutine ends. *)
WithdrawAgent(c) ==
    /\ stage[c] = "uncounted"
    /\ connected' = connected \ {PeerID[c]}
    /\ GoTo(c, "idle")
    /\ UNCHANGED <<link, controlVars, registryVars, probes, quicConnections>>

-----------------------------------------------------------------------------
(* handleProbeConnection and handleLegacyProbeConnection *)

(* Mutant of LeaveProbe: AcceptStream is not given runCtx. *)
LeaveProbeOnlyDead(c) ==
    /\ stage[c] = "probe"
    /\ link[c] = "down"
    /\ GoTo(c, "releasing")
    /\ UNCHANGED <<link, controlVars, registryVars, probes, metricVars>>

(* Mutant of LeaveProbe: the handler gives the slot back as well. *)
LeaveProbeReleasing(c) ==
    /\ stage[c] = "probe"
    /\ link[c] = "down" \/ Cancelled
    /\ CloseWithError(c)
    /\ probes' = probes - 1
    /\ GoTo(c, "releasing")
    /\ UNCHANGED <<controlVars, registryVars, metricVars>>

(* AcceptStream fails; the deferred CloseWithError runs. *)
LeaveProbe(c) ==
    /\ stage[c] = "probe"
    /\ link[c] = "down" \/ Cancelled
    /\ CloseWithError(c)
    /\ GoTo(c, "releasing")
    /\ UNCHANGED <<controlVars, registryVars, probes, metricVars>>

(* A stream of the probe connection opens with something else than PROBE. *)
RejectNonProbe(c) ==
    /\ stage[c] = "probe" /\ link[c] = "up"
    /\ CloseWithError(c)
    /\ UNCHANGED <<stage, controlVars, registryVars, probes, metricVars>>

(* Mutant of LeaveLegacyProbe: AcceptStream has no timeout. *)
LeaveLegacyProbeOnlyDead(c) ==
    /\ stage[c] = "legacy"
    /\ link[c] = "down" \/ Cancelled
    /\ CloseWithError(c)
    /\ GoTo(c, "releasing")
    /\ UNCHANGED <<controlVars, registryVars, probes, metricVars>>

(* Mutant of LeaveLegacyProbe: the connection is not closed. *)
LeaveLegacyProbeOpen(c) ==
    /\ stage[c] = "legacy"
    /\ GoTo(c, "releasing")
    /\ UNCHANGED <<link, controlVars, registryVars, probes, metricVars>>

(***************************************************************************)
(* A legacy probe takes one stream at most and every wait in it is bounded *)
(* by HandshakeTimeout or DialTimeout; however it ends, the deferred       *)
(* CloseWithError runs.                                                    *)
(***************************************************************************)
LeaveLegacyProbe(c) ==
    /\ stage[c] = "legacy"
    /\ CloseWithError(c)
    /\ GoTo(c, "releasing")
    /\ UNCHANGED <<controlVars, registryVars, probes, metricVars>>

(* The deferred receive from probes. *)
ReleaseSlot(c) ==
    /\ stage[c] = "releasing"
    /\ probes' = probes - 1
    /\ GoTo(c, "idle")
    /\ UNCHANGED <<link, controlVars, registryVars, metricVars>>

-----------------------------------------------------------------------------
(* The specification *)

Environment == Signal \/ \E c \in Conns : Dial(c) \/ Drop(c)

Acceptor == AcceptError \/ AcceptorDone \/ \E c \in Conns : Accept(c)

Loop ==
    \/ SeeCancel
    \/ ReceiveAcceptError
    \/ \E c \in Conns :
         \/ AcceptProbe(c) \/ RefuseProbe(c)
         \/ AcceptAgent(c) \/ AcceptLegacyProbe(c) \/ RefuseDuplicate(c)
         \/ CountConnection(c) \/ AnnounceAgent(c)

Defers ==
    \/ TakeConnections
    \/ \E c \in Conns : CloseTaken(c)
    \/ CancelRunCtx
    \/ CloseListener

Handler(c) ==
    \/ unregister(c) \/ UncountConnection(c) \/ WithdrawAgent(c)
    \/ LeaveProbe(c) \/ LeaveLegacyProbe(c) \/ ReleaseSlot(c)

Next ==
    \/ Environment
    \/ Acceptor
    \/ Loop
    \/ ReceiveListenerError
    \/ Defers
    \/ WatchCancel
    \/ \E c \in Conns : Handler(c) \/ RejectNonProbe(c)

(***************************************************************************)
(* Every goroutine that can move does: the Go scheduler starves none, and  *)
(* the timeouts of a legacy probe expire.  Nothing is assumed of the       *)
(* peers, of the signal, or of the errors of a listener.                   *)
(***************************************************************************)
Fairness ==
    /\ WF_vars(\E c \in Conns : Accept(c))
    /\ WF_vars(Cancelled /\ AcceptError)
    /\ WF_vars(AcceptorDone)
    /\ WF_vars(Loop)
    /\ WF_vars(Defers)
    /\ WF_vars(WatchCancel)
    /\ \A c \in Conns : WF_vars(Handler(c))

Spec == Init /\ [][Next]_vars
FairSpec == Spec /\ Fairness

-----------------------------------------------------------------------------
(* Safety *)

(***************************************************************************)
(* The registry and the goroutines agree: a registered connection belongs  *)
(* to the agent it is registered for and has a goroutine that will         *)
(* unregister it, and until Run returns every connection being served is   *)
(* the registered one.  So an agent never has two tunnels, and an entry of *)
(* s.conns can not outlive the goroutine that removes it (register,        *)
(* unregister, closeConnections).                                          *)
(***************************************************************************)
RegistryCoherent ==
    /\ \A a \in Agents : conns[a] # NoConn =>
         PeerID[conns[a]] = a /\ stage[conns[a]] \in Serving
    /\ run \in {"serving", "returning"} =>
         \A c \in Conns :
           stage[c] \in Serving => conns[PeerID[c]] = c

(***************************************************************************)
(* The probes channel holds one token per probe handler that has not       *)
(* released it, and never more than its capacity: no path leaks a slot or  *)
(* returns one twice.                                                      *)
(***************************************************************************)
ProbeSlots ==
    /\ probes = Cardinality(At(SlotHeld))
    /\ probes <= MaxPendingDials

(***************************************************************************)
(* mule_quic_connections counts the agent connections whose handler has    *)
(* been announced and has not finished: it balances over every path and is *)
(* zero again when the last handler is done.                               *)
(***************************************************************************)
GaugeBalanced ==
    quicConnections = Cardinality(At(Counted))

(***************************************************************************)
(* The status never lists an agent for which no handler runs: a flag set   *)
(* by one connection's announcement is cleared by a later withdrawal, in   *)
(* whatever order the steps of an old and a new connection interleave.     *)
(***************************************************************************)
NoGhostAgents ==
    \A a \in connected :
      \E c \in Conns : /\ PeerID[c] = a
                       /\ stage[c] \in {"agent", "left", "uncounted"}

(***************************************************************************)
(* Unless the process was signalled, the server never lets go of a         *)
(* connection that is still open: whatever it refuses, finishes or, after  *)
(* a listener failed, shuts down has been closed or is about to be closed  *)
(* by closeConnections.                                                    *)
(***************************************************************************)
NoAbandonedConnection ==
    ctx = "live" =>
      \A c \in Conns :
        stage[c] \in {"idle", "left", "uncounted", "releasing"} =>
          link[c] = "down" \/ c \in toClose

(***************************************************************************)
(* An agent's registered connection is never replaced, and it is removed   *)
(* only when it is dead or the server is shutting down: neither a probe    *)
(* nor a second connection of the same agent can evict it.                 *)
(***************************************************************************)
NoEviction ==
    [][\A a \in Agents :
         conns[a] # NoConn /\ conns'[a] # conns[a] =>
           /\ conns'[a] = NoConn
           /\ link[conns[a]] = "down" \/ Cancelled \/ run = "returning"]_vars

(***************************************************************************)
(* The server implements the abstract registry: s.conns is the table of    *)
(* tunnels, the agents' server name marks what may become one, and the     *)
(* registry is open until closeConnections has run.                        *)
(***************************************************************************)
Reg == INSTANCE Registry
         WITH tunnel  <- conns,
              phase   <- IF run \in {"serving", "returning"}
                           THEN "open" ELSE "shut",
              Owner   <- PeerID,
              Tunnels <- {c \in Conns : ServerName[c] = "exit"}

ImplementsRegistry == Reg!Spec

(***************************************************************************)
(* The claim of CHANGELOG.md for v2.0.6, "Close active server connections  *)
(* during shutdown so agents can reconnect cleanly": once Run has          *)
(* returned, no agent connection it accepted is left open.                 *)
(***************************************************************************)
ShutdownClosesConnections ==
    run = "stopped" =>
      \A c \in Conns :
        stage[c] \notin {"queued", "held", "probe", "legacy"} =>
          link[c] = "down"

(***************************************************************************)
(* The claim of README.md, "Server status includes a sorted                *)
(* `connected_agents` list": while the server serves and no goroutine is   *)
(* between the registry and the status flag of an agent, the flag says     *)
(* whether the agent is connected.                                         *)
(***************************************************************************)
StatusAgrees ==
    \A a \in Agents :
      /\ run = "serving" /\ ctx = "live"
      /\ \A c \in Conns : PeerID[c] = a =>
           stage[c] \notin {"registered", "counted", "left", "uncounted"}
      => (a \in connected <=> conns[a] # NoConn)

-----------------------------------------------------------------------------
(* Liveness, under FairSpec *)

(***************************************************************************)
(* A registered connection that dies gives its place in the registry back, *)
(* so the agent can come back.                                             *)
(***************************************************************************)
DeadTunnelIsRemoved ==
    \A c \in Conns :
      (link[c] = "down" /\ conns[PeerID[c]] = c) ~> (conns[PeerID[c]] # c)

(***************************************************************************)
(* A connection taken for a legacy probe, which is what an agent's         *)
(* reconnect becomes while its old connection is still registered, is      *)
(* always closed and gives its slot back: the agent is not stuck on it.    *)
(***************************************************************************)
LegacyProbeEnds ==
    \A c \in Conns :
      stage[c] = "legacy" ~> (stage[c] = "idle" /\ link[c] = "down")

(***************************************************************************)
(* After the signal Run returns and every goroutine it started ends: no    *)
(* handler, no held connection, every slot and the gauge given back.       *)
(***************************************************************************)
ShutdownCompletes ==
    ctx = "done" ~>
      /\ run = "stopped"
      /\ acceptor = "exited"
      /\ \A c \in Conns : stage[c] \in {"idle", "queued"}
      /\ probes = 0 /\ quicConnections = 0
=============================================================================
