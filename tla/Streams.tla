------------------------------- MODULE Streams -------------------------------
(***************************************************************************)
(* The opening handshake of one stream per tunnelled TCP connection, on    *)
(* both sides of the tunnel (internal/server/server.go and                 *)
(* internal/agent/agent.go).                                               *)
(*                                                                         *)
(* A session is a TCP client served by an initiator: the agent for a       *)
(* forward service (acceptForward, handleForwardTCP), the server for a     *)
(* reverse one (acceptReverse, handleReverseTCP), or the probe command     *)
(* (runProbe).  The initiator opens a stream and sends OPEN or PROBE; the  *)
(* responder at the other end (handleAgentStream and handleProbe in the    *)
(* server, handleReverseStream in the agent) checks its policy, dials the  *)
(* target and answers OK or ERROR; after OK both copy bytes (Pipe).        *)
(*                                                                         *)
(* Deadlines are events that may come at any moment of the waits they      *)
(* bound.  A tunnel may be lost and replaced at any time: every stream of  *)
(* the lost one is dead, whoever still holds it.                           *)
(*                                                                         *)
(* Stream credit is quic-go's (external): an endpoint lets its peer have   *)
(* at most MaxIncomingStreams streams open, and a stream counts until its  *)
(* accepting side has both closed it and read it to the end.               *)
(***************************************************************************)
EXTENDS Integers, FiniteSets

CONSTANTS
    Agents, Services,
    Sessions,
    Of,                \* what a session is about, see SessionInfo
    ForwardPolicy,     \* server: services an agent may reach (agent.Forward)
    ReversePolicy,     \* server: reverse services of an agent (agent.Reverse)
    ReverseTargets,    \* agent: its own cfg.Reverse
    MaxConnections,    \* agent: capacity of the forward semaphore
    MaxStreams,        \* server: stream limit, capacity of the reverse one
    AgentStreams,      \* agent: quic-go's default stream limit
    MaxPendingDials    \* server: capacity of the dials channel

(* claim is the PeerID field of the frame: what the peer says it is. *)
SessionInfo ==
    [agent : Agents, claim : Agents, service : Services,
     dir : {"forward", "reverse"}, request : {"open", "probe"}]

ASSUME SessionAssumption ==
    IsFiniteSet(Sessions) /\ Of \in [Sessions -> SessionInfo]
ASSUME PolicyAssumption ==
    /\ ForwardPolicy  \in [Agents -> SUBSET Services]
    /\ ReversePolicy  \in [Agents -> SUBSET Services]
    /\ ReverseTargets \in [Agents -> SUBSET Services]
ASSUME StreamLimitAssumption ==
    {MaxConnections, MaxStreams, AgentStreams, MaxPendingDials}
      \subseteq Nat \ {0}

VARIABLES
    ini,       \* where the initiator of a session is
    rsp,       \* where its responder is
    stream,    \* the session's stream, or the connection it will use
    reply,     \* the responder's answer on the stream
    tunnel,    \* per agent: is there a tunnel?
    credit,    \* per agent and direction: streams that count as open
    forwardSem,  \* per agent: length of the semaphore of acceptForward
    reverseSem,  \* length of the server's reverseConnections channel
    dials      \* length of the server's dials channel

semVars == <<forwardSem, reverseSem>>
vars == <<ini, rsp, stream, reply, tunnel, credit, semVars, dials>>

-----------------------------------------------------------------------------
(* Types and helpers *)

IsOpen(s)  == Of[s].request = "open"
Forward(s) == Of[s].dir = "forward"

(* The tunnel direction whose stream credit a session uses. *)
Lane(s) == <<Of[s].agent, Of[s].dir>>
Lanes == Agents \X {"forward", "reverse"}

StreamLimit(lane) == IF lane[2] = "forward" THEN MaxStreams ELSE AgentStreams

TypeOK ==
    /\ ini \in [Sessions -> {"idle", "lookup", "opening", "waiting", "piping"}]
    /\ rsp \in [Sessions -> {"none", "reading", "dialing", "answered", "dialled",
                          "piping"}]
    /\ stream \in [Sessions -> {"none", "live", "dead"}]
    /\ reply \in [Sessions -> {"none", "ok", "error"}]
    /\ tunnel \in [Agents -> {"up", "down"}]
    /\ credit \in [Lanes -> Nat]
    /\ forwardSem \in [Agents -> Nat]
    /\ reverseSem \in Nat
    /\ dials \in Nat

Init ==
    /\ ini = [s \in Sessions |-> "idle"]
    /\ rsp = [s \in Sessions |-> "none"]
    /\ stream = [s \in Sessions |-> "none"]
    /\ reply = [s \in Sessions |-> "none"]
    /\ tunnel = [a \in Agents |-> "down"]
    /\ credit = [l \in Lanes |-> 0]
    /\ forwardSem = [a \in Agents |-> 0]
    /\ reverseSem = 0
    /\ dials = 0

forwardTarget(agent, service) == service \in ForwardPolicy[agent]
reverseAllowed(agent, service) == service \in ReversePolicy[agent]

(* Mutant of Permitted: the policy of the agent the frame names. *)
PermittedByClaim(s) ==
    LET i == Of[s] IN
    \/ i.dir = "forward" /\ forwardTarget(i.claim, i.service)
    \/ i.dir = "reverse" /\ i.request = "probe"
         /\ reverseAllowed(i.claim, i.service)
    \/ i.dir = "reverse" /\ i.request = "open"
         /\ i.service \in ReverseTargets[i.agent]

(***************************************************************************)
(* The server looks the service up in the configuration of the agent the   *)
(* connection authenticated as, never of the one the frame names; for a    *)
(* reverse OPEN the agent asks its own configuration.                      *)
(***************************************************************************)
Permitted(s) ==
    LET i == Of[s] IN
    \/ i.dir = "forward" /\ forwardTarget(i.agent, i.service)
    \/ i.dir = "reverse" /\ i.request = "probe"
         /\ reverseAllowed(i.agent, i.service)
    \/ i.dir = "reverse" /\ i.request = "open"
         /\ i.service \in ReverseTargets[i.agent]

(* Every forward dial is made by the server and takes a slot of dials. *)
TakesDialSlot(s) == Forward(s)

(***************************************************************************)
(* handleAgentStream gives the slot back as soon as the dial returns,      *)
(* handleProbe in a deferred call, after it has answered.                  *)
(***************************************************************************)
HoldsDialSlot(s) ==
    TakesDialSlot(s) /\ rsp[s] \in {"dialing", "answered"}

-----------------------------------------------------------------------------
(* The tunnel *)

TunnelUp(a) ==
    /\ tunnel[a] = "down"
    /\ tunnel' = [tunnel EXCEPT ![a] = "up"]
    /\ UNCHANGED <<ini, rsp, stream, reply, credit, semVars, dials>>

TunnelLost(a) ==
    /\ tunnel[a] = "up"
    /\ tunnel' = [tunnel EXCEPT ![a] = "down"]
    /\ stream' = [s \in Sessions |->
                    IF Of[s].agent = a /\ IsOpen(s) /\ stream[s] = "live"
                      THEN "dead" ELSE stream[s]]
    /\ credit' = [l \in Lanes |-> IF l[1] = a THEN 0 ELSE credit[l]]
    /\ UNCHANGED <<ini, rsp, reply, semVars, dials>>

(* A probe has a connection of its own. *)
ProbeLost(s) ==
    /\ ~IsOpen(s) /\ stream[s] = "live"
    /\ stream' = [stream EXCEPT ![s] = "dead"]
    /\ UNCHANGED <<ini, rsp, reply, tunnel, credit, semVars, dials>>

-----------------------------------------------------------------------------
(* The initiator *)

(***************************************************************************)
(* acceptForward, acceptReverse: a TCP client, and a free place for it.    *)
(* With no place free the client is closed at once, which changes nothing. *)
(***************************************************************************)
TakeSem(s) ==
    \/ /\ Forward(s) /\ forwardSem[Of[s].agent] < MaxConnections
       /\ forwardSem' = [forwardSem EXCEPT ![Of[s].agent] = @ + 1]
       /\ UNCHANGED reverseSem
    \/ /\ ~Forward(s) /\ reverseSem < MaxStreams
       /\ reverseSem' = reverseSem + 1
       /\ UNCHANGED forwardSem

(* Mutant of ReturnSem: the server's reverse handler returns nothing. *)
ReturnForwardSem(s) ==
    IF IsOpen(s) /\ Forward(s)
      THEN /\ forwardSem' = [forwardSem EXCEPT ![Of[s].agent] = @ - 1]
           /\ UNCHANGED reverseSem
      ELSE UNCHANGED semVars

(* The deferred receive when the handler returns; a probe holds nothing. *)
ReturnSem(s) ==
    IF ~IsOpen(s) THEN UNCHANGED semVars
    ELSE IF Forward(s)
      THEN /\ forwardSem' = [forwardSem EXCEPT ![Of[s].agent] = @ - 1]
           /\ UNCHANGED reverseSem
      ELSE /\ reverseSem' = reverseSem - 1
           /\ UNCHANGED forwardSem

(* The initiator's handler returns, closing what it has. *)
EndInitiator(s) ==
    /\ ini' = [ini EXCEPT ![s] = "idle"]
    /\ ReturnSem(s)
    /\ UNCHANGED <<rsp, stream, reply, tunnel, credit, dials>>

Arrive(s) ==
    /\ ini[s] = "idle" /\ rsp[s] = "none" /\ IsOpen(s)
    /\ TakeSem(s)
    /\ ini' = [ini EXCEPT ![s] = "lookup"]
    /\ stream' = [stream EXCEPT ![s] = "none"]
    /\ reply' = [reply EXCEPT ![s] = "none"]
    /\ UNCHANGED <<rsp, tunnel, credit, dials>>

(* runProbe has connected. *)
ArriveProbe(s) ==
    /\ ini[s] = "idle" /\ rsp[s] = "none" /\ ~IsOpen(s)
    /\ ini' = [ini EXCEPT ![s] = "opening"]
    /\ stream' = [stream EXCEPT ![s] = "live"]
    /\ reply' = [reply EXCEPT ![s] = "none"]
    /\ UNCHANGED <<rsp, tunnel, credit, semVars, dials>>

(* getConn in the agent, conn in the server: the tunnel is read once. *)
Lookup(s) ==
    /\ ini[s] = "lookup"
    /\ tunnel[Of[s].agent] = "up"
    /\ ini' = [ini EXCEPT ![s] = "opening"]
    /\ stream' = [stream EXCEPT ![s] = "live"]
    /\ UNCHANGED <<rsp, reply, tunnel, credit, semVars, dials>>

(* No tunnel: the agent polls for ConnectTimeout, the server gives up. *)
LookupFails(s) ==
    /\ ini[s] = "lookup"
    /\ tunnel[Of[s].agent] = "down"
    /\ EndInitiator(s)

HasCredit(s) == IsOpen(s) => credit[Lane(s)] < StreamLimit(Lane(s))

(* OpenStreamSync, then OPEN or PROBE is written; the peer accepts it. *)
OpenStream(s) ==
    /\ ini[s] = "opening" /\ stream[s] = "live" /\ HasCredit(s)
    /\ ini' = [ini EXCEPT ![s] = "waiting"]
    /\ rsp' = [rsp EXCEPT ![s] = "reading"]
    /\ credit' = IF IsOpen(s) THEN [credit EXCEPT ![Lane(s)] = @ + 1]
                              ELSE credit
    /\ UNCHANGED <<stream, reply, tunnel, semVars, dials>>

(* The connection is dead, or no credit came within HandshakeTimeout. *)
OpenFails(s) ==
    /\ ini[s] = "opening"
    /\ stream[s] = "dead" \/ ~HasCredit(s)
    /\ EndInitiator(s)

(* Mutant of ReceiveOK: the type of the response is not checked. *)
ReceiveAny(s) ==
    /\ ini[s] = "waiting" /\ reply[s] # "none" /\ stream[s] = "live"
    /\ IF IsOpen(s)
         THEN /\ ini' = [ini EXCEPT ![s] = "piping"]
              /\ UNCHANGED <<rsp, stream, reply, tunnel, credit, semVars, dials>>
         ELSE EndInitiator(s)

ReceiveOK(s) ==
    /\ ini[s] = "waiting" /\ reply[s] = "ok" /\ stream[s] = "live"
    /\ IF IsOpen(s)
         THEN /\ ini' = [ini EXCEPT ![s] = "piping"]
              /\ UNCHANGED <<rsp, stream, reply, tunnel, credit, semVars, dials>>
         ELSE EndInitiator(s)

(* Mutant of HandshakeFails: no deadline on the response. *)
HandshakeFailsOnError(s) ==
    ini[s] = "waiting" /\ reply[s] = "error" /\ EndInitiator(s)

(* ERROR, the deadline, or a dead connection: the stream is closed. *)
HandshakeFails(s) == ini[s] = "waiting" /\ EndInitiator(s)

(* Pipe returns in the initiator. *)
InitiatorDone(s) == ini[s] = "piping" /\ EndInitiator(s)

-----------------------------------------------------------------------------
(* The responder *)

ReturnDialSlot(s) == dials' = IF TakesDialSlot(s) THEN dials - 1 ELSE dials

(* Where the responder of a probe is once it has answered after a dial. *)
ProbeAnswered(s) == rsp' = [rsp EXCEPT ![s] = "answered"]

(* WriteFrame(ERROR) and stream.Close; lost if the stream is dead. *)
Refuse(s) ==
    /\ rsp' = [rsp EXCEPT ![s] = "none"]
    /\ reply' = [reply EXCEPT ![s] = "error"]
    /\ UNCHANGED <<ini, stream, tunnel, semVars>>

(* The responder has read the end the initiator sent: the credit is free. *)
ReadToEnd(s) ==
    /\ stream[s] = "live" /\ ini[s] \in {"idle", "piping"}
    /\ credit' = IF IsOpen(s) THEN [credit EXCEPT ![Lane(s)] = @ - 1] ELSE credit

(* ReadFrame fails: deadline, dead connection, bad frame, or the end. *)
ReadFails(s) ==
    /\ rsp[s] = "reading"
    /\ Refuse(s)
    /\ ReadToEnd(s) \/ UNCHANGED credit
    /\ UNCHANGED dials

Unauthorized(s) ==
    /\ rsp[s] = "reading" /\ ~Permitted(s)
    /\ Refuse(s)
    /\ UNCHANGED <<credit, dials>>

Overloaded(s) ==
    /\ rsp[s] = "reading" /\ Permitted(s)
    /\ TakesDialSlot(s) /\ dials >= MaxPendingDials
    /\ Refuse(s)
    /\ UNCHANGED <<credit, dials>>

(* A reverse probe is answered from the policy alone. *)
AnswerReverseProbe(s) ==
    /\ rsp[s] = "reading" /\ Permitted(s)
    /\ ~IsOpen(s) /\ ~Forward(s)
    /\ rsp' = [rsp EXCEPT ![s] = "none"]
    /\ reply' = [reply EXCEPT ![s] = "ok"]
    /\ UNCHANGED <<ini, stream, tunnel, credit, semVars, dials>>

StartDial(s) ==
    /\ rsp[s] = "reading" /\ Permitted(s)
    /\ IsOpen(s) \/ Forward(s)
    /\ TakesDialSlot(s) => dials < MaxPendingDials
    /\ dials' = IF TakesDialSlot(s) THEN dials + 1 ELSE dials
    /\ rsp' = [rsp EXCEPT ![s] = "dialing"]
    /\ UNCHANGED <<ini, stream, reply, tunnel, credit, semVars>>

(* Mutant of DialFails: the slot of a failed dial is not given back. *)
DialFailsKeeping(s) ==
    /\ rsp[s] = "dialing"
    /\ Refuse(s)
    /\ UNCHANGED <<credit, dials>>

(* Mutant of DialFails: the slot of a probe is given back early, and again. *)
DialFailsReturningTwice(s) ==
    /\ rsp[s] = "dialing"
    /\ ReturnDialSlot(s)
    /\ IF IsOpen(s)
         THEN Refuse(s)
         ELSE /\ ProbeAnswered(s)
              /\ reply' = [reply EXCEPT ![s] = "error"]
              /\ UNCHANGED <<ini, stream, tunnel, semVars>>
    /\ UNCHANGED credit

(* Refused, DialTimeout, or the context is done. *)
DialFails(s) ==
    /\ rsp[s] = "dialing"
    /\ IF IsOpen(s)
         THEN Refuse(s) /\ ReturnDialSlot(s)
         ELSE /\ ProbeAnswered(s)
              /\ reply' = [reply EXCEPT ![s] = "error"]
              /\ UNCHANGED <<ini, stream, tunnel, semVars, dials>>
    /\ UNCHANGED credit

DialSucceeds(s) ==
    /\ rsp[s] = "dialing"
    /\ IF IsOpen(s)
         THEN /\ rsp' = [rsp EXCEPT ![s] = "dialled"]
              /\ ReturnDialSlot(s)
              /\ UNCHANGED reply
         ELSE /\ ProbeAnswered(s)
              /\ reply' = [reply EXCEPT ![s] = "ok"]
              /\ UNCHANGED dials
    /\ UNCHANGED <<ini, stream, tunnel, credit, semVars>>

(* handleProbe's deferred receive from dials. *)
ProbeReturns(s) ==
    /\ rsp[s] = "answered"
    /\ ReturnDialSlot(s)
    /\ rsp' = [rsp EXCEPT ![s] = "none"]
    /\ UNCHANGED <<ini, stream, reply, tunnel, credit, semVars>>

(* WriteFrame(OK) succeeds; the deadline is lifted and Pipe starts. *)
Confirm(s) ==
    /\ rsp[s] = "dialled" /\ stream[s] = "live"
    /\ rsp' = [rsp EXCEPT ![s] = "piping"]
    /\ reply' = [reply EXCEPT ![s] = "ok"]
    /\ UNCHANGED <<ini, stream, tunnel, credit, semVars, dials>>

(* WriteFrame(OK) fails: the dial outlasted the deadline, or it is dead. *)
ConfirmFails(s) ==
    /\ rsp[s] = "dialled"
    /\ rsp' = [rsp EXCEPT ![s] = "none"]
    /\ UNCHANGED <<ini, stream, reply, tunnel, credit, semVars, dials>>

(***************************************************************************)
(* Pipe returns in the responder.  The stream's credit is free again if    *)
(* Pipe read the stream to its end; if writing to the target failed first, *)
(* it is not.                                                              *)
(***************************************************************************)
ResponderDone(s) ==
    /\ rsp[s] = "piping"
    /\ rsp' = [rsp EXCEPT ![s] = "none"]
    /\ ReadToEnd(s) \/ UNCHANGED credit
    /\ UNCHANGED <<ini, stream, reply, tunnel, semVars, dials>>

-----------------------------------------------------------------------------
(* The specification *)

Initiator(s) ==
    \/ Lookup(s) \/ LookupFails(s) \/ OpenStream(s) \/ OpenFails(s)
    \/ ReceiveOK(s) \/ HandshakeFails(s)

Responder(s) ==
    \/ ReadFails(s) \/ Unauthorized(s) \/ Overloaded(s)
    \/ AnswerReverseProbe(s) \/ StartDial(s) \/ DialFails(s)
    \/ DialSucceeds(s) \/ ProbeReturns(s) \/ Confirm(s) \/ ConfirmFails(s)

Next ==
    \/ \E a \in Agents : TunnelUp(a) \/ TunnelLost(a)
    \/ \E s \in Sessions :
         \/ Arrive(s) \/ ArriveProbe(s) \/ ProbeLost(s)
         \/ Initiator(s) \/ InitiatorDone(s)
         \/ Responder(s) \/ ResponderDone(s)

(***************************************************************************)
(* Every wait of a handshake has a deadline, so each side moves on; how    *)
(* long a Pipe runs is up to the TCP peers.                                *)
(***************************************************************************)
Fairness ==
    \A s \in Sessions : WF_vars(Initiator(s)) /\ WF_vars(Responder(s))

Spec == Init /\ [][Next]_vars
FairSpec == Spec /\ Fairness

-----------------------------------------------------------------------------
(* Properties *)

(***************************************************************************)
(* No dial, no OK and no Pipe for a service that the responder's own       *)
(* configuration does not grant to the agent the connection authenticated  *)
(* as, whatever identity the frame claims.                                 *)
(***************************************************************************)
OnlyPermitted ==
    \A s \in Sessions :
      rsp[s] \in {"dialing", "dialled", "piping"} \/ reply[s] = "ok" =>
        LET i == Of[s] IN
        IF i.dir = "forward" THEN i.service \in ForwardPolicy[i.agent]
        ELSE IF i.request = "probe" THEN i.service \in ReversePolicy[i.agent]
        ELSE i.service \in ReverseTargets[i.agent]

(***************************************************************************)
(* The three semaphores hold one token per handler or dial that is using   *)
(* it, within their capacity, on every path of success, refusal, deadline  *)
(* and lost tunnel.                                                        *)
(***************************************************************************)
SemaphoresBalanced ==
    /\ dials = Cardinality({s \in Sessions : HoldsDialSlot(s)})
    /\ dials <= MaxPendingDials
    /\ \A a \in Agents :
         /\ forwardSem[a] = Cardinality({s \in Sessions :
              Lane(s) = <<a, "forward">> /\ IsOpen(s) /\ ini[s] # "idle"})
         /\ forwardSem[a] <= MaxConnections
    /\ reverseSem = Cardinality({s \in Sessions :
         ~Forward(s) /\ IsOpen(s) /\ ini[s] # "idle"})
    /\ reverseSem <= MaxStreams

(***************************************************************************)
(* An initiator hands its TCP client over only to a responder that reached *)
(* the target and said so: there is no Pipe on one side after a refusal on *)
(* the other, however deadlines, answers and lost tunnels interleave.      *)
(***************************************************************************)
PipedTogether ==
    \A s \in Sessions :
      /\ ini[s] = "piping" => reply[s] = "ok" /\ IsOpen(s)
      /\ rsp[s] = "piping" => reply[s] = "ok"
      /\ reply[s] = "error" => rsp[s] \in {"none", "answered"}

(***************************************************************************)
(* The help text of --max-streams calls it the "maximum concurrent         *)
(* streams" (cmd/mule/main.go): when nobody is using a stream of an agent, *)
(* none counts against the limit.                                          *)
(***************************************************************************)
LimitIsOnConcurrency ==
    \A l \in Lanes :
      (\A s \in Sessions : Lane(s) = l => ini[s] = "idle" /\ rsp[s] = "none")
        => credit[l] = 0

(***************************************************************************)
(* Every handshake ends: the client is served or let go, whether or not    *)
(* the other side answers.                                                 *)
(***************************************************************************)
HandshakeEnds ==
    \A s \in Sessions :
      ini[s] \in {"lookup", "opening", "waiting"} ~> ini[s] \in {"idle", "piping"}
=============================================================================
