-------------------------------- MODULE Agent --------------------------------
(***************************************************************************)
(* The agent's connection maintenance (internal/agent/agent.go): the       *)
(* goroutine maintainConnection that dials the server, publishes the       *)
(* connection for the TCP handlers, waits for its end and backs off, and   *)
(* the main goroutine of Run that closes it on shutdown.  Both touch       *)
(* a.conn under a.mu.                                                      *)
(*                                                                         *)
(* The network decides whether a dial succeeds (DialOK, DialFail) and when *)
(* the agent's side of the connection dies (Lose: closed by the server or  *)
(* idle timeout).  A duration is a natural number of some unit.            *)
(***************************************************************************)
EXTENDS Integers

CONSTANTS
    Conns,               \* QUIC connections
    NoConn,              \* "no connection", Go's nil
    ReconnectDelay,      \* cfg.ReconnectDelay
    MaxReconnectDelay    \* maxReconnectDelay, one minute

ASSUME NoConnAssumption == NoConn \notin Conns
ASSUME DelayAssumption ==
    ReconnectDelay \in Nat \ {0} /\ MaxReconnectDelay \in Nat \ {0}

VARIABLES
    link,              \* is the agent's side of the connection open?
    ctx,               \* the context of Run: "live" or "done"
    main,              \* where the main goroutine of Run is
    taken,             \* closeConn's local variable
    pc,                \* where maintainConnection is
    cur,               \* its local variable conn
    conn,              \* a.conn
    reconnectDelay,    \* its local variable
    status             \* metrics: the gauge and the connected flag, in step

mainVars     == <<ctx, main, taken>>
maintainVars == <<pc, cur, reconnectDelay, status>>
vars == <<link, mainVars, maintainVars, conn>>

-----------------------------------------------------------------------------
(* Types and helpers *)

Optional == Conns \cup {NoConn}

(* nextReconnectDelay's limit. *)
DelayLimit ==
    IF ReconnectDelay > MaxReconnectDelay THEN ReconnectDelay
                                          ELSE MaxReconnectDelay

(* Mutant of nextReconnectDelay: no test against half the limit. *)
nextReconnectDelayOvershooting(current) ==
    IF current >= DelayLimit THEN DelayLimit ELSE current * 2

(* Mutant of nextReconnectDelay: no growth. *)
nextReconnectDelayConstant(current) == current

nextReconnectDelay(current) ==
    IF current >= DelayLimit \/ current > DelayLimit \div 2
      THEN DelayLimit
      ELSE current * 2

(***************************************************************************)
(* main:  "serving"; "closing" and "closingAgain", inside closeConn after  *)
(* the lock, called first from Run's body and then from its deferred call; *)
(* "deferred" in between; "returned".                                      *)
(* pc:  "dialing"; "dialled", before setConn; "set", before the metrics;   *)
(* "accepting", in acceptReverse; "cleared", after clearConn; "waiting",   *)
(* in waitForReconnect; "exited".                                          *)
(***************************************************************************)
TypeOK ==
    /\ link \in [Conns -> {"up", "down"}]
    /\ ctx \in {"live", "done"}
    /\ main \in {"serving", "closing", "deferred", "closingAgain", "returned"}
    /\ taken \in Optional
    /\ pc \in {"dialing", "dialled", "set", "accepting", "cleared",
               "waiting", "exited"}
    /\ cur \in Optional
    /\ conn \in Optional
    /\ reconnectDelay \in Nat
    /\ status \in {"connected", "disconnected"}

Init ==
    /\ link = [c \in Conns |-> "down"]
    /\ ctx = "live"
    /\ main = "serving"
    /\ taken = NoConn
    /\ pc = "dialing"
    /\ cur = NoConn
    /\ conn = NoConn
    /\ reconnectDelay = ReconnectDelay
    /\ status = "disconnected"

-----------------------------------------------------------------------------
(* The environment *)

(* The agent's side of c ends. *)
Lose(c) ==
    /\ link[c] = "up"
    /\ link' = [link EXCEPT ![c] = "down"]
    /\ UNCHANGED <<mainVars, maintainVars, conn>>

(* The context of Run is cancelled (SIGINT, SIGTERM). *)
Signal ==
    /\ ctx = "live"
    /\ ctx' = "done"
    /\ UNCHANGED <<link, main, taken, maintainVars, conn>>

-----------------------------------------------------------------------------
(* maintainConnection *)

(* dial succeeds on a connection nothing refers to yet. *)
DialOK(c) ==
    /\ pc = "dialing"
    /\ link[c] = "down" /\ c # taken
    /\ link' = [link EXCEPT ![c] = "up"]
    /\ cur' = c
    /\ pc' = "dialled"
    /\ UNCHANGED <<mainVars, conn, reconnectDelay, status>>

(* dial fails: refused, timed out, or ctx is done. *)
DialFail ==
    /\ pc = "dialing"
    /\ pc' = "waiting"
    /\ UNCHANGED <<link, mainVars, cur, conn, reconnectDelay, status>>

setConn ==
    /\ pc = "dialled"
    /\ conn' = cur
    /\ pc' = "set"
    /\ UNCHANGED <<link, mainVars, cur, reconnectDelay, status>>

(* QUICConnections.Add(1), SetAgentConnected(true); into acceptReverse. *)
Announce ==
    /\ pc = "set"
    /\ status' = "connected"
    /\ pc' = "accepting"
    /\ UNCHANGED <<link, mainVars, cur, conn, reconnectDelay>>

(* Mutant of clearConn: a.conn is left set. *)
clearConnKeeping ==
    /\ pc = "accepting"
    /\ link[cur] = "down" \/ ctx = "done"
    /\ pc' = "cleared"
    /\ UNCHANGED <<link, mainVars, cur, conn, reconnectDelay, status>>

(* Mutant of clearConn: acceptReverse may return on a live connection. *)
clearConnEarly ==
    /\ pc = "accepting"
    /\ conn' = IF conn = cur THEN NoConn ELSE conn
    /\ pc' = "cleared"
    /\ UNCHANGED <<link, mainVars, cur, reconnectDelay, status>>

(* acceptReverse returns: the connection is dead or ctx done; clearConn. *)
clearConn ==
    /\ pc = "accepting"
    /\ link[cur] = "down" \/ ctx = "done"
    /\ conn' = IF conn = cur THEN NoConn ELSE conn
    /\ pc' = "cleared"
    /\ UNCHANGED <<link, mainVars, cur, reconnectDelay, status>>

(* Mutant of Withdraw: the loop ends with its connection. *)
WithdrawAndExit ==
    /\ pc = "cleared"
    /\ status' = "disconnected"
    /\ cur' = NoConn
    /\ pc' = "exited"
    /\ UNCHANGED <<link, mainVars, conn, reconnectDelay>>

(* The metrics again, and the delay after a connection of stable age. *)
Withdraw ==
    /\ pc = "cleared"
    /\ status' = "disconnected"
    /\ reconnectDelay' \in {reconnectDelay, ReconnectDelay}
    /\ cur' = NoConn
    /\ pc' = "waiting"
    /\ UNCHANGED <<link, mainVars, conn>>

(* waitForReconnect: the timer fires; then the condition of the loop. *)
Retry ==
    /\ pc = "waiting"
    /\ reconnectDelay' = nextReconnectDelay(reconnectDelay)
    /\ pc' = IF ctx = "live" THEN "dialing" ELSE "exited"
    /\ UNCHANGED <<link, mainVars, cur, conn, status>>

(* waitForReconnect: ctx is done. *)
GiveUp ==
    /\ pc = "waiting" /\ ctx = "done"
    /\ pc' = "exited"
    /\ UNCHANGED <<link, mainVars, cur, conn, reconnectDelay, status>>

-----------------------------------------------------------------------------
(* The main goroutine of Run *)

(* closeConn while it holds a.mu, from Run's body and its deferred call. *)
TakeConn ==
    /\ \/ main = "serving" /\ ctx = "done" /\ main' = "closing"
       \/ main = "deferred" /\ main' = "closingAgain"
    /\ taken' = conn
    /\ conn' = NoConn
    /\ UNCHANGED <<link, ctx, maintainVars>>

(* closeConn after it released a.mu. *)
CloseTaken ==
    /\ \/ main = "closing" /\ main' = "deferred"
       \/ main = "closingAgain" /\ main' = "returned"
    /\ link' = [c \in Conns |-> IF c = taken THEN "down" ELSE link[c]]
    /\ taken' = NoConn
    /\ UNCHANGED <<ctx, maintainVars, conn>>

-----------------------------------------------------------------------------
(* The specification *)

Maintain ==
    \/ (\E c \in Conns : DialOK(c)) \/ DialFail
    \/ setConn \/ Announce \/ clearConn \/ Withdraw
    \/ Retry \/ GiveUp

Main == TakeConn \/ CloseTaken

Next == Maintain \/ Main \/ Signal \/ \E c \in Conns : Lose(c)

Spec == Init /\ [][Next]_vars

-----------------------------------------------------------------------------
(* Safety *)

(***************************************************************************)
(* README.md: reconnects back off from `reconnect-delay` and are capped.   *)
(* The delay never falls below the configured one nor exceeds the cap      *)
(* (the larger of the two when the configured delay is above the cap), so  *)
(* doubling never overshoots and never overflows.                          *)
(***************************************************************************)
DelayBounded ==
    ReconnectDelay <= reconnectDelay /\ reconnectDelay <= DelayLimit

(***************************************************************************)
(* What the TCP handlers get from getConn is the connection                *)
(* maintainConnection is serving: never one it has already abandoned,      *)
(* although closeConn may empty a.conn at any moment.                      *)
(***************************************************************************)
ConnIsCurrent ==
    conn # NoConn => conn = cur /\ pc \in {"set", "accepting"}

(***************************************************************************)
(* While the agent runs it holds one connection at most: whatever is still *)
(* open on its side is the one being served.                               *)
(***************************************************************************)
OneConnection ==
    ctx = "live" =>
      \A c \in Conns : link[c] = "up" =>
        c = cur /\ pc \in {"dialled", "set", "accepting"}

-----------------------------------------------------------------------------
(* Liveness, under the fairness of module Process *)

(***************************************************************************)
(* A lost connection is always followed by a new attempt, unless the agent *)
(* is told to stop.                                                        *)
(***************************************************************************)
Reconnects ==
    (pc = "accepting" /\ link[cur] = "down") ~> (pc = "dialing" \/ ctx = "done")

(***************************************************************************)
(* If from some moment on no dial succeeds, the delay reaches its cap.     *)
(***************************************************************************)
BackoffReachesCap ==
    <>[](ctx = "live" /\ pc \in {"dialing", "waiting"})
      => <>(reconnectDelay = DelayLimit)
==============================================================================
