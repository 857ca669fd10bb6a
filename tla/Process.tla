------------------------------- MODULE Process -------------------------------
(***************************************************************************)
(* An agent process: runWithMetrics (cmd/mule/main.go) starts the metrics  *)
(* server (metrics.Serve), if it is configured, and the agent's Run, each  *)
(* in a goroutine that sends its result to errCh, and ends the process on  *)
(* the first result, or after a signal on the next result or a timeout.    *)
(*                                                                         *)
(* The agent is module Agent, started and stopped by this frame: its ctx   *)
(* is the context runWithMetrics derives from the signal's.  When the      *)
(* process exits its goroutines stop where they are.                       *)
(***************************************************************************)
EXTENDS Agent, Sequences

VARIABLES
    proc,         \* where runWithMetrics is
    signalled,    \* signalCtx is done
    fn,           \* where the goroutine is that runs the agent
    http,         \* where the goroutine is that runs metrics.Serve
    errCh,        \* the channel of results, of capacity 2
    result        \* what runWithMetrics returned

frameVars == <<proc, signalled, fn, http, errCh, result>>
processVars == <<vars, frameVars>>

Results == {"nil", "error"}

(***************************************************************************)
(* proc:  "selecting", "draining" after the signal, "returning", "exited". *)
(* fn:    "starting", while Run binds its listeners; "running"; "sent".    *)
(* http:  "off"; "serving"; "closing", in Shutdown; "sent".                *)
(***************************************************************************)
ProcessTypeOK ==
    /\ TypeOK
    /\ proc \in {"selecting", "draining", "returning", "exited"}
    /\ signalled \in BOOLEAN
    /\ fn \in {"starting", "running", "sent"}
    /\ http \in {"off", "serving", "closing", "sent"}
    /\ errCh \in Seq(Results) /\ Len(errCh) <= 2
    /\ result \in Results \cup {"none"}

(* With or without MetricsListen. *)
ProcessInit ==
    /\ Init
    /\ proc = "selecting"
    /\ signalled = FALSE
    /\ fn = "starting"
    /\ http \in {"off", "serving"}
    /\ errCh = <<>>
    /\ result = "none"

Alive == proc # "exited"

Send(r) == errCh' = Append(errCh, r)

-----------------------------------------------------------------------------
(* The environment *)

(* SIGINT or SIGTERM: signalCtx and the ctx derived from it are done. *)
Interrupt ==
    /\ Alive /\ ~signalled
    /\ signalled' = TRUE
    /\ ctx' = "done"
    /\ UNCHANGED <<link, main, taken, maintainVars, conn,
                   proc, fn, http, errCh, result>>

(* The agent's side of a connection ends. *)
LoseConnection ==
    /\ Alive /\ \E c \in Conns : Lose(c)
    /\ UNCHANGED frameVars

-----------------------------------------------------------------------------
(* The goroutine of Run *)

(* Run could not bind one of its forward listeners. *)
ListenFails ==
    /\ Alive /\ fn = "starting"
    /\ Send("error")
    /\ fn' = "sent"
    /\ UNCHANGED <<vars, proc, signalled, http, result>>

Listening ==
    /\ Alive /\ fn = "starting"
    /\ fn' = "running"
    /\ UNCHANGED <<vars, proc, signalled, http, errCh, result>>

(* Run and its deferred call, after the listeners. *)
RunAgent ==
    /\ Alive /\ fn = "running"
    /\ Main
    /\ UNCHANGED frameVars

(* maintainConnection; Run does not wait for it. *)
MaintainConnection ==
    /\ Alive /\ fn # "starting" /\ ~(fn = "sent" /\ main = "serving")
    /\ Maintain
    /\ UNCHANGED frameVars

(* Run has returned nil. *)
RunReturns ==
    /\ Alive /\ fn = "running" /\ main = "returned"
    /\ Send("nil")
    /\ fn' = "sent"
    /\ UNCHANGED <<vars, proc, signalled, http, result>>

-----------------------------------------------------------------------------
(* The goroutine of metrics.Serve *)

(* Mutant of ServeFails: any end of ListenAndServe is taken for a close. *)
ServeFailsQuietly ==
    /\ Alive /\ http = "serving"
    /\ Send("nil")
    /\ http' = "sent"
    /\ UNCHANGED <<vars, proc, signalled, fn, result>>

(* ListenAndServe cannot bind, or fails later. *)
ServeFails ==
    /\ Alive /\ http = "serving"
    /\ Send("error")
    /\ http' = "sent"
    /\ UNCHANGED <<vars, proc, signalled, fn, result>>

(* Serve sees that ctx is done and calls Shutdown. *)
ServeStops ==
    /\ Alive /\ http = "serving" /\ ctx = "done"
    /\ http' = "closing"
    /\ UNCHANGED <<vars, proc, signalled, fn, errCh, result>>

(* What ListenAndServe returned: ErrServerClosed, or an earlier failure. *)
ServeReturns ==
    /\ Alive /\ http = "closing"
    /\ \E r \in Results : Send(r)
    /\ http' = "sent"
    /\ UNCHANGED <<vars, proc, signalled, fn, result>>

-----------------------------------------------------------------------------
(* runWithMetrics *)

(* Mutant of ReceiveResult: only the timer ends the wait after a signal. *)
ReceiveResultOnce ==
    /\ proc = "selecting" /\ errCh # <<>>
    /\ result' = Head(errCh)
    /\ errCh' = Tail(errCh)
    /\ proc' = "returning"
    /\ ctx' = "done"
    /\ UNCHANGED <<link, main, taken, maintainVars, conn, signalled, fn, http>>

(* Either select takes a result; cancel. *)
ReceiveResult ==
    /\ proc \in {"selecting", "draining"} /\ errCh # <<>>
    /\ result' = Head(errCh)
    /\ errCh' = Tail(errCh)
    /\ proc' = "returning"
    /\ ctx' = "done"
    /\ UNCHANGED <<link, main, taken, maintainVars, conn, signalled, fn, http>>

(* The first select sees the signal; cancel, and start the timer. *)
SeeSignal ==
    /\ proc = "selecting" /\ signalled
    /\ proc' = "draining"
    /\ UNCHANGED <<vars, signalled, fn, http, errCh, result>>

(* No result within ShutdownTimeout. *)
ShutdownTimeout ==
    /\ proc = "draining"
    /\ result' = "error"
    /\ proc' = "returning"
    /\ UNCHANGED <<vars, signalled, fn, http, errCh>>

(* runWithMetrics returns, and main with it. *)
Exit ==
    /\ proc = "returning"
    /\ proc' = "exited"
    /\ UNCHANGED <<vars, signalled, fn, http, errCh, result>>

-----------------------------------------------------------------------------
(* The specification *)

Fn      == ListenFails \/ Listening \/ RunAgent \/ RunReturns
Metrics == ServeFails \/ ServeStops \/ ServeReturns
Frame   == ReceiveResult \/ SeeSignal \/ Exit

ProcessNext ==
    \/ Fn \/ MaintainConnection
    \/ Metrics
    \/ Frame \/ ShutdownTimeout
    \/ Interrupt \/ LoseConnection

(***************************************************************************)
(* Every goroutine runs; a dial returns within ConnectTimeout, one way or  *)
(* the other, and the reconnect timer fires.  Shutdown has a deadline of   *)
(* five seconds.  The failure of ListenAndServe is the environment's, and  *)
(* nothing relies on the timer of ShutdownTimeout.                         *)
(***************************************************************************)
ProcessFairness ==
    /\ WF_processVars(Fn)
    /\ WF_processVars(MaintainConnection)
    /\ WF_processVars(ServeStops \/ ServeReturns)
    /\ WF_processVars(Frame)

ProcessSpec == ProcessInit /\ [][ProcessNext]_processVars /\ ProcessFairness

-----------------------------------------------------------------------------
(* Properties *)

(***************************************************************************)
(* A process nobody told to stop exits with an error, whichever of its two *)
(* goroutines ends first and although the frame then cancels the other: a  *)
(* unit with Restart=on-failure (deployment/systemd) brings it back.       *)
(***************************************************************************)
UnexpectedExitFails ==
    proc = "exited" /\ ~signalled => result = "error"

(***************************************************************************)
(* A signal ends the process wherever its goroutines are, also while they  *)
(* still start or fail, and without waiting for the shutdown timeout.      *)
(***************************************************************************)
SignalEndsProcess == signalled ~> proc = "exited"
==============================================================================
