----------------------------- MODULE AgentProofs -----------------------------
(***************************************************************************)
(* Proofs about modules Agent and Process, for every set of connections    *)
(* and every pair of delays: first the agent, then the frame around it,    *)
(* what it promises about the exit of the process, and that the agent in   *)
(* it is module Agent, so that the theorems about the agent hold in it.    *)
(***************************************************************************)
EXTENDS Process, TLAPS

-----------------------------------------------------------------------------
(* The backoff *)

(***************************************************************************)
(* The limit is a duration, at least as long as the configured delay.      *)
(***************************************************************************)
LEMMA DelayLimitType ==
    DelayLimit \in Nat /\ ReconnectDelay <= DelayLimit
BY DelayAssumption DEF DelayLimit

(***************************************************************************)
(* nextReconnectDelay keeps a delay between the configured one and the     *)
(* limit, because it doubles only what is at most half of the limit.       *)
(***************************************************************************)
LEMMA NextDelayBounded ==
    ASSUME NEW d \in Nat, ReconnectDelay <= d, d <= DelayLimit
    PROVE  /\ nextReconnectDelay(d) \in Nat
           /\ ReconnectDelay <= nextReconnectDelay(d)
           /\ nextReconnectDelay(d) <= DelayLimit
<1>1. CASE d >= DelayLimit \/ d > DelayLimit \div 2
  BY <1>1, DelayLimitType DEF nextReconnectDelay
<1>2. CASE ~(d >= DelayLimit \/ d > DelayLimit \div 2)
  <2>1. nextReconnectDelay(d) = d * 2
    BY <1>2 DEF nextReconnectDelay
  <2>2. d <= DelayLimit \div 2
    BY <1>2, DelayLimitType
  <2>3. 2 * (DelayLimit \div 2) <= DelayLimit
    BY DelayLimitType
  <2>4. d * 2 <= DelayLimit /\ d <= d * 2
    BY <2>2, <2>3, DelayLimitType
  <2> QED
    BY <2>1, <2>4, DelayAssumption
<1> QED
  BY <1>1, <1>2

-----------------------------------------------------------------------------
(* Types and the delay *)

(***************************************************************************)
(* The types and the bounds of the delay hold together: the delay stays a  *)
(* natural number because it is bounded.                                   *)
(***************************************************************************)
DelayInv == TypeOK /\ DelayBounded

(***************************************************************************)
(* Every step of the agent keeps the types and the bounds of the delay.    *)
(***************************************************************************)
LEMMA DelayStep == DelayInv /\ [Next]_vars => DelayInv'
<1> SUFFICES ASSUME DelayInv, [Next]_vars PROVE DelayInv'
  OBVIOUS
<1> USE DEF DelayInv, TypeOK, DelayBounded, Optional
<1>1. CASE UNCHANGED vars
  BY <1>1 DEF vars, mainVars, maintainVars
<1>2. ASSUME NEW c \in Conns, DialOK(c) PROVE DelayInv'
  BY <1>2 DEF DialOK, mainVars
<1>3. CASE DialFail \/ setConn \/ Announce \/ clearConn \/ GiveUp
  BY <1>3 DEF DialFail, setConn, Announce, clearConn, GiveUp, mainVars
<1>4. CASE Withdraw
  BY <1>4, DelayLimitType, DelayAssumption DEF Withdraw, mainVars
<1>5. CASE Retry
  <2>1. /\ reconnectDelay' \in Nat
        /\ ReconnectDelay <= reconnectDelay'
        /\ reconnectDelay' <= DelayLimit
    BY <1>5, NextDelayBounded DEF Retry
  <2> QED
    BY <1>5, <2>1 DEF Retry, mainVars
<1>6. CASE TakeConn \/ CloseTaken \/ Signal
  BY <1>6 DEF TakeConn, CloseTaken, Signal, maintainVars
<1>7. ASSUME NEW c \in Conns, Lose(c) PROVE DelayInv'
  BY <1>7 DEF Lose, mainVars, maintainVars
<1> QED
  BY <1>1, <1>2, <1>3, <1>4, <1>5, <1>6, <1>7 DEF Next, Maintain, Main

(***************************************************************************)
(* The delay between two attempts stays between cfg.ReconnectDelay and the *)
(* cap, for every configured delay, one above the cap included.            *)
(***************************************************************************)
THEOREM DelayStaysBounded == Spec => [](TypeOK /\ DelayBounded)
<1>1. Init => DelayInv
  BY DelayLimitType, DelayAssumption
     DEF Init, DelayInv, TypeOK, DelayBounded, Optional
<1> QED
  BY <1>1, DelayStep, PTL DEF Spec, DelayInv

-----------------------------------------------------------------------------
(* The connection *)

(***************************************************************************)
(* The inductive invariant: besides ConnIsCurrent, maintainConnection has  *)
(* a connection while it uses one, and as long as the agent is not told to *)
(* stop nothing but that connection is open and closeConn has not run.     *)
(***************************************************************************)
Using == {"dialled", "set", "accepting", "cleared"}

ConnInv ==
    /\ TypeOK
    /\ pc \in Using => cur \in Conns
    /\ ConnIsCurrent
    /\ ctx = "live" => main = "serving" /\ taken = NoConn
    /\ OneConnection

(***************************************************************************)
(* Every step keeps the agent at one connection, the one it publishes.     *)
(***************************************************************************)
LEMMA ConnStep == ConnInv /\ TypeOK' /\ [Next]_vars => ConnInv'
<1> SUFFICES ASSUME ConnInv, TypeOK', [Next]_vars PROVE ConnInv'
  OBVIOUS
<1> USE NoConnAssumption
    DEF ConnInv, ConnIsCurrent, OneConnection, Using, TypeOK, Optional
<1>1. CASE UNCHANGED vars
  BY <1>1 DEF vars, mainVars, maintainVars
<1>2. ASSUME NEW c \in Conns, DialOK(c) PROVE ConnInv'
  BY <1>2 DEF DialOK, mainVars
<1>3. CASE DialFail \/ setConn \/ Announce \/ GiveUp
  BY <1>3 DEF DialFail, setConn, Announce, GiveUp, mainVars
<1>4. CASE clearConn
  BY <1>4 DEF clearConn, mainVars
<1>5. CASE Withdraw \/ Retry
  BY <1>5 DEF Withdraw, Retry, mainVars
<1>6. CASE TakeConn \/ CloseTaken \/ Signal
  BY <1>6 DEF TakeConn, CloseTaken, Signal, maintainVars
<1>7. ASSUME NEW c \in Conns, Lose(c) PROVE ConnInv'
  BY <1>7 DEF Lose, mainVars, maintainVars
<1> QED
  BY <1>1, <1>2, <1>3, <1>4, <1>5, <1>6, <1>7 DEF Next, Maintain, Main

(***************************************************************************)
(* The combined invariant holds of every behaviour.                        *)
(***************************************************************************)
LEMMA ConnAlways == Spec => []ConnInv
<1>1. Init => ConnInv
  BY DelayAssumption
     DEF Init, ConnInv, ConnIsCurrent, OneConnection, Using, TypeOK, Optional
<1> QED
  BY <1>1, ConnStep, DelayStaysBounded, PTL DEF Spec

(***************************************************************************)
(* getConn never hands out a connection that maintainConnection has left:  *)
(* setConn, clearConn and closeConn keep a.conn equal to the connection    *)
(* being served, or nil.                                                   *)
(***************************************************************************)
THEOREM HandlersGetCurrentConn == Spec => []ConnIsCurrent
BY ConnAlways, PTL DEF ConnInv

(***************************************************************************)
(* Until it is told to stop, the agent has no open connection besides the  *)
(* one it serves: none is left behind by a reconnect.                      *)
(***************************************************************************)
THEOREM AtMostOneConnection == Spec => []OneConnection
BY ConnAlways, PTL DEF ConnInv

-----------------------------------------------------------------------------
(* The process around the agent *)

(***************************************************************************)
(* The inductive invariant.  As long as no signal arrived and the frame    *)
(* still waits, its context is live, so neither Run nor Shutdown can have  *)
(* returned and every result in errCh is an error.                         *)
(***************************************************************************)
Undisturbed ==
    /\ ctx = "live" /\ main = "serving" /\ http # "closing"
    /\ \A i \in 1..Len(errCh) : errCh[i] = "error"

FrameInv ==
    /\ ctx \in {"live", "done"}
    /\ errCh \in Seq(Results)
    /\ signalled \/ proc \in {"selecting", "returning", "exited"}
    /\ ~signalled /\ proc = "selecting" => Undisturbed
    /\ ~signalled /\ proc \in {"returning", "exited"} => result = "error"

(***************************************************************************)
(* Sending an error to errCh keeps it a channel of errors.                 *)
(***************************************************************************)
LEMMA SendError ==
    ASSUME FrameInv, Send("error")
    PROVE  /\ errCh' \in Seq(Results)
           /\ (\A i \in 1..Len(errCh) : errCh[i] = "error")
                => \A i \in 1..Len(errCh') : errCh'[i] = "error"
<1>1. errCh \in Seq(Results) /\ errCh' = Append(errCh, "error")
  BY DEF FrameInv, Send
<1>2. /\ errCh' \in Seq(Results)
      /\ Len(errCh') = Len(errCh) + 1
      /\ \A i \in 1..Len(errCh) : errCh'[i] = errCh[i]
      /\ errCh'[Len(errCh) + 1] = "error"
  BY <1>1 DEF Results
<1> QED
  BY <1>1, <1>2

(***************************************************************************)
(* The actions of the agent leave the frame alone, and the main goroutine  *)
(* moves only once the context is done.                                    *)
(***************************************************************************)
LEMMA AgentKeepsFrame ==
    ASSUME FrameInv, RunAgent \/ MaintainConnection \/ LoseConnection
    PROVE  FrameInv'
<1> USE DEF FrameInv, Undisturbed, frameVars
<1>1. CASE RunAgent
  BY <1>1 DEF RunAgent, Main, TakeConn, CloseTaken
<1>2. CASE MaintainConnection
  <2>1. UNCHANGED <<ctx, main>>
    BY <1>2 DEF MaintainConnection, Maintain, DialOK, DialFail, setConn,
                Announce, clearConn, Withdraw, Retry, GiveUp, mainVars
  <2> QED
    BY <1>2, <2>1 DEF MaintainConnection
<1>3. CASE LoseConnection
  BY <1>3 DEF LoseConnection, Lose, mainVars
<1> QED
  BY <1>1, <1>2, <1>3

(***************************************************************************)
(* Every step of the process keeps the frame's invariant.                  *)
(***************************************************************************)
LEMMA FrameStep == FrameInv /\ [ProcessNext]_processVars => FrameInv'
<1> SUFFICES ASSUME FrameInv, [ProcessNext]_processVars PROVE FrameInv'
  OBVIOUS
<1> USE DEF FrameInv, Undisturbed, vars, mainVars
<1>1. CASE UNCHANGED processVars
  BY <1>1 DEF processVars, frameVars
<1>2. CASE Interrupt
  BY <1>2 DEF Interrupt
<1>3. CASE ListenFails
  BY <1>3, SendError DEF ListenFails
<1>4. CASE Listening
  BY <1>4 DEF Listening
<1>5. CASE RunReturns
  <2>1. signalled \/ proc # "selecting"
    BY <1>5 DEF RunReturns
  <2>2. errCh' \in Seq(Results)
    BY <1>5 DEF RunReturns, Send, Results
  <2> QED
    BY <1>5, <2>1, <2>2 DEF RunReturns
<1>6. CASE ServeFails
  BY <1>6, SendError DEF ServeFails
<1>7. CASE ServeStops
  BY <1>7 DEF ServeStops
<1>8. CASE ServeReturns
  <2>1. signalled \/ proc # "selecting"
    BY <1>8 DEF ServeReturns
  <2>2. errCh' \in Seq(Results)
    BY <1>8 DEF ServeReturns, Send, Results
  <2> QED
    BY <1>8, <2>1, <2>2 DEF ServeReturns
<1>9. CASE ReceiveResult
  <2>1. errCh' \in Seq(Results)
    BY <1>9 DEF ReceiveResult
  <2>2. ~signalled => result' = "error"
    <3>1. 1 \in 1..Len(errCh) /\ result' = errCh[1]
      BY <1>9 DEF ReceiveResult
    <3> QED
      BY <1>9, <3>1 DEF ReceiveResult
  <2> QED
    BY <1>9, <2>1, <2>2 DEF ReceiveResult
<1>10. CASE SeeSignal \/ ShutdownTimeout \/ Exit
  BY <1>10 DEF SeeSignal, ShutdownTimeout, Exit
<1>11. CASE RunAgent \/ MaintainConnection \/ LoseConnection
  BY <1>11, AgentKeepsFrame
<1> QED
  BY <1>1, <1>2, <1>3, <1>4, <1>5, <1>6, <1>7, <1>8, <1>9, <1>10, <1>11
     DEF ProcessNext, Fn, Metrics, Frame

(***************************************************************************)
(* The invariant of the frame holds of every behaviour of the process.     *)
(***************************************************************************)
LEMMA FrameAlways == ProcessSpec => []FrameInv
<1>1. ProcessInit => FrameInv
  BY DEF ProcessInit, Init, FrameInv, Undisturbed, Results
<1> QED
  BY <1>1, FrameStep, PTL DEF ProcessSpec

(***************************************************************************)
(* A process that nobody told to stop never exits with success: without a  *)
(* signal the first result that runWithMetrics can receive is an error.    *)
(***************************************************************************)
THEOREM ExitWithoutSignalFails == ProcessSpec => []UnexpectedExitFails
<1>1. FrameInv => UnexpectedExitFails
  BY DEF FrameInv, UnexpectedExitFails
<1> QED
  BY <1>1, FrameAlways, PTL

(***************************************************************************)
(* What happens to the agent inside the process is a behaviour of module   *)
(* Agent: a signal, or the frame's cancel after a first result, is its     *)
(* Signal, and everything else the frame does is invisible to it.          *)
(***************************************************************************)
THEOREM ProcessRunsAgent == ProcessSpec => Spec
<1>1. ProcessInit => Init
  BY DEF ProcessInit
<1>2. FrameInv /\ [ProcessNext]_processVars => [Next]_vars
  <2> SUFFICES ASSUME FrameInv, [ProcessNext]_processVars PROVE [Next]_vars
    OBVIOUS
  <2>1. CASE UNCHANGED processVars
    BY <2>1 DEF processVars
  <2>2. CASE RunAgent \/ MaintainConnection \/ LoseConnection
    BY <2>2 DEF RunAgent, MaintainConnection, LoseConnection, Next
  <2>3. CASE Interrupt \/ ReceiveResult
    <3>1. /\ ctx' = "done"
          /\ UNCHANGED <<link, main, taken, maintainVars, conn>>
      BY <2>3 DEF Interrupt, ReceiveResult
    <3>2. CASE ctx = "live"
      BY <3>1, <3>2 DEF Signal, Next
    <3>3. CASE ctx = "done"
      BY <3>1, <3>3 DEF vars, mainVars
    <3> QED
      BY <3>2, <3>3 DEF FrameInv
  <2>4. CASE \/ ListenFails \/ Listening \/ RunReturns
             \/ ServeFails \/ ServeStops \/ ServeReturns
             \/ SeeSignal \/ ShutdownTimeout \/ Exit
    BY <2>4 DEF ListenFails, Listening, RunReturns, ServeFails, ServeStops,
                ServeReturns, SeeSignal, ShutdownTimeout, Exit
  <2> QED
    BY <2>1, <2>2, <2>3, <2>4 DEF ProcessNext, Fn, Metrics, Frame
<1> QED
  BY <1>1, <1>2, FrameAlways, PTL DEF ProcessSpec, Spec

(***************************************************************************)
(* Hence in the process, too, the reconnect delay stays within its bounds, *)
(* the TCP handlers get the connection being served, and until the context *)
(* is done there is no other.                                              *)
(***************************************************************************)
THEOREM AgentInProcess ==
    ProcessSpec => [](DelayBounded /\ ConnIsCurrent /\ OneConnection)
BY ProcessRunsAgent, DelayStaysBounded, HandlersGetCurrentConn,
   AtMostOneConnection, PTL
==============================================================================
