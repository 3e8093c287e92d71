----------------------------- MODULE WsDeadline -----------------------------
(***************************************************************************)
(* run_ws_deadline (src/src/Network/WsDeadline.hpp): one asynchronous      *)
(* WebSocket operation run to its end, or to an absolute deadline, on an   *)
(* io_context that one thread drives with run_one().                       *)
(*                                                                         *)
(* The operation and the timer each owe one handler.  A handler is first   *)
(* waiting for its event, then ready to be run, and the caller decides     *)
(* nothing about the order in which ready handlers run.  A session makes   *)
(* calls one after the other on the same stream until one of them fails.   *)
(***************************************************************************)
EXTENDS Naturals

CONSTANT MaxLeft    \* bound: the longest time a caller gives an operation

ASSUME MaxLeftAssumption == MaxLeft \in Nat \ {0}

\* How the network, or the close of the socket, ends an operation.
OpError == {"ok", "retryable", "fatal", "aborted"}

Handler == [phase : {"none", "waiting", "ready"}, error : OpError]
None    == [phase |-> "none", error |-> "ok"]
Waiting == [phase |-> "waiting", error |-> "ok"]
Ready(error) == [phase |-> "ready", error |-> error]

VARIABLES
  call,                \* idle, armed (timer started), looping, unwinding
  left,                \* time from now to the deadline; 0 once it has passed
  socket_open,
  op,                  \* the handler of the operation
  timer,               \* the handler of the timer; "aborted" if cancelled
  operation_complete,
  timer_complete,
  timed_out,
  result,
  outcome,             \* what the last call returned or threw
  finished_left        \* ghost: left when the operation's handler ran

flags == <<operation_complete, timer_complete, timed_out, result>>
call_vars == <<call, left, socket_open, op, timer, flags, outcome, finished_left>>

CallInit ==
  /\ call = "idle"
  /\ left = 0
  /\ socket_open = TRUE
  /\ op = None
  /\ timer = None
  /\ operation_complete = FALSE
  /\ timer_complete = FALSE
  /\ timed_out = FALSE
  /\ result = "ok"
  /\ outcome = "ok"
  /\ finished_left = 1

-----------------------------------------------------------------------------
\* cancel() closes the socket: an operation still waiting is aborted, one whose
\* completion is already queued keeps its result.
Closed(handler) == IF handler.phase = "waiting" THEN Ready("aborted") ELSE handler

\* timer.cancel(): too late for a handler that is already queued.
Cancelled(handler) == IF handler.phase = "waiting" THEN Ready("aborted") ELSE handler

\* Faulty variant: a call that comes too late leaves the socket open.
CallExpired_KeepsSocket ==
  /\ call = "idle"
  /\ outcome = "ok"
  /\ outcome' = "timed_out"
  /\ left' = 0
  /\ UNCHANGED <<call, socket_open, op, timer, flags, finished_left>>

\* A call whose deadline has passed closes the socket and starts nothing.
CallExpired ==
  /\ call = "idle"
  /\ outcome = "ok"
  /\ socket_open' = FALSE
  /\ op' = Closed(op)
  /\ outcome' = "timed_out"
  /\ left' = 0
  /\ UNCHANGED <<call, timer, flags, finished_left>>

Call(d) ==
  /\ call = "idle"
  /\ outcome = "ok"
  /\ left' = d
  /\ timer' = Waiting
  /\ operation_complete' = FALSE
  /\ timer_complete' = FALSE
  /\ timed_out' = FALSE
  /\ result' = "ok"
  /\ call' = "armed"
  /\ UNCHANGED <<socket_open, op, outcome, finished_left>>

StartOperation ==
  /\ call = "armed"
  /\ op' = Waiting
  /\ call' = "looping"
  /\ UNCHANGED <<left, socket_open, timer, flags, outcome, finished_left>>

\* The initiating function throws before its operation exists.
StartThrows ==
  /\ call = "armed"
  /\ socket_open' = FALSE
  /\ op' = Closed(op)
  /\ timer' = Cancelled(timer)
  /\ call' = "unwinding"
  /\ UNCHANGED <<left, flags, outcome, finished_left>>

-----------------------------------------------------------------------------
\* The outside world.
CallTick ==
  /\ call # "idle"
  /\ left > 0
  /\ left' = left - 1
  /\ UNCHANGED <<call, socket_open, op, timer, flags, outcome, finished_left>>

TimerExpires ==
  /\ left = 0
  /\ timer.phase = "waiting"
  /\ timer' = Ready("ok")
  /\ UNCHANGED <<call, left, socket_open, op, flags, outcome, finished_left>>

\* The peer, the transport or Beast's idle timer ends the operation.
OperationEnds(error) ==
  /\ op.phase = "waiting"
  /\ op' = Ready(error)
  /\ UNCHANGED <<call, left, socket_open, timer, flags, outcome, finished_left>>

-----------------------------------------------------------------------------
\* Faulty variant: the completion does not look at the clock.
Late_NotChecked == FALSE

\* run_one() runs the handler of the operation.
Late == left = 0

RunOperation ==
  /\ call = "looping"
  /\ op.phase = "ready"
  /\ result' = op.error
  /\ timed_out' = (timed_out \/ Late)
  /\ socket_open' = (socket_open /\ ~Late)
  /\ operation_complete' = TRUE
  /\ op' = None
  /\ timer' = Cancelled(timer)
  /\ finished_left' = left
  /\ UNCHANGED <<call, left, timer_complete, outcome>>

\* Faulty variant: the timer only notes that it ran.
TimerFires_Never == FALSE

\* run_one() runs the handler of the timer.
TimerFires == timer.error = "ok" /\ ~operation_complete

RunTimer ==
  /\ call \in {"looping", "unwinding"}
  /\ timer.phase = "ready"
  /\ timer_complete' = TRUE
  /\ timer' = None
  /\ timed_out' = (timed_out \/ TimerFires)
  /\ socket_open' = (socket_open /\ ~TimerFires)
  /\ op' = IF TimerFires THEN Closed(op) ELSE op
  /\ UNCHANGED <<call, left, operation_complete, result, outcome, finished_left>>

\* Faulty variant: the loop ends with the operation.
Drained_OperationOnly == operation_complete

\* The loop ends when both handlers have run.
Drained == operation_complete /\ timer_complete

Return ==
  /\ call = "looping"
  /\ Drained
  /\ outcome' = IF timed_out THEN "timed_out" ELSE result
  /\ call' = "idle"
  /\ UNCHANGED <<left, socket_open, op, timer, flags, finished_left>>

Rethrow ==
  /\ call = "unwinding"
  /\ timer_complete
  /\ outcome' = "exception"
  /\ call' = "idle"
  /\ UNCHANGED <<left, socket_open, op, timer, flags, finished_left>>

\* The caller closes a failed stream and, if it goes on, opens a new one.
Reopen ==
  /\ call = "idle"
  /\ outcome # "ok"
  /\ outcome' = "ok"
  /\ socket_open' = TRUE
  /\ finished_left' = 1
  /\ UNCHANGED <<call, left, op, timer, flags>>

CallNext ==
  \/ CallExpired
  \/ \E d \in 1 .. MaxLeft : Call(d)
  \/ StartOperation
  \/ StartThrows
  \/ CallTick
  \/ TimerExpires
  \/ \E error \in OpError \ {"aborted"} : OperationEnds(error)
  \/ RunOperation
  \/ RunTimer
  \/ Return
  \/ Rethrow
  \/ Reopen

\* The clock runs, an expired timer is noticed, and the caller keeps driving
\* the context.  The network is under no obligation: OperationEnds is not fair.
CallFairness ==
  /\ WF_call_vars(StartOperation)
  /\ WF_call_vars(CallTick)
  /\ WF_call_vars(TimerExpires)
  /\ WF_call_vars(RunOperation)
  /\ WF_call_vars(RunTimer)
  /\ WF_call_vars(Return)
  /\ WF_call_vars(Rethrow)

CallSpec == CallInit /\ [][CallNext]_call_vars /\ CallFairness

-----------------------------------------------------------------------------
(* Properties *)

CallTypeOK ==
  /\ call \in {"idle", "armed", "looping", "unwinding"}
  /\ left \in 0 .. MaxLeft
  /\ socket_open \in BOOLEAN
  /\ op \in Handler
  /\ timer \in Handler
  /\ operation_complete \in BOOLEAN
  /\ timer_complete \in BOOLEAN
  /\ timed_out \in BOOLEAN
  /\ result \in OpError
  /\ outcome \in OpError \cup {"timed_out", "exception"}
  /\ finished_left \in Nat

\* When the call returns or throws, neither its operation nor its timer can
\* still run a handler: both borrow buffers and variables of its frame.
NothingOutlivesTheCall ==
  call = "idle" => op.phase = "none" /\ timer.phase = "none"

\* What a call reports is so, whichever handler was queued first.  After a
\* success the operation was finished before the deadline and the stream is
\* usable; after a timeout, or an exception, the socket is closed, so that no
\* byte of the abandoned operation can be taken for an answer to a later one.
OutcomeIsTrue ==
  call = "idle" =>
    /\ outcome = "ok" => socket_open /\ finished_left > 0
    /\ outcome \in {"timed_out", "exception"} => ~socket_open

\* Inductive: what each place of the caller says of the two handlers, of the
\* flags and of the socket.
IdleInv ==
  call = "idle" =>
    /\ NothingOutlivesTheCall
    /\ OutcomeIsTrue

ArmedInv ==
  call = "armed" =>
    /\ op.phase = "none" /\ timer.phase # "none"
    /\ ~operation_complete /\ ~timer_complete /\ ~timed_out
    /\ socket_open

LoopingInv ==
  call = "looping" =>
    /\ operation_complete <=> op.phase = "none"
    /\ timer_complete <=> timer.phase = "none"
    /\ timed_out <=> ~socket_open
    /\ operation_complete /\ ~timed_out => finished_left > 0

UnwindingInv ==
  call = "unwinding" =>
    /\ op.phase = "none"
    /\ timer_complete <=> timer.phase = "none"
    /\ ~socket_open

CallInv ==
  /\ CallTypeOK
  /\ IdleInv
  /\ ArmedInv
  /\ LoopingInv
  /\ UnwindingInv

\* Every call comes back, even if the peer never says another word.
EveryCallReturns == (call # "idle") ~> (call = "idle")
=============================================================================
