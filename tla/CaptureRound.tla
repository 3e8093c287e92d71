---------------------------- MODULE CaptureRound ----------------------------
(***************************************************************************)
(* capture_research_bundle and its workers capture_channel                 *)
(* (src/src/Research/ResearchCapture.cpp), with reconnect_wait of          *)
(* src/src/Research/HtxReconnectPolicy.hpp.                                *)
(*                                                                         *)
(* A supervisor runs rounds.  In each it starts one worker per channel,    *)
(* joins them, and at the end asks the bundle writer for its verdict.      *)
(* A worker connects, meets the others at a barrier, records frames until  *)
(* the common deadline and may reconnect a bounded number of times.        *)
(*                                                                         *)
(* Time is what is left: of the round, once a worker has set its deadline, *)
(* and of the operation a worker is blocked in.  The network operations    *)
(* are those of WsDeadline: in time they end in success or an error, and   *)
(* once their time is up they return a (retryable) timeout.                *)
(* sessions holds the rows the workers hand to the writer.  The file has   *)
(* some prefix of them (EvidenceLog), which is why every property of rows  *)
(* here is checked in every state, and all of them if the status is 0.     *)
(***************************************************************************)
EXTENDS Naturals, Sequences, FiniteSets

CONSTANTS
  Channel,      \* the selected channels
  Order,        \* the channels in the order of the profile
  Rounds,       \* --rounds
  Attempts,     \* --attempts: connections a worker may open in a round
  Duration,     \* how long a round captures, in ticks
  Timeout,      \* --timeout, in ticks
  ReadLimit,    \* the 30 s a single read may take, in ticks
  Delay,        \* reconnect delays: 250 to 350 ms, in ticks
  Capturable,   \* channels whose profile can be captured at all
  Subscribing,  \* channels that send a subscription
  Heartbeats,   \* the venue sends application pings (HTX)
  CapturePcap   \* --pcap

\* The admission checks of capture_research_bundle: retries only for channels
\* of the frozen HTX trade scope, which subscribe and can be captured.
ASSUME CaptureAssumption ==
  /\ IsFiniteSet(Channel) /\ Channel # {}
  /\ Order \in [1 .. Cardinality(Channel) -> Channel]
  /\ \A c \in Channel : \E i \in DOMAIN Order : Order[i] = c
  /\ Rounds \in Nat \ {0}
  /\ Attempts \in 1 .. 3
  /\ Duration \in Nat \ {0} /\ Timeout \in Nat \ {0} /\ ReadLimit \in Nat \ {0}
  /\ Delay \subseteq Nat \ {0} /\ Delay # {}
  /\ Capturable \subseteq Channel /\ Subscribing \subseteq Channel
  /\ Attempts > 1 => Capturable = Channel /\ Subscribing = Channel
  /\ Heartbeats \in BOOLEAN /\ CapturePcap \in BOOLEAN

VARIABLES
  \* the supervisor
  main,              \* its program counter
  round,
  next,              \* index of the next worker to start in this round
  start_failed,      \* thread_start_failed
  exit,              \* exit status; "none" while the capture runs
  \* shared by the workers of a round
  barrier,           \* [left, expected, phase] of start_barrier
  round_started,     \* the once_flag
  remaining,         \* time to capture_deadline
  any_failure,
  \* one value per worker
  pc,
  attempt,
  arrival,           \* the barrier phase the worker waits in
  barrier_arrived,
  then,              \* what the worker does once the barrier lets it pass
  left,              \* time to the deadline of the operation it is blocked in
  reconnect_started, \* attempt whose disconnect began the outage; 0: none
  frames_read,       \* whether the worker has read a frame this round
  \* the sessions
  sessions           \* the rows handed to sessions.jsonl, per channel

supervisor == <<main, round, next, start_failed, exit>>
common     == <<barrier, round_started, remaining, any_failure>>
meeting    == <<barrier, arrival, barrier_arrived, then, round_started, remaining>>
vars == <<supervisor, common, pc, attempt, arrival, barrier_arrived, then, left,
          reconnect_started, frames_read, sessions>>

Smaller(a, b) == IF a < b THEN a ELSE b

-----------------------------------------------------------------------------
(* Rows of sessions.jsonl *)

\* The stages a reader tells apart keep their names; "error" stands for the
\* others, the stages at which an attempt fails, and for reconnect_exhausted.
\* attempt and session_generation always agree.  duration is the reconnect
\* duration, named by the attempt whose end it is measured from; 0: no field.
Row(c, stage, ok, duration) ==
  [round |-> round, stage |-> stage, ok |-> ok,
   generation |-> attempt[c], duration |-> duration]

Plain(c, stage, ok) == Row(c, stage, ok, 0)

Record(c, rows) == sessions' = [sessions EXCEPT ![c] = @ \o rows]

-----------------------------------------------------------------------------
(* start_barrier *)

\* One arrival, of a worker or of arrive_and_drop, which also lowers the number
\* expected in the phases to come.
Arrived(b, dropped) ==
  LET expected == b.expected - dropped IN
  IF b.left = 1
    THEN [left |-> expected, expected |-> expected, phase |-> b.phase + 1]
    ELSE [left |-> b.left - 1, expected |-> expected, phase |-> b.phase]

\* Faulty variant: every attempt arrives at the barrier.
Synchronize_EveryAttempt(c, continuation) ==
  /\ left' = [left EXCEPT ![c] = 0]
  /\ pc' = [pc EXCEPT ![c] = "barrier"]
  /\ then' = [then EXCEPT ![c] = continuation]
  /\ arrival' = [arrival EXCEPT ![c] = barrier.phase]
  /\ barrier' = Arrived(barrier, 0)
  /\ UNCHANGED <<barrier_arrived, round_started, remaining>>

\* synchronize_start: a worker that was at the barrier goes straight on.
\* The operation that led here is over, and its deadline with it.
Synchronize(c, continuation) ==
  /\ left' = [left EXCEPT ![c] = 0]
  /\ IF barrier_arrived[c]
       THEN /\ pc' = [pc EXCEPT ![c] = continuation]
            /\ UNCHANGED meeting
       ELSE /\ pc' = [pc EXCEPT ![c] = "barrier"]
            /\ then' = [then EXCEPT ![c] = continuation]
            /\ arrival' = [arrival EXCEPT ![c] = barrier.phase]
            /\ barrier' = Arrived(barrier, 0)
            /\ UNCHANGED <<barrier_arrived, round_started, remaining>>

\* Faulty variant: arriving does not wait for the others.
PassBarrier_DoesNotWait(c) ==
  /\ pc[c] = "barrier"
  /\ barrier_arrived' = [barrier_arrived EXCEPT ![c] = TRUE]
  /\ round_started' = TRUE
  /\ remaining' = IF round_started THEN remaining ELSE Duration
  /\ pc' = [pc EXCEPT ![c] = then[c]]
  /\ then' = [then EXCEPT ![c] = "done"]
  /\ UNCHANGED <<supervisor, barrier, any_failure, attempt, arrival, left,
                 reconnect_started, frames_read, sessions>>

\* Faulty variant: every worker sets the deadline.
PassBarrier_NotOnce(c) ==
  /\ pc[c] = "barrier"
  /\ barrier.phase > arrival[c]
  /\ barrier_arrived' = [barrier_arrived EXCEPT ![c] = TRUE]
  /\ round_started' = TRUE
  /\ remaining' = Duration
  /\ pc' = [pc EXCEPT ![c] = then[c]]
  /\ then' = [then EXCEPT ![c] = "done"]
  /\ UNCHANGED <<supervisor, barrier, any_failure, attempt, arrival, left,
                 reconnect_started, frames_read, sessions>>

\* The barrier lets a worker pass; the first to pass sets the deadline.
PassBarrier(c) ==
  /\ pc[c] = "barrier"
  /\ barrier.phase > arrival[c]
  /\ barrier_arrived' = [barrier_arrived EXCEPT ![c] = TRUE]
  /\ round_started' = TRUE
  /\ remaining' = IF round_started THEN remaining ELSE Duration
  /\ pc' = [pc EXCEPT ![c] = then[c]]
  /\ then' = [then EXCEPT ![c] = "done"]
  /\ UNCHANGED <<supervisor, barrier, any_failure, attempt, arrival, left,
                 reconnect_started, frames_read, sessions>>

-----------------------------------------------------------------------------
(* The worker: one attempt *)

Goto(c, where) == pc' = [pc EXCEPT ![c] = where]

\* A blocking operation begins, with the given time to its deadline.
Block(c, where, time) ==
  /\ Goto(c, where)
  /\ left' = [left EXCEPT ![c] = time]

\* The deadline of a connection: the common one as well, once it exists.
ConnectTime(c) == IF barrier_arrived[c] THEN Smaller(remaining, Timeout) ELSE Timeout

BeginAttempt(c) ==
  /\ pc[c] = "attempt"
  /\ c \in Capturable
  /\ IF barrier_arrived[c] /\ remaining = 0
       THEN Goto(c, "deadline") /\ UNCHANGED left
       ELSE Block(c, "setup", ConnectTime(c))
  /\ UNCHANGED <<supervisor, common, attempt, arrival, barrier_arrived, then,
                 reconnect_started, frames_read, sessions>>

\* A channel that cannot be captured, or no certificate authorities: the row
\* first, then the barrier.
RefuseAttempt(c) ==
  /\ pc[c] = "attempt"
  /\ Record(c, << Plain(c, "error", FALSE) >>)
  /\ Synchronize(c, "fatal")
  /\ UNCHANGED <<supervisor, any_failure, attempt, reconnect_started, frames_read>>

\* resolve, connect, tls_handshake.
SetupSucceeds(c) ==
  /\ pc[c] = "setup"
  /\ Goto(c, "handshake")
  /\ UNCHANGED <<supervisor, common, attempt, arrival, barrier_arrived, then,
                 left, reconnect_started, frames_read, sessions>>

\* No failure before the WebSocket is retried; its row follows the barrier.
SetupFails(c) ==
  /\ pc[c] = "setup"
  /\ Synchronize(c, "fails")
  /\ UNCHANGED <<supervisor, any_failure, attempt, reconnect_started,
                 frames_read, sessions>>

\* How an operation under run_ws_deadline may end.
Outcomes(c) == IF left[c] > 0 THEN {"ok", "retryable", "fatal"} ELSE {"retryable"}

\* Whatever the handshake brings, the worker first joins the start barrier.
HandshakeEnds(c) ==
  /\ pc[c] = "handshake"
  /\ \E end \in Outcomes(c) :
       Synchronize(c, CASE end = "ok"        -> "open"
                        [] end = "retryable" -> "drops"
                        [] OTHER             -> "fails")
  /\ UNCHANGED <<supervisor, any_failure, attempt, reconnect_started,
                 frames_read, sessions>>

\* An error that is not retried.
FailAttempt(c) ==
  /\ pc[c] = "fails"
  /\ Record(c, << Plain(c, "error", FALSE) >>)
  /\ Goto(c, "fatal")
  /\ UNCHANGED <<supervisor, common, attempt, arrival, barrier_arrived, then, left,
                 reconnect_started, frames_read>>

\* Faulty variant: the outage is measured from the latest failure.
DropAttempt_LatestFailure(c) ==
  /\ pc[c] = "drops"
  /\ Record(c, << Plain(c, "error", FALSE), Plain(c, "disconnected", FALSE) >>)
  /\ reconnect_started' = [reconnect_started EXCEPT ![c] = attempt[c]]
  /\ Goto(c, "dropped")
  /\ UNCHANGED <<supervisor, common, attempt, arrival, barrier_arrived, then, left,
                 frames_read>>

\* disconnect(): the session is over, and an outage begins unless one is on.
DropAttempt(c) ==
  /\ pc[c] = "drops"
  /\ Record(c, << Plain(c, "error", FALSE), Plain(c, "disconnected", FALSE) >>)
  /\ reconnect_started' =
       [reconnect_started EXCEPT ![c] = IF @ = 0 THEN attempt[c] ELSE @]
  /\ Goto(c, "dropped")
  /\ UNCHANGED <<supervisor, common, attempt, arrival, barrier_arrived, then, left,
                 frames_read>>

BeginSubscribe(c) ==
  /\ pc[c] = "open"
  /\ IF c \in Subscribing
       THEN Block(c, "subscribing", Smaller(remaining, Timeout))
       ELSE Goto(c, "connected") /\ UNCHANGED left
  /\ UNCHANGED <<supervisor, common, attempt, arrival, barrier_arrived, then,
                 reconnect_started, frames_read, sessions>>

\* Faulty variant: an error is looked at before the round's deadline.
SessionOperationEnds_ErrorFirst(c, where, after) ==
  /\ pc[c] = where
  /\ \E end \in Outcomes(c) :
       \/ end = "ok"        /\ Goto(c, after)
       \/ end = "retryable" /\ Goto(c, "drops")
       \/ end = "fatal"     /\ Goto(c, "fails")
  /\ left' = [left EXCEPT ![c] = 0]
  /\ UNCHANGED <<supervisor, common, attempt, arrival, barrier_arrived, then,
                 reconnect_started, sessions>>

\* An operation of an open session ends.  After an error the round's deadline
\* is looked at first: past it, no error is recorded.
SessionOperationEnds(c, where, after) ==
  /\ pc[c] = where
  /\ \E end \in Outcomes(c) :
       \/ end = "ok"        /\ Goto(c, after)
       \/ end # "ok"        /\ remaining = 0 /\ Goto(c, "deadline")
       \/ end = "retryable" /\ remaining > 0 /\ Goto(c, "drops")
       \/ end = "fatal"     /\ remaining > 0 /\ Goto(c, "fails")
  /\ left' = [left EXCEPT ![c] = 0]
  /\ UNCHANGED <<supervisor, common, attempt, arrival, barrier_arrived, then,
                 reconnect_started, sessions>>

SubscribeEnds(c) ==
  /\ SessionOperationEnds(c, "subscribing", "connected")
  /\ UNCHANGED frames_read

\* Faulty variant: the outage is forgotten before its duration is recorded.
Connected_ResetFirst(c) ==
  /\ pc[c] = "connected"
  /\ Record(c, << Plain(c, "connected", TRUE) >>)
  /\ reconnect_started' = [reconnect_started EXCEPT ![c] = 0]
  /\ Goto(c, "top")
  /\ UNCHANGED <<supervisor, common, attempt, arrival, barrier_arrived, then, left,
                 frames_read>>

\* The session is up: a reconnect duration is recorded if an outage ends here
\* and a subscription was written.
Connected(c) ==
  /\ pc[c] = "connected"
  /\ Record(c, << Row(c, "connected", TRUE,
                      IF c \in Subscribing THEN reconnect_started[c] ELSE 0) >>)
  /\ reconnect_started' = [reconnect_started EXCEPT ![c] = 0]
  /\ Goto(c, "top")
  /\ UNCHANGED <<supervisor, common, attempt, arrival, barrier_arrived, then, left,
                 frames_read>>

\* while (now < capture_deadline)
BeginRead(c) ==
  /\ pc[c] = "top"
  /\ IF remaining > 0
       THEN Block(c, "reading", Smaller(remaining, ReadLimit))
       ELSE Goto(c, "deadline") /\ UNCHANGED left
  /\ UNCHANGED <<supervisor, common, attempt, arrival, barrier_arrived, then,
                 reconnect_started, frames_read, sessions>>

ReadEnds(c) ==
  /\ SessionOperationEnds(c, "reading", "frame")
  /\ UNCHANGED frames_read

\* A frame is handed to the writer.  HTX frames are looked at for a ping, which
\* is answered under its own deadline; one that cannot be decoded is fatal.
TakeFrame(c) ==
  /\ pc[c] = "frame"
  /\ frames_read' = [frames_read EXCEPT ![c] = TRUE]
  /\ \/ Goto(c, "top") /\ UNCHANGED left
     \/ Heartbeats /\ Goto(c, "fails") /\ UNCHANGED left
     \/ Heartbeats /\ Block(c, "ponging", Smaller(remaining, Timeout))
  /\ UNCHANGED <<supervisor, common, attempt, arrival, barrier_arrived, then,
                 reconnect_started, sessions>>

PongEnds(c) ==
  /\ SessionOperationEnds(c, "ponging", "top")
  /\ UNCHANGED frames_read

-----------------------------------------------------------------------------
(* The worker: after an attempt *)

\* Faulty variant: an outage that lasts to the deadline is a success.
AttemptDeadline_OutageIgnored(c) ==
  LET completed == frames_read[c] IN
  /\ pc[c] = "deadline"
  /\ Record(c, << Plain(c, "complete", completed) >>)
  /\ any_failure' = (any_failure \/ ~completed)
  /\ Goto(c, "done")
  /\ UNCHANGED <<supervisor, barrier, round_started, remaining, attempt, arrival,
                 barrier_arrived, then, left, reconnect_started, frames_read>>

\* The round is over for this worker.  It did its work if it read a frame and
\* was not in an outage when the deadline came.
AttemptDeadline(c) ==
  LET completed == frames_read[c] /\ reconnect_started[c] = 0 IN
  /\ pc[c] = "deadline"
  /\ Record(c, << Plain(c, "complete", completed) >>)
  /\ any_failure' = (any_failure \/ ~completed)
  /\ Goto(c, "done")
  /\ UNCHANGED <<supervisor, barrier, round_started, remaining, attempt, arrival,
                 barrier_arrived, then, left, reconnect_started, frames_read>>

AttemptFatal(c) ==
  /\ pc[c] = "fatal"
  /\ any_failure' = TRUE
  /\ Goto(c, "done")
  /\ UNCHANGED <<supervisor, barrier, round_started, remaining, attempt, arrival,
                 barrier_arrived, then, left, reconnect_started, frames_read, sessions>>

\* Faulty variant: only the attempts are counted.
ReconnectWait_Anytime(c, delay) == attempt[c] < Attempts

\* reconnect_wait: an attempt is left, and the round outlasts the delay.
ReconnectWait(c, delay) == attempt[c] < Attempts /\ remaining > delay

AttemptDisconnected(c) ==
  /\ pc[c] = "dropped"
  /\ \E delay \in Delay :
       IF ReconnectWait(c, delay)
         THEN /\ Record(c, << Plain(c, "reconnect_wait", TRUE) >>)
              /\ Block(c, "sleeping", delay)
              /\ UNCHANGED any_failure
         ELSE /\ Record(c, << Plain(c, "error", FALSE) >>)
              /\ any_failure' = TRUE
              /\ Goto(c, "done")
              /\ UNCHANGED left
  /\ UNCHANGED <<supervisor, barrier, round_started, remaining, attempt, arrival,
                 barrier_arrived, then, reconnect_started, frames_read>>

Wake(c) ==
  /\ pc[c] = "sleeping"
  /\ left[c] = 0
  /\ attempt' = [attempt EXCEPT ![c] = @ + 1]
  /\ Goto(c, "attempt")
  /\ UNCHANGED <<supervisor, common, arrival, barrier_arrived, then, left,
                 reconnect_started, frames_read, sessions>>

\* Faulty variant: a worker that throws does not go to the barrier.
Throw_SkipsBarrier(c) ==
  /\ pc[c] \notin {"unstarted", "barrier", "sleeping", "fatal", "done"}
  /\ Record(c, << Plain(c, "error", FALSE) >>)
  /\ any_failure' = TRUE
  /\ Goto(c, "done")
  /\ UNCHANGED <<supervisor, meeting, left, attempt, reconnect_started, frames_read>>

\* An exception (an allocation that fails) in anything but the barrier, the
\* sleep and the return: the row, the failure, and only then the barrier the
\* other workers may be waiting at.
Throw(c) ==
  /\ pc[c] \notin {"unstarted", "barrier", "sleeping", "fatal", "done"}
  /\ Record(c, << Plain(c, "error", FALSE) >>)
  /\ any_failure' = TRUE
  /\ Synchronize(c, "done")
  /\ UNCHANGED <<supervisor, attempt, reconnect_started, frames_read>>

-----------------------------------------------------------------------------
(* The supervisor *)

\* Even rounds start the workers in reverse order.
Starting(index) ==
  Order[IF round % 2 = 0 THEN Cardinality(Channel) + 1 - index ELSE index]

FreshBarrier == [left |-> Cardinality(Channel), expected |-> Cardinality(Channel), phase |-> 0]

Init ==
  /\ main = IF CapturePcap THEN "pcap" ELSE "starting"
  /\ round = 1
  /\ next = 1
  /\ start_failed = FALSE
  /\ exit = "none"
  /\ barrier = FreshBarrier
  /\ round_started = FALSE
  /\ remaining = 0
  /\ any_failure = FALSE
  /\ pc = [c \in Channel |-> "unstarted"]
  /\ attempt = [c \in Channel |-> 1]
  /\ arrival = [c \in Channel |-> 0]
  /\ barrier_arrived = [c \in Channel |-> FALSE]
  /\ then = [c \in Channel |-> "done"]
  /\ left = [c \in Channel |-> 0]
  /\ reconnect_started = [c \in Channel |-> 0]
  /\ frames_read = [c \in Channel |-> FALSE]
  /\ sessions = [c \in Channel |-> << >>]

workers == <<pc, attempt, arrival, barrier_arrived, then, left, reconnect_started, frames_read>>

\* An unsafe host or a dumpcap that does not start ends the capture with
\* finish(false) and status 2, before any worker.
StartPcap ==
  /\ main = "pcap"
  /\ \/ main' = "starting" /\ UNCHANGED exit
     \/ main' = "exited" /\ exit' = "2"
  /\ UNCHANGED <<round, next, start_failed, common, workers, sessions>>

StartWorker ==
  /\ main = "starting"
  /\ next <= Cardinality(Channel)
  /\ pc' = [pc EXCEPT ![Starting(next)] = "attempt"]
  /\ next' = next + 1
  /\ UNCHANGED <<main, round, start_failed, exit, common, attempt, arrival,
                 barrier_arrived, then, left, reconnect_started, frames_read, sessions>>

\* Faulty variant: nobody arrives for the workers that were not started.
StartWorkerFails_NoDrop ==
  /\ main = "starting"
  /\ next <= Cardinality(Channel)
  /\ any_failure' = TRUE
  /\ start_failed' = TRUE
  /\ main' = "joining"
  /\ UNCHANGED <<round, next, exit, barrier, round_started, remaining, workers, sessions>>

\* A thread that cannot be created: no other is started in this round.
StartWorkerFails ==
  /\ main = "starting"
  /\ next <= Cardinality(Channel)
  /\ main' = "dropping"
  /\ UNCHANGED <<round, next, start_failed, exit, common, workers, sessions>>

\* Faulty variant: one arrival too many.
DropWorker_OneTooMany ==
  /\ main = "dropping"
  /\ next <= Cardinality(Channel) + 1
  /\ barrier' = Arrived(barrier, 1)
  /\ next' = next + 1
  /\ UNCHANGED <<main, round, start_failed, exit, round_started, remaining, any_failure,
                 workers, sessions>>

\* The supervisor arrives and drops for each worker it will not start, while
\* those it has started go on.
DropWorker ==
  /\ main = "dropping"
  /\ next <= Cardinality(Channel)
  /\ barrier' = Arrived(barrier, 1)
  /\ next' = next + 1
  /\ UNCHANGED <<main, round, start_failed, exit, round_started, remaining, any_failure,
                 workers, sessions>>

\* The failure is only then recorded.
DroppedAll ==
  /\ main = "dropping"
  /\ next > Cardinality(Channel)
  /\ any_failure' = TRUE
  /\ start_failed' = TRUE
  /\ main' = "joining"
  /\ UNCHANGED <<round, next, exit, barrier, round_started, remaining, workers, sessions>>

StartedAll ==
  /\ main = "starting"
  /\ next > Cardinality(Channel)
  /\ main' = "joining"
  /\ UNCHANGED <<round, next, start_failed, exit, common, workers, sessions>>

Joined == \A c \in Channel : pc[c] \in {"unstarted", "done"}

\* The next round has its own barrier, once_flag, deadline and workers.
NextRound ==
  /\ main = "joining"
  /\ Joined
  /\ ~start_failed
  /\ round < Rounds
  /\ round' = round + 1
  /\ next' = 1
  /\ main' = "starting"
  /\ barrier' = FreshBarrier
  /\ round_started' = FALSE
  /\ remaining' = 0
  /\ pc' = [c \in Channel |-> "unstarted"]
  /\ attempt' = [c \in Channel |-> 1]
  /\ arrival' = [c \in Channel |-> 0]
  /\ barrier_arrived' = [c \in Channel |-> FALSE]
  /\ then' = [c \in Channel |-> "done"]
  /\ left' = [c \in Channel |-> 0]
  /\ reconnect_started' = [c \in Channel |-> 0]
  /\ frames_read' = [c \in Channel |-> FALSE]
  /\ UNCHANGED <<start_failed, exit, any_failure, sessions>>

\* pcap.stop() may fail; then finish(!any_failure).  A capture that did its work
\* and lost nothing still fails if a flush, the manifest or the marker does.
Finish ==
  /\ main = "joining"
  /\ Joined
  /\ start_failed \/ round = Rounds
  /\ any_failure' \in IF CapturePcap THEN {any_failure, TRUE} ELSE {any_failure}
  /\ exit' \in IF ~any_failure' THEN {"0", "1"} ELSE {"1"}
  /\ main' = "exited"
  /\ UNCHANGED <<round, next, start_failed, barrier, round_started, remaining,
                 workers, sessions>>

\* The clock: what is left of the round and of every blocked operation.
Less(n) == IF n = 0 THEN 0 ELSE n - 1

Tick ==
  /\ remaining > 0 \/ \E c \in Channel : left[c] > 0
  /\ remaining' = Less(remaining)
  /\ left' = [c \in Channel |-> Less(left[c])]
  /\ UNCHANGED <<supervisor, barrier, round_started, any_failure, pc, attempt, arrival,
                 barrier_arrived, then, reconnect_started, frames_read, sessions>>

\* A capture that has exited stays so.
Exited == main = "exited" /\ UNCHANGED vars

NetworkOperation(c) ==
  \/ SetupSucceeds(c) \/ SetupFails(c)
  \/ HandshakeEnds(c) \/ SubscribeEnds(c) \/ ReadEnds(c) \/ PongEnds(c)

LocalStep(c) ==
  \/ PassBarrier(c)
  \/ BeginAttempt(c) \/ RefuseAttempt(c)
  \/ FailAttempt(c) \/ DropAttempt(c)
  \/ BeginSubscribe(c) \/ Connected(c) \/ BeginRead(c) \/ TakeFrame(c)
  \/ AttemptDeadline(c) \/ AttemptFatal(c) \/ AttemptDisconnected(c) \/ Wake(c)

SupervisorStep ==
  \/ StartPcap
  \/ StartWorker \/ StartWorkerFails \/ DropWorker \/ DroppedAll \/ StartedAll
  \/ NextRound \/ Finish

Next ==
  \/ SupervisorStep
  \/ \E c \in Channel : NetworkOperation(c) \/ LocalStep(c) \/ Throw(c)
  \/ Tick
  \/ Exited

\* Threads are scheduled and the clock runs.  An operation is only sure to
\* return once its time is up: the network owes nobody an answer.
Fairness ==
  /\ WF_vars(SupervisorStep)
  /\ \A c \in Channel : WF_vars(LocalStep(c))
  /\ \A c \in Channel : WF_vars(left[c] = 0 /\ NetworkOperation(c))
  /\ WF_vars(Tick)

Spec == Init /\ [][Next]_vars /\ Fairness
-----------------------------------------------------------------------------
(* Properties *)

\* Whichever way an attempt ends, a worker arrives at the barrier exactly once
\* and the supervisor for it otherwise: the barrier completes one phase, and
\* nobody is left waiting for, or counted into, a second one.
BarrierIsUsedOnce ==
  /\ barrier.phase <= 1
  /\ barrier.phase = 1 => barrier.left = barrier.expected
  /\ \A c \in Channel : pc[c] = "barrier" => arrival[c] = 0
  /\ \A c \in Channel : pc[c] = "done" => barrier_arrived[c]

Capturing == {"open", "subscribing", "connected", "top", "reading", "frame", "ponging"}

\* No channel captures before every channel of the round has connected, failed
\* or been given up: the workers of a round see the same interval.
NobodyStartsEarly ==
  (\E c \in Channel : pc[c] \in Capturing) =>
    \A d \in Channel :
      /\ pc[d] = "unstarted" => main = "dropping" \/ start_failed
      /\ pc[d] \in {"attempt", "setup", "handshake"} => barrier_arrived[d]

\* Where a worker waits until a time of its own, and the waits of an open session.
SessionWaits == {"subscribing", "reading", "ponging"}
TimedWaits   == {"setup", "handshake", "sleeping"} \cup SessionWaits

\* The deadline of a round holds for all of it: it is set once, by whichever
\* worker leaves the barrier first; no worker that has left the barrier begins
\* to wait, for the peer or for its next attempt, past it; and what ends of an
\* open session when it has come is the end of the round, neither a disconnect
\* nor a fatal error (ResearchCapture.cpp:538, 677, 713, 758,
\* HtxReconnectPolicy.hpp:87).
RoundKeepsItsDeadline ==
  [][/\ round_started /\ round' = round => remaining' <= remaining
     /\ \A c \in Channel :
          /\ pc'[c] \in TimedWaits /\ barrier_arrived'[c] => left'[c] <= remaining'
          /\ pc[c] \in SessionWaits /\ remaining = 0 => pc'[c] \notin {"drops", "fails"}]_vars

\* read_lifecycle's demands on the rows of one channel.
LifecycleAccepts(rows) ==
  /\ \A i \in DOMAIN rows :
       /\ rows[i].generation \in 1 .. 3
       /\ rows[i].stage = "connected" =>
            rows[i].ok /\ (rows[i].generation > 1 <=> rows[i].duration # 0)
       /\ rows[i].stage # "connected" => rows[i].duration = 0
       /\ rows[i].stage = "disconnected" => ~rows[i].ok
  /\ \A i, j \in DOMAIN rows :
       /\ i # j
       /\ rows[i].stage = "connected" /\ rows[j].stage = "connected"
       => \/ rows[i].round # rows[j].round
          \/ rows[i].generation # rows[j].generation

\* Round, stage, outcome, generation and reconnect duration of the rows a worker
\* hands to the writer are such as read_lifecycle accepts, in every order of
\* failures, reconnects and exceptions: a connected row has a duration exactly
\* if it ends an outage, and no session of a channel comes up twice.  A line
\* that a crash tears and the reader's capacities for lines, rows and bytes
\* (Relations.cpp:97, 118, 124, 126) are not judged here.
SessionsAreReadable == \A c \in Channel : LifecycleAccepts(sessions[c])

\* The generations of the sessions a channel opened in a round before row i.
ConnectedBefore(rows, i) ==
  {rows[j].generation : j \in {k \in 1 .. i - 1 :
     rows[k].stage = "connected" /\ rows[k].round = rows[i].round}}

MeasuredWhole(rows) ==
  \A i \in DOMAIN rows :
    LET ups == ConnectedBefore(rows, i)
    IN rows[i].stage = "connected" /\ rows[i].duration # 0 =>
         /\ rows[i].duration \in IF ups = {} THEN {1} ELSE ups
         /\ \A g \in ups : g <= rows[i].duration

\* A recorded reconnect duration covers the whole outage: it runs from the end
\* of the last session that was up, or of the first attempt if none was,
\* however many attempts failed in between.
OutageIsMeasuredWhole == \A c \in Channel : MeasuredWhole(sessions[c])

\* The rows of a round end in a completion, and the last session that came up
\* in it did not go down again.
Earned(rows, r) ==
  LET mine == {i \in DOMAIN rows : rows[i].round = r} IN
  /\ \E i \in mine :
       /\ rows[i].stage = "complete" /\ rows[i].ok
       /\ \A j \in mine : j <= i
  /\ \E i \in mine :
       /\ rows[i].stage = "connected"
       /\ \A j \in mine : rows[j].stage = "disconnected" => j < i

\* Status 0 is earned: every channel, in every round, was connected, is known
\* to have stayed so to the deadline, and delivered a frame.
StatusZeroIsEarned ==
  exit = "0" =>
    \A c \in Channel, r \in 1 .. Rounds :
      Earned(sessions[c], r) /\ (r = Rounds => frames_read[c])

-----------------------------------------------------------------------------
(* The invariant behind them *)

Continuations == {"open", "drops", "fails", "fatal", "done"}

\* Where a worker is before it has arrived at the barrier, or again in a later
\* attempt, and where it has been let through.
Connecting == {"attempt", "setup", "handshake"}

Passed == Capturing \cup Continuations \cup {"deadline", "dropped", "sleeping"}

RowType ==
  [round : 1 .. Rounds,
   stage : {"error", "disconnected", "connected", "reconnect_wait", "complete"},
   ok : BOOLEAN, generation : 1 .. Attempts, duration : 0 .. Attempts]

TypeOK ==
  /\ main \in {"pcap", "starting", "dropping", "joining", "exited"}
  /\ round \in 1 .. Rounds
  /\ next \in 1 .. Cardinality(Channel) + 1
  /\ start_failed \in BOOLEAN
  /\ exit \in {"none", "0", "1", "2"}
  /\ barrier \in [left : Nat, expected : Nat, phase : Nat]
  /\ round_started \in BOOLEAN
  /\ remaining \in Nat
  /\ any_failure \in BOOLEAN
  /\ pc \in [Channel -> {"unstarted", "barrier"} \cup Connecting \cup Passed]
  /\ attempt \in [Channel -> 1 .. Attempts]
  /\ arrival \in [Channel -> Nat]
  /\ barrier_arrived \in [Channel -> BOOLEAN]
  /\ then \in [Channel -> Continuations]
  /\ left \in [Channel -> Nat]
  /\ reconnect_started \in [Channel -> 0 .. Attempts]
  /\ frames_read \in [Channel -> BOOLEAN]
  /\ sessions \in [Channel -> Seq(RowType)]

Started == {c \in Channel : pc[c] # "unstarted"}

\* The workers that have arrived at the barrier.
AtBarrier == {c \in Channel : barrier_arrived[c] \/ pc[c] = "barrier"}

\* A barrier at which n workers have arrived and nobody has twice.
Fits(b, n) ==
  \/ b.phase = 0 /\ b.left > 0 /\ b.expected = b.left + n
  \/ b.phase = 1 /\ b.left = b.expected /\ b.expected = n

\* Whom the barrier expects: the workers started, and those for whom the
\* supervisor has still to start a thread or to arrive.
BarrierInv ==
  /\ barrier.expected + next = Cardinality(Started) + Cardinality(Channel) + 1
  /\ Fits(barrier, Cardinality(AtBarrier))
  /\ \A c \in Channel : barrier_arrived[c] => barrier.phase = 1
  /\ main \in {"pcap", "starting"} => Started = {Starting(i) : i \in 1 .. next - 1}
  /\ main = "pcap" => next = 1
  /\ main = "joining" /\ ~start_failed => Started = Channel
  /\ start_failed => any_failure /\ main \in {"joining", "exited"}

\* The rows of the round that say a session of channel c came up.
Up(c, g) ==
  \E j \in DOMAIN sessions[c] :
    /\ sessions[c][j].stage = "connected" /\ sessions[c][j].round = round
    /\ sessions[c][j].generation = g

\* An outage began at the end of the last session that was up.
OutageBegan(c, g) ==
  IF \E h \in 1 .. Attempts : Up(c, h)
    THEN Up(c, g) /\ \A h \in 1 .. Attempts : Up(c, h) => h <= g
    ELSE g = 1

\* Before a session comes up, an outage is on in all attempts but the first.
BeforeUp == {"unstarted", "barrier", "open", "subscribing", "connected"} \cup Connecting

WorkerInv(c) ==
  /\ pc[c] \in Passed => barrier_arrived[c]
  /\ pc[c] \in {"unstarted", "barrier"} => ~barrier_arrived[c]
  /\ pc[c] = "barrier" => arrival[c] = 0
  /\ ~barrier_arrived[c] => attempt[c] = 1 /\ reconnect_started[c] = 0 /\ ~frames_read[c]
  /\ pc[c] \in BeforeUp => (attempt[c] > 1 <=> reconnect_started[c] # 0)
  /\ pc[c] \in {"dropped", "sleeping"} => reconnect_started[c] # 0
  /\ pc[c] = "sleeping" => attempt[c] < Attempts

\* The rows, and what the worker's state says of those of its round.
RowsInv(c) ==
  /\ \A j \in DOMAIN sessions[c] : sessions[c][j].round <= round
  /\ \A g \in 1 .. Attempts : Up(c, g) => g <= attempt[c]
  /\ pc[c] \in BeforeUp => ~Up(c, attempt[c])
  /\ reconnect_started[c] = 0 /\ attempt[c] > 1 => Up(c, attempt[c])
  /\ reconnect_started[c] # 0 => OutageBegan(c, reconnect_started[c])

CameUp(rows, r) ==
  \E i \in DOMAIN rows :
    /\ rows[i].round = r /\ rows[i].stage = "connected"
    /\ \A j \in DOMAIN rows : rows[j].round = r /\ rows[j].stage = "disconnected" => j < i

\* What becomes of a round that nothing has gone wrong in.
ChannelStatus(c) ==
  /\ pc[c] \in {"top", "reading", "frame", "ponging"} \/ frames_read[c] =>
       \E g \in 1 .. Attempts : Up(c, g)
  /\ reconnect_started[c] = 0 /\ (\E g \in 1 .. Attempts : Up(c, g)) =>
       CameUp(sessions[c], round)
  /\ ~any_failure => /\ \A r \in 1 .. round - 1 : Earned(sessions[c], r)
                     /\ pc[c] = "done" => Earned(sessions[c], round) /\ frames_read[c]
  /\ pc[c] = "barrier" /\ then[c] = "done" => any_failure

StatusInv ==
  /\ \A c \in Channel : ChannelStatus(c)
  /\ main = "exited" => \A c \in Channel : pc[c] \in {"unstarted", "done"}
  /\ exit = "0" => /\ main = "exited" /\ ~any_failure /\ round = Rounds
                   /\ \A c \in Channel : pc[c] = "done"

\* Who has left the barrier waits no longer than the round.
WaitInv ==
  \A c \in Channel :
    barrier_arrived[c] => round_started /\ (pc[c] \in TimedWaits => left[c] <= remaining)

IInv ==
  /\ TypeOK
  /\ BarrierInv
  /\ \A c \in Channel : WorkerInv(c) /\ RowsInv(c)
  /\ SessionsAreReadable /\ OutageIsMeasuredWhole
  /\ StatusInv

\* Silent peers, failed threads and exceptions notwithstanding, the capture
\* comes to an end.
CaptureEnds == <>(main = "exited")
=============================================================================
