------------------------------ MODULE PairedRest ------------------------------
(***************************************************************************)
(* capture_paired_rest_research (src/src/Research/ResearchRestCapture.cpp) *)
(* and its get_pair: the same public request to two hosts at once, again   *)
(* and again, on one connection per host and round.                        *)
(*                                                                         *)
(* The main thread starts two workers per pair, which meet at the latch    *)
(* ready, wait at the latch start and then each ask their own connection.  *)
(* A request is one step of the promise of HttpConnection, which           *)
(* HttpSession implements; it takes as long as its deadline allows.        *)
(*                                                                         *)
(* now counts from the end of the last warm-up pair (from the start of the *)
(* round before it).  Time spent starting the workers of a pair, or        *)
(* writing its results, is counted as spent in the pair.                   *)
(***************************************************************************)
EXTENDS Naturals, Sequences, FiniteSets

CONSTANTS
  Rounds,     \* --rounds
  Warmups,    \* kWarmups: pairs that open a round
  Cadence,    \* kCadence: ticks from one pair to the next
  Duration,   \* how long a round measures, in ticks
  Timeout,    \* --timeout, in ticks
  Capacity,   \* --max-artifact-bytes, less kManifestReserve
  Bodies,     \* possible sizes of a response body, by endpoint
  RowBytes    \* size of a row of requests.jsonl

Side == {"standard", "aws"}

ASSUME PairedAssumption ==
  /\ Rounds \in Nat \ {0} /\ Warmups \in Nat \ {0}
  /\ Cadence \in Nat \ {0} /\ Duration \in Nat \ {0} /\ Timeout \in Nat \ {0}
  /\ Capacity \in Nat \ {0} /\ Bodies \in [Side -> SUBSET Nat] /\ RowBytes \in Nat \ {0}

Stream == {"bodies", "receipts"}

\* The end of the measured part; all times after it are alike.
End     == Cadence + Duration
Horizon == End + 1

VARIABLES
  \* the main thread
  main,
  round,
  warmups,           \* warm-up pairs done in this round
  measured,          \* measured_pairs
  next,              \* the slot of the next pair
  stop,              \* stop_reason is not empty
  any_failure, completed_rounds,
  \* a pair
  worker,
  ready, start,      \* the counts of the two latches
  released, aborted,
  left,              \* time to the deadline of the pair
  answer,            \* what each worker's future holds
  connection,        \* the session of each side
  now,
  \* the bundle
  requests, recorded,
  body_offset, artifact_bytes, artifact_ok,
  size, durable,     \* bytes inserted into each stream, and in its file
  rows,              \* the lines of requests.jsonl
  manifest, exit

pairing  == <<worker, ready, start, released, aborted, left, answer>>
progress == <<round, warmups, measured, next, stop, any_failure, completed_rounds>>
files    == <<body_offset, artifact_bytes, artifact_ok, size, durable, rows>>
tallies  == <<requests, recorded>>
verdict  == <<manifest, exit>>
vars == <<main, progress, pairing, connection, now, tallies, files, verdict>>

Http == INSTANCE HttpConnection WITH
  persistent <- TRUE, session <- connection, result <- answer

NoAnswer == [result |-> Http!NoResult, sound |-> FALSE, body |-> 0]

Measuring == warmups = Warmups

Init ==
  /\ main = "admission"
  /\ round = 0
  /\ warmups = 0
  /\ measured = 0
  /\ next = 0
  /\ stop = FALSE
  /\ any_failure = FALSE
  /\ completed_rounds = 0
  /\ worker = [s \in Side |-> "none"]
  /\ ready = 0
  /\ start = 0
  /\ released = FALSE
  /\ aborted = FALSE
  /\ left = 0
  /\ answer = [s \in Side |-> NoAnswer]
  /\ connection = [s \in Side |-> Http!Fresh]
  /\ now = 0
  /\ requests = 0
  /\ recorded = 0
  /\ body_offset = 0
  /\ artifact_bytes = 0
  /\ artifact_ok = TRUE
  /\ size = [f \in Stream |-> 0]
  /\ durable = [f \in Stream |-> 0]
  /\ rows = << >>
  /\ manifest = "none"
  /\ exit = "none"

-----------------------------------------------------------------------------
(* Rounds *)

\* The selection, the directory or a file of it is refused.
Refuse ==
  /\ main = "admission"
  /\ main' = "exited"
  /\ exit' = "2"
  /\ UNCHANGED <<progress, pairing, connection, now, tallies, files, manifest>>

Admit ==
  /\ main = "admission"
  /\ main' = "round"
  /\ UNCHANGED <<progress, pairing, connection, now, tallies, files, verdict>>

\* Faulty variant: the connections outlive their round.
NewConnections_Kept == UNCHANGED connection

\* Each round makes its own two connections.
NewConnections == connection' = [s \in Side |-> Http!Fresh]

StartRound ==
  /\ main = "round"
  /\ round < Rounds
  /\ artifact_ok
  /\ round' = round + 1
  /\ warmups' = 0
  /\ measured' = 0
  /\ next' = 0
  /\ stop' = FALSE
  /\ now' = 0
  /\ NewConnections
  /\ main' = "slot"
  /\ UNCHANGED <<any_failure, completed_rounds, pairing, tallies, files, verdict>>

NoMoreRounds ==
  /\ main = "round"
  /\ round = Rounds \/ ~artifact_ok
  /\ main' = "flush"
  /\ UNCHANGED <<progress, pairing, connection, now, tallies, files, verdict>>

Smaller(a, b) == IF a < b THEN a ELSE b

\* Faulty variant: a measured request may run past the end of its round.
TimeFor_NoRoundEnd == Timeout

\* The time a pair is given: a measured one ends with its round.
TimeFor == IF Measuring THEN Smaller(End - now, Timeout) ELSE Timeout

\* The measured part is over, by its slots or by the clock read after the sleep.
RoundOver == Measuring /\ (next >= End \/ (now >= next /\ now >= End))

BeginPair ==
  /\ main = "slot"
  /\ now >= next
  /\ ~RoundOver
  /\ left' = TimeFor
  /\ ready' = 2
  /\ start' = 1
  /\ released' = FALSE
  /\ aborted' = FALSE
  /\ main' = "start_first"
  /\ UNCHANGED <<progress, worker, answer, connection, now, tallies, files, verdict>>

\* Also after a pair that was not valid: the round is over, complete or not.
EndRound ==
  /\ (main = "slot" /\ RoundOver) \/ main = "failed"
  /\ any_failure' = (any_failure \/ main = "failed")
  /\ completed_rounds' = IF stop \/ ~artifact_ok THEN completed_rounds ELSE completed_rounds + 1
  /\ main' = "round"
  /\ UNCHANGED <<round, warmups, measured, next, stop, pairing, connection, now,
                 tallies, files, verdict>>

-----------------------------------------------------------------------------
(* get_pair *)

StartFirst ==
  /\ main = "start_first"
  /\ worker' = [worker EXCEPT !["standard"] = "started"]
  /\ main' = "start_second"
  /\ UNCHANGED <<progress, ready, start, released, aborted, left, answer, connection,
                 now, tallies, files, verdict>>

\* The outer handler: the capture goes straight to its end.
Caught == any_failure' = TRUE /\ main' = "flush"

FirstNotStarted ==
  /\ main = "start_first"
  /\ Caught
  /\ UNCHANGED <<round, warmups, measured, next, stop, completed_rounds, pairing,
                 connection, now, tallies, files, verdict>>

StartSecond ==
  /\ main = "start_second"
  /\ worker' = [worker EXCEPT !["aws"] = "started"]
  /\ main' = "ready_wait"
  /\ UNCHANGED <<progress, ready, start, released, aborted, left, answer, connection,
                 now, tallies, files, verdict>>

\* Faulty variant: the first worker is left at the latch.
HandlePairException_NoRelease == UNCHANGED <<start, aborted>>

\* Faulty variant: the first worker is released as if it had a partner.
HandlePairException_NotAborted ==
  /\ start' = IF released THEN start ELSE start - 1
  /\ UNCHANGED aborted

\* The handler of get_pair: unless it has been released, the first worker is, and told.
HandlePairException ==
  /\ aborted' = (aborted \/ ~released)
  /\ start' = IF released THEN start ELSE start - 1

SecondNotStarted ==
  /\ main = "start_second"
  /\ HandlePairException
  /\ main' = "abandon"
  /\ UNCHANGED <<progress, worker, ready, released, left, answer, connection, now,
                 tallies, files, verdict>>

\* Faulty variant: the pair is released before its workers are there.
WorkersReady_Assumed == TRUE

WorkersReady == ready = 0

Release ==
  /\ main = "ready_wait"
  /\ WorkersReady
  /\ start' = start - 1
  /\ released' = TRUE
  /\ main' = "join"
  /\ UNCHANGED <<progress, worker, ready, aborted, left, answer, connection, now,
                 tallies, files, verdict>>

Over(s) == worker[s] \in {"returned", "threw"}

PairOver == worker' = [s \in Side |-> "none"] /\ left' = 0

\* Both futures deliver.
Join ==
  /\ main = "join"
  /\ \A s \in Side : worker[s] = "returned"
  /\ PairOver
  /\ main' = "write_standard"
  /\ UNCHANGED <<progress, ready, start, released, aborted, answer, connection, now,
                 tallies, files, verdict>>

\* A future rethrows: whichever it is, the other worker is joined by its
\* future's destructor, and the results of both are lost.
JoinThrows ==
  /\ main = "join"
  /\ \A s \in Side : Over(s)
  /\ \E s \in Side : worker[s] = "threw"
  /\ HandlePairException
  /\ PairOver
  /\ Caught
  /\ answer' = [s \in Side |-> NoAnswer]
  /\ UNCHANGED <<round, warmups, measured, next, stop, completed_rounds, ready,
                 released, connection, now, tallies, files, verdict>>

\* The abandoned first worker is joined by its future's destructor.
Abandon ==
  /\ main = "abandon"
  /\ Over("standard")
  /\ PairOver
  /\ Caught
  /\ answer' = [s \in Side |-> NoAnswer]
  /\ UNCHANGED <<round, warmups, measured, next, stop, completed_rounds, ready, start,
                 released, aborted, connection, now, tallies, files, verdict>>

-----------------------------------------------------------------------------
(* The workers *)

Arrive(s) ==
  /\ worker[s] = "started"
  /\ ready' = ready - 1
  /\ worker' = [worker EXCEPT ![s] = "waiting"]
  /\ UNCHANGED <<main, progress, start, released, aborted, left, answer, connection,
                 now, tallies, files, verdict>>

\* Past the latch: an abandoned worker returns without a request.
Pass(s) ==
  /\ worker[s] = "waiting"
  /\ start = 0
  /\ worker' = [worker EXCEPT ![s] = IF aborted THEN "returned" ELSE "requesting"]
  /\ UNCHANGED <<main, progress, ready, start, released, aborted, left, answer,
                 connection, now, tallies, files, verdict>>

\* What the response says: only a complete one has a body, and only one that is
\* JSON can fulfil its contract with a successful status.
Answers(s, result) ==
  [result : {result},
   sound  : IF result.received /\ ~result.error THEN BOOLEAN ELSE {FALSE},
   body   : IF ~result.received THEN {0}
            ELSE IF result.error THEN Bodies[s] \cup {0} ELSE Bodies[s]]

\* get(): a request that finds time left is issued.
Request(s) ==
  /\ worker[s] = "requesting"
  /\ \E o \in Http!Outcomes(TRUE, connection[s]) :
       /\ o = Http!Unissued(TRUE, connection[s]) => left = 0 \/ connection[s].invalid
       /\ connection' = [connection EXCEPT ![s] = o.session]
       /\ \E a \in Answers(s, o.result) : answer' = [answer EXCEPT ![s] = a]
  /\ worker' = [worker EXCEPT ![s] = "returned"]
  /\ UNCHANGED <<main, progress, ready, start, released, aborted, left, now, tallies,
                 files, verdict>>

\* An exception get() does not catch (an allocation in its own handler) is kept
\* for the join, after which the connection is not used again.
WorkerThrows(s) ==
  /\ worker[s] = "requesting"
  /\ worker' = [worker EXCEPT ![s] = "threw"]
  /\ UNCHANGED <<main, progress, ready, start, released, aborted, left, answer,
                 connection, now, tallies, files, verdict>>

-----------------------------------------------------------------------------
(* sample: the two results are written and judged one after the other *)

\* What the sample makes of a result.
Valid(a) ==
  /\ ~a.result.error
  /\ a.result.available
  /\ a.sound
  /\ Measuring => a.result.reused

\* A line of requests.jsonl.  valid stands for its error, status and contract
\* fields; at is not in the file: it is where the body really went.
RequestRow(s) ==
  [round |-> round, side |-> s, warmup |-> ~Measuring, cold |-> answer[s].result.cold,
   reused |-> answer[s].result.reused, valid |-> Valid(answer[s]),
   offset |-> body_offset, length |-> answer[s].body, at |-> size["bodies"]]

Added(s) == answer[s].body + RowBytes

\* Faulty variant: a lost row does not keep the next from being written.
Room_AfterLoss(s) == Added(s) <= Capacity - artifact_bytes

Room(s) == artifact_ok /\ Added(s) <= Capacity - artifact_bytes

WriteOrder == [write_standard |-> "standard", write_aws |-> "aws"]

\* What follows the result of a side.
Written(s) ==
  /\ stop' = (stop \/ ~Valid(answer[s]))
  /\ requests' = requests + 1
  /\ main' = IF s = "standard" THEN "write_aws" ELSE "judge"

\* write_result for a result that is only counted.
Skip(s) ==
  /\ main \in DOMAIN WriteOrder /\ WriteOrder[main] = s
  /\ ~Room(s)
  /\ artifact_ok' = FALSE
  /\ Written(s)
  /\ UNCHANGED <<round, warmups, measured, next, any_failure, completed_rounds, pairing,
                 connection, now, recorded, body_offset, artifact_bytes, size, durable,
                 rows, verdict>>

\* write_result: either stream may take less than it is given, and fails then.
Write(s) ==
  /\ main \in DOMAIN WriteOrder /\ WriteOrder[main] = s
  /\ Room(s)
  /\ \E b \in 0 .. answer[s].body, r \in 0 .. RowBytes :
       LET whole == b = answer[s].body /\ r = RowBytes IN
       /\ size' = [bodies |-> size["bodies"] + b, receipts |-> size["receipts"] + r]
       /\ rows' = IF r = RowBytes THEN Append(rows, RequestRow(s)) ELSE rows
       /\ artifact_ok' = (artifact_ok /\ whole)
       /\ body_offset' = IF whole THEN body_offset + answer[s].body ELSE body_offset
       /\ artifact_bytes' = IF whole THEN artifact_bytes + Added(s) ELSE artifact_bytes
       /\ recorded' = IF whole THEN recorded + 1 ELSE recorded
  /\ Written(s)
  /\ UNCHANGED <<round, warmups, measured, next, any_failure, completed_rounds, pairing,
                 connection, now, durable, verdict>>

\* The answer cannot be judged or, counted by then, its row not be built: the
\* rest is the outer handler's.
WriteThrows ==
  /\ main \in DOMAIN WriteOrder
  /\ requests' \in {requests, requests + 1}
  /\ Caught
  /\ UNCHANGED <<round, warmups, measured, next, stop, completed_rounds, pairing,
                 connection, now, recorded, files, verdict>>

\* The first slot from t on, after slot n, that is not over yet.
SlotAfter(n, t) == CHOOSE m \in n + Cadence .. n + t + Cadence :
                     /\ (m - n) % Cadence = 0
                     /\ m >= t
                     /\ m - Cadence < t \/ m = n + Cadence

PairValid == ~stop /\ artifact_ok

\* The results go out of scope.
Forget == answer' = [s \in Side |-> NoAnswer]

unshared == <<worker, ready, start, released, aborted, left>>

PairFails ==
  /\ main = "judge"
  /\ Forget
  /\ ~PairValid
  /\ main' = "failed"
  /\ UNCHANGED <<progress, unshared, connection, now, tallies, files, verdict>>

\* The next pair follows the end of a warm-up by a cadence.
WarmupDone ==
  /\ main = "judge"
  /\ Forget
  /\ PairValid
  /\ ~Measuring
  /\ warmups' = warmups + 1
  /\ now' = 0
  /\ next' = Cadence
  /\ main' = "slot"
  /\ UNCHANGED <<round, measured, stop, any_failure, completed_rounds, unshared,
                 connection, tallies, files, verdict>>

\* Measured pairs keep to their slots: those that were missed are skipped.
MeasuredDone ==
  /\ main = "judge"
  /\ Forget
  /\ PairValid
  /\ Measuring
  /\ measured' = measured + 1
  /\ next' = SlotAfter(next, now)
  /\ main' = "slot"
  /\ UNCHANGED <<round, warmups, stop, any_failure, completed_rounds, unshared,
                 connection, now, tallies, files, verdict>>

-----------------------------------------------------------------------------
(* The end of the capture *)

Flush ==
  /\ main = "flush"
  /\ \E failing \in SUBSET Stream :
       /\ durable' = [f \in Stream |-> IF f \in failing THEN durable[f] ELSE size[f]]
       /\ artifact_ok' = (artifact_ok /\ failing = {})
  /\ main' = "manifest"
  /\ UNCHANGED <<progress, pairing, connection, now, tallies, body_offset,
                 artifact_bytes, size, rows, verdict>>

\* Faulty variant: the verdict looks at the pairs only.
Complete_PairsOnly == ~any_failure

Complete == ~any_failure /\ artifact_ok /\ completed_rounds = Rounds

\* The manifest is too large, cannot be opened, stops short, or is written.
WriteManifest ==
  /\ main = "manifest"
  /\ manifest' \in {"none", "partial", IF Complete THEN "complete" ELSE "incomplete"}
  /\ exit' = IF manifest' = "complete" THEN "0" ELSE "1"
  /\ main' = "exited"
  /\ UNCHANGED <<progress, pairing, connection, now, tallies, files>>

Less(n) == IF n = 0 THEN 0 ELSE n - 1

\* Time matters while the main thread sleeps and while a pair is under way; a
\* warm-up pair only minds its deadline.
Tick ==
  /\ main = "join" \/ (main = "slot" /\ (Measuring \/ now < next))
  /\ now < Horizon \/ left > 0
  /\ now' = IF Measuring \/ main = "slot" THEN Smaller(now + 1, Horizon) ELSE now
  /\ left' = Less(left)
  /\ UNCHANGED <<main, progress, worker, ready, start, released, aborted, answer,
                 connection, tallies, files, verdict>>

Exited == main = "exited" /\ UNCHANGED vars

MainStep ==
  \/ Refuse \/ Admit \/ StartRound \/ NoMoreRounds \/ BeginPair \/ EndRound
  \/ StartFirst \/ FirstNotStarted \/ StartSecond \/ SecondNotStarted
  \/ Release \/ Join \/ JoinThrows \/ Abandon
  \/ \E s \in Side : Skip(s) \/ Write(s)
  \/ WriteThrows
  \/ PairFails \/ WarmupDone \/ MeasuredDone
  \/ Flush \/ WriteManifest

Next ==
  \/ MainStep
  \/ \E s \in Side : Arrive(s) \/ Pass(s) \/ Request(s) \/ WorkerThrows(s)
  \/ Tick
  \/ Exited

\* Threads are scheduled and time passes.  A request need only return once its
\* time is up (RequestReturns of HttpSession).
Fairness ==
  /\ WF_vars(MainStep)
  /\ \A s \in Side : WF_vars(Arrive(s)) /\ WF_vars(Pass(s))
  /\ \A s \in Side : WF_vars(left = 0 /\ Request(s))
  /\ WF_vars(Tick)

Spec == Init /\ [][Next]_vars /\ Fairness
-----------------------------------------------------------------------------
(* Properties *)

\* A request of a pair is sent only when the worker of the other is there too:
\* the two are issued at one time, or none of them is.
PairIsTogether ==
  \A s, t \in Side :
    worker[s] \in {"requesting", "threw"} => worker[t] \notin {"none", "started"}

\* "new_connection_only_at_explicit_round_boundary": the rows that name a
\* resolution are the first of their host in their round, and no others.
NewConnectionOnlyAtRoundStart ==
  \A i \in DOMAIN rows :
    LET earlier == {j \in 1 .. i - 1 : rows[j].round = rows[i].round
                                       /\ rows[j].side = rows[i].side}
    IN /\ rows[i].cold => earlier = {}
       /\ rows[i].reused => earlier # {}
       /\ earlier = {} /\ rows[i].valid => rows[i].cold

\* A measured request is given no time beyond the end of its round.
RequestsStayInTheirRound ==
  Measuring /\ (\E s \in Side : worker[s] = "requesting") /\ left > 0 => now + left <= End

\* A row points at its own body.  Whatever prefix of each file survives the end
\* of the process, a row in it whose bytes are there too is one of these.
RowsPointAtTheirBodies ==
  \A i \in DOMAIN rows :
    rows[i].offset + rows[i].length <= size["bodies"] => rows[i].offset = rows[i].at

Pairs(r, warmup, s) ==
  Cardinality({i \in DOMAIN rows : /\ rows[i].round = r
                                   /\ rows[i].warmup = warmup
                                   /\ rows[i].side = s})

\* A manifest that says complete, the only one with status 0, is over whole
\* files: every round has all its warm-ups and as many measured requests of
\* one host as of the other, each valid and each measured one reused, and
\* there is a row for every request that was counted.
CompleteIsWhole ==
  /\ exit = "0" => manifest = "complete"
  /\ manifest = "complete" =>
       /\ \A r \in 1 .. Rounds :
            /\ \A s \in Side : Pairs(r, TRUE, s) = Warmups
            /\ Pairs(r, FALSE, "standard") = Pairs(r, FALSE, "aws")
       /\ \A i \in DOMAIN rows : rows[i].valid
       /\ requests = Len(rows) /\ recorded = Len(rows)
       /\ durable["receipts"] = Len(rows) * RowBytes
       /\ durable["bodies"] = body_offset

-----------------------------------------------------------------------------
(* The invariant behind them *)

AtPair  == {"start_first", "start_second", "ready_wait", "join", "abandon"}
Writing == {"write_standard", "write_aws", "judge"}
InRound == {"slot"} \cup AtPair \cup Writing

AnswerType == [result : Http!Results, sound : BOOLEAN, body : Nat]

RowType ==
  [round : 1 .. Rounds, side : Side, warmup : BOOLEAN, cold : BOOLEAN, reused : BOOLEAN,
   valid : BOOLEAN, offset : Nat, length : Nat, at : Nat]

TypeOK ==
  /\ main \in InRound \cup {"admission", "round", "failed", "flush", "manifest", "exited"}
  /\ round \in 0 .. Rounds
  /\ warmups \in 0 .. Warmups
  /\ measured \in Nat
  /\ next \in Nat
  /\ stop \in BOOLEAN
  /\ any_failure \in BOOLEAN
  /\ completed_rounds \in Nat
  /\ worker \in [Side -> {"none", "started", "waiting", "requesting", "returned", "threw"}]
  /\ ready \in Nat
  /\ start \in Nat
  /\ released \in BOOLEAN
  /\ aborted \in BOOLEAN
  /\ left \in Nat
  /\ answer \in [Side -> AnswerType]
  /\ connection \in [Side -> Http!Sessions]
  /\ now \in 0 .. Horizon
  /\ requests \in Nat
  /\ recorded \in Nat
  /\ body_offset \in Nat
  /\ artifact_bytes \in Nat
  /\ artifact_ok \in BOOLEAN
  /\ size \in [Stream -> Nat]
  /\ durable \in [Stream -> Nat]
  /\ rows \in Seq(RowType)
  /\ manifest \in {"none", "partial", "incomplete", "complete"}
  /\ exit \in {"none", "0", "1", "2"}

\* The arrivals at the latch ready that a worker still owes.
Owed(s) == IF worker[s] \in {"none", "started"} THEN 1 ELSE 0

\* What the place of the main thread says of the two workers and the latches.
LatchInv ==
  /\ main \notin AtPair => \A s \in Side : worker[s] = "none"
  /\ main \in Writing => left = 0
  /\ main \in AtPair => ready = Owed("standard") + Owed("aws")
  /\ main = "start_first" => worker["standard"] = "none"
  /\ main = "start_second" => worker["standard"] \in {"started", "waiting"}
  /\ main \in {"start_first", "start_second", "abandon"} => worker["aws"] = "none"
  /\ main = "ready_wait" => \A s \in Side : worker[s] \in {"started", "waiting"}
  /\ main = "join" =>
       \A s \in Side : worker[s] \in {"waiting", "requesting", "returned", "threw"}
  /\ main = "abandon" => worker["standard"] \in {"started", "waiting", "returned"}
  /\ main \in {"start_first", "start_second", "ready_wait"} => start = 1
  /\ main \in {"join", "abandon"} => start = 0
  /\ main \in AtPair => (released <=> main = "join") /\ (aborted <=> main = "abandon")

TimeInv == Measuring /\ left > 0 => now + left <= End

Established == [connected |-> TRUE, invalid |-> FALSE, used |-> TRUE]

\* What a pair finds its connections to be.
Found == IF warmups = 0 THEN Http!Fresh ELSE Established

\* What a result says of the connection it was asked on, and of what became of it.
Told(s) ==
  LET result == answer[s].result
  IN /\ result.cold => warmups = 0
     /\ result.reused => warmups > 0
     /\ ~result.error => (result.cold <=> warmups = 0)
     /\ ~result.error /\ result.available => connection[s] = Established

AnswerInv ==
  /\ main \in {"slot", "write_standard"} \cup AtPair => artifact_ok /\ ~stop
  /\ main \in {"slot"} \cup AtPair =>
       \A s \in Side : worker[s] # "returned" => connection[s] = Found
  /\ \A s \in Side : main \in Writing \/ (main = "join" /\ worker[s] = "returned") => Told(s)
  /\ main \in {"write_aws", "judge"} /\ ~stop => Valid(answer["standard"])
  /\ main = "judge" /\ ~stop => Valid(answer["aws"])

\* As long as nothing is lost, the counters say what is in the streams.
FilesInv ==
  /\ artifact_ok =>
       /\ body_offset = size["bodies"]
       /\ size["receipts"] = Len(rows) * RowBytes
       /\ recorded = Len(rows)
       /\ ~any_failure => requests = Len(rows)
       /\ main \in {"admission", "manifest", "exited"} => durable = size
  /\ \A i \in DOMAIN rows : rows[i].offset = rows[i].at

\* The results of this pair that are rows already.
Done(s) == IF main = "judge" \/ (main = "write_aws" /\ s = "standard") THEN 1 ELSE 0

WholeRound(r) ==
  /\ \A s \in Side : Pairs(r, TRUE, s) = Warmups
  /\ Pairs(r, FALSE, "standard") = Pairs(r, FALSE, "aws")

CountsInv ==
  /\ \A i \in DOMAIN rows : rows[i].round <= round
  /\ main \in InRound \cup {"failed"} => round > 0 /\ completed_rounds < round
  /\ completed_rounds <= round
  /\ main \in InRound /\ ~Measuring => measured = 0
  /\ main \in InRound /\ artifact_ok =>
       \A s \in Side :
         /\ Pairs(round, TRUE, s)  = warmups + (IF Measuring THEN 0 ELSE Done(s))
         /\ Pairs(round, FALSE, s) = measured + (IF Measuring THEN Done(s) ELSE 0)
  /\ ~any_failure =>
       \A r \in 1 .. round : r < round \/ main \notin InRound \cup {"failed"} => WholeRound(r)

\* An invalid result ends its round, and that is a failure of the capture.
VerdictInv ==
  /\ ~any_failure /\ ~stop => \A i \in DOMAIN rows : rows[i].valid
  /\ stop /\ main \notin {"write_aws", "judge", "failed"} => any_failure
  /\ main # "exited" => manifest = "none" /\ exit = "none"
  /\ manifest = "complete" => Complete
  /\ exit = "0" => manifest = "complete"

IInv ==
  /\ TypeOK
  /\ LatchInv
  /\ TimeInv
  /\ AnswerInv
  /\ FilesInv
  /\ CountsInv
  /\ VerdictInv
  /\ NewConnectionOnlyAtRoundStart

\* Until the capture stops asking, a request without its row is a loss; no row
\* is without its request.
KeptInv ==
  /\ Len(rows) <= requests
  /\ artifact_ok /\ main \notin {"flush", "manifest", "exited"} => requests = Len(rows)

\* Silent peers, threads that do not start and exceptions notwithstanding, the
\* capture comes to an end.
CaptureEnds == <>(main = "exited")

-----------------------------------------------------------------------------
\* The paired capture makes the promise of the evidence log too.  Its manifest
\* has one word, "incomplete", for the verdicts that are not "complete", and one
\* that stops short is none.
Log == INSTANCE EvidenceLog WITH
         offered <- requests,
         kept    <- Len(rows),
         intact  <- artifact_ok /\ requests = Len(rows),
         verdict <- CASE manifest = "complete" -> "complete"
                      [] manifest = "incomplete" ->
                           IF any_failure \/ completed_rounds # Rounds
                           THEN "failed" ELSE "incomplete"
                      [] OTHER -> "running"

\* The rows are those of the first requests: after a request that left no row
\* there are no more, whichever round or side comes next, and no manifest then
\* says complete.
ImplementsEvidenceLog == Log!Spec
=============================================================================
