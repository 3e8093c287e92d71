# A verification project for exchange-api-probe

`exchange-api-probe` (C++20, `src/`) probes the public and private HTTP and WebSocket interfaces of exchanges,
and captures, over several channels at once, research evidence of what each channel delivered and when. Its
results are only worth something if the evidence on disk is exactly what was received: no row out of order, no
payload attributed to the wrong row, no loss that goes unnoticed, and no verdict "complete" that a crash, a full
budget, a missed deadline or a dead peer could have falsified. These modules state that, check it with TLC on
small instances and prove the most important parts of it with TLAPS for every instance.

## 1. Inventory of the system

| Component (source under `src/src`) | State | Operations | Interacts with |
|---|---|---|---|
| Bundle writer (`Research/ResearchCapture.cpp` 170-505) | four streams, byte budget, ids and offsets, sticky failure flags, manifest, marker | construct, `frame`, `session`, `control`, `finish` | every capture worker through one mutex; read back by the analysis |
| Capture worker (`capture_channel`, 521-813) | attempt number, barrier flag, reconnect clock, frames read | setup, handshake, subscribe, read, pong, classify failure, reconnect | writer, barrier and common deadline, `run_ws_deadline` |
| Capture supervisor (`capture_research_bundle`, 817-986) | round, threads started, barrier, `any_failure`, pcap child | start pcap, start and join workers per round, finish | workers, writer, dumpcap |
| Reconnect policy (`Research/HtxReconnectPolicy.hpp`) | none | classify an error, delay before the next attempt | capture worker |
| Deadline-bounded operation (`Network/WsDeadline.hpp`) | flags and handlers of the operation and of its timer | start, completion, expiry, cancellation, drain, rethrow | every WebSocket operation of probes and captures |
| Network primitives (`Network/NetCommon.cpp`) | socket | resolve, connect, TLS handshake, each bounded by a deadline | sessions |
| HTTP session (`Network/HttpClient.cpp` 43-265) | connected, invalid, completed requests | request | probes, paired REST capture |
| Paired REST capture (`Research/ResearchRestCapture.cpp`) | two sessions, two latches, counters, sample validity, budget | warm up, measured loop, pair of requests, finish | HTTP session, viewer |
| WebSocket probe (`Network/WsClient.cpp`) | stage of the exchange, acknowledgement and data seen, two timers | welcome, subscribe, read, acknowledge, count data, answer a ping | probe runner |
| Probe runner (`Runtime/ProbeRunner.cpp`) | attempts, classification | run one surface, repeat it, sign a private request once | HTTP session, WebSocket probe, credentials |
| Command line, application (`Runtime/Cli.cpp`, `Application.cpp`, `Main.cpp`, `Sandbox.cpp`) | options, what the run has got done, exit status | parse, reject, gate, dispatch a command | all commands |
| Research commands, discovery (`Research/Research.cpp`, `ResearchCommands.cpp`) | evidence rows, accepted candidates | capture then analyse then view, scaffold, promote, probe candidates, write a proposal | captures, analysis, probe runner |
| Credentials, redaction, gzip (`Network/*`) | none after loading | look up slots, sign, redact, inflate | probe runner, HTTP session, analysis |
| Index, session and payload readers (`Research/Analysis/Input.cpp`, `Relations.cpp`) | parsed rows | read with contract checks and capacities | bundle on disk |
| Book reconstruction (`Research/Analysis/Book.cpp`, `ResearchAnalysis.cpp`) | both sides of the book per channel and round, last id, validity | apply snapshot or delta, detect gaps, emit best prices | readers, events |
| Relations (`Research/ResearchAnalysis.cpp`, `Analysis/Relations.cpp`) | last event per key, recent market events, rows, counters, derived files | relate an event to earlier ones, flush, write findings | readers, viewer |
| Paired receipts (`Research/Analysis/Relations.cpp` 309-530) | count and receipt per endpoint of every identity | read frames, match, quantiles, report by rename | readers |
| Placement, profiles (`Research/Placement.cpp`, `ResearchProfile.cpp`) | samples per address, cache of locations | measure, parse | network, capture |
| Viewer (`Presentation/ViewerServer.cpp`) | one acceptor | serve one connection at a time | browser |
| Tables (`Profiles/*`, `Model.cpp`), contracts (`Contracts.cpp`), output | none | predicates and formatting | all |

**What is hard here.** A round runs one thread per channel. They meet once at a barrier, share one deadline, one
writer and one failure flag; each of them may lose its connection, its handshake or its thread at any operation
and may only reconnect within the round. A row gets its time stamp partly before and partly inside the writer's
mutex. Each write, flush and rename can fail alone, and the process can end between any two of them. Each
blocking call of a worker is really two handlers, the operation's and its timer's, which may both be queued. The
complete list, at the line where each hazard bites, is `hazards` in `PROJECT.json`.

**What makes each component correct.**

- *Writer*: the index satisfies the reader's contract; a surviving row points at its own bytes; a loss closes
  the log for good; the budget is never exceeded; "complete" and `COMPLETE` describe durable, whole files.
- *Worker and supervisor*: every path through an attempt arrives at the barrier exactly once; no channel
  captures before all are ready or given up; the deadline is set once, nobody begins to wait beyond it, and what
  ends when it has come is no failure; outages are measured whole; status 0 is earned by every channel in every
  round; the capture ends.
- *Deadline-bounded operation*: it returns; nothing of it survives its return; success means in time and a
  usable socket, everything else a closed one.
- *HTTP session, paired REST capture*: a failed connection is never used again; both requests of a pair start
  together or not at all; counters agree with the rows; the manifest says complete only for whole data.
- *WebSocket probe*: an attempt is a success exactly if the messages it read prove the subscription; a timeout
  had its time; every probe comes to its observation.
- *Command line and application*: the gates of the parser, of the application and of the captures together leave
  no line that captures with recorded keys or under an unconfirmed load; what the usage text promises of a
  confirmed private probe is served; status 0 means the files the command is for exist and say so.
- *Book, relations, receipts*: a book that counts as valid is the venue's, and none is withheld longer than its
  gap; its rows are its best prices, never one twice in a row; a relation is an observation,
  whatever was dropped is counted; a capacity is a refusal and never a silent prefix; findings never stand over
  other files than those they were made from in their own run.

## 2. The modules

```
EvidenceLog            what a capture promises            (in BundleWriterProofs, PairedRestProofs)
   ^ implemented by BundleWriter and PairedRest
BundleWriter           ResearchBundleWriter               BundleWriterProofs          MCBundleWriter
CaptureRound           supervisor, workers, barrier       CaptureRoundProofs          MCCaptureRound
WsDeadline             run_ws_deadline                    (in WsProbeProofs)
HttpConnection         what one HTTP request promises
   ^ implemented by        ^ used by
HttpSession            HttpSession::request               HttpSessionProofs
PairedRest             paired REST capture                PairedRestProofs            MCPairedRest
WsProbe                observe_ws, run_public_ws          WsProbeProofs
CommandLine            parse_cli, the gates
   ^ extended by
Application            one run of the program             ApplicationProofs
BookReconstruction     the book against its venue         BookReconstructionProofs
Analysis               relations, derived files           AnalysisProofs              MCAnalysis
PairedReceipts         paired receipts                    (in AnalysisProofs)         MCPairedReceipts
```

Modules without an MC module are instantiated by their `.cfg` alone. `WsProbeProofs` extends `WsProbe` and
`WsDeadline`, a probe and the calls it makes, each of which has names of its own (`CallSpec`, `CallInv`);
`AnalysisProofs` extends `Analysis` and `PairedReceipts` (`ReceiptsSpec`, `ReceiptsInv`), which share a source.

### EvidenceLog: the promise

Records are `offered`, some are `kept`; `intact` falls at the first loss and never rises; one `verdict` is
given, and "complete" needs `intact`. It knows nothing of files, bytes or threads. Two components that share no
code make this promise: the writer of the research bundle and the paired capture, which writes its own rows.

### BundleWriter: `ResearchBundleWriter`

| Code | Model |
|---|---|
| constructor 172-219 | `ConstructRefused`, `Construct` |
| `session`, `control` (row stamped before the mutex) 226-296 | `Begin`, then `WriteRow` or `RefuseRecord` |
| `frame` 298-335 | `Begin` (the read that stamped the receipt), then `WriteFrame` or `RefuseRecord` |
| `reserve_bytes` 368-377 | `Fits`, `Demand`, `Refuse` |
| `finish` 337-365 | `FinishFlush`, `FinishManifest`, `FinishMarker` |
| `write_manifest` 428-480 (temporary file and rename) | `WriteManifest` |
| end of the process at any point | `ProcessEnds` |

Streams are byte counters: `size` is what was inserted, `durable` what is in the file, `good` the stream's
state. An insertion into a good stream may stop after any number of bytes; a stream that failed takes nothing. A
line of the index is a record with the fields the reader checks, plus the ghost `at`: where its payload really
went. `Took` says when an insertion leaves its stream good; a payload may be empty, as the code accepts.
The contents of payloads, controls and session rows are left out. `NoRecord`, `pc` and `offered` are the
model's own; every other variable is a member of the class or a file on disk.

The refinement of `EvidenceLog` maps `offered` to the records that entered the mutex, `kept` to those not
counted as not persisted, `intact` to `artifact_complete /\ ~storage_failed`, and the verdict to the status in
`manifest.json`.

### CaptureRound: supervisor and workers

A worker is a program counter per channel. Each network operation (`setup` = resolve, connect and TLS;
`handshake`; `subscribe`; `read`; `pong`) is a `Block` with the time it may take and an end that is a success, a
retryable failure, a fatal one or a timeout. What follows (`FailAttempt`, `DropAttempt`, `AttemptDeadline`,
`AttemptFatal`, `AttemptDisconnected`, `Wake`, `Throw`) is the code's own order of rows, of the failure flag and
of the arrival at the barrier. The barrier is `std::barrier` with its count, its expected count and its phase,
so that a second arrival or a drop too many would show. Time is counted in what is `left`; a time stamp is kept
only where a property tells values apart: `reconnect_started` and a row's `duration` name the attempt an outage
began with.

`ReconnectWait` is the delay before the next attempt, which has to fit into the round;
`SessionOperationEnds` is the end of an operation of an open session, where a deadline that has come precedes
whatever the operation failed with.

A thread that cannot be created is several steps: `StartWorkerFails` catches, `DropWorker` arrives and drops for
one missing worker at a time, while those already started connect, fail and meet, and `DroppedAll` only then
sets the flag that ends the capture.

The admission checks (channels that exist, durations in range, retries only where every channel subscribes) are
assumptions on the constants. `Capturable` and `Subscribing` say which channels have a target and a subscription
message.

### WsDeadline: `run_ws_deadline`

One call at a time on a stream. The two handlers are `none`, `waiting` for their event or `ready`; ready
handlers run in any order. `left` is the time to the absolute deadline. A session makes calls until one fails,
then opens a new stream (`Reopen`).

### HttpConnection and HttpSession: one request after another on a connection

`HttpSession` walks through the stages of `HttpSession::request`, each of which may fail, time out or throw;
`CloseSocket`, `Invalidate`, `Finish` are the three helpers of the class through which every exit goes.
`persistent` tells the keep-alive session of the diagnostic from the one-shot of a probe. The ghost `owed` holds
the requests whose answers are still in the socket or in `buffer_`: it is what shows whose answer is read. The
peer answers each request once and in order. `HttpConnection` is what remains for a caller: from a session that
is or is not connected, invalid, used, the set `Outcomes` of what may become of it and be returned.
`HttpSession` implements it, with the whole request mapped to a single step when it returns.

### PairedRest: `capture_paired_rest_research` and `get_pair`

| Code | Model |
|---|---|
| admission, directory, files 189-209 | `Refuse`, `Admit` |
| loop over rounds, connections per round 258-261 | `StartRound`, `NoMoreRounds`, `NewConnections` |
| slots of warm-up and measured pairs 287-306 | `BeginPair`, `RoundOver`, `TimeFor`, `WarmupDone`, `MeasuredDone`, `EndRound` |
| `get_pair` 154-183, main thread | `StartFirst`, `StartSecond`, `Release`, `Join` and, when a thread or a request throws, `FirstNotStarted`, `SecondNotStarted`, `Abandon`, `JoinThrows` |
| `get_pair`, workers | `Arrive`, `Pass`, `Request` (one step of `HttpConnection`), `WorkerThrows` |
| `write_result` 230-256, `sample` 262-286 | `Write`, `Skip`, `WriteThrows`, `Valid`, `PairFails` |
| flush, verdict, manifest 318-344 | `Flush`, `Complete`, `WriteManifest` |

A row of `requests.jsonl` keeps what the verdict is about, with the ghost `at` for where its body went. Tallies
of errors that nothing reads back are left out. An exception while a result is judged or written leaves the
request counted or not (`validate_rest_contract` comes before the count). There is no action for the end of the
process: the manifest is the last thing written, and the property of the rows is stated of all that was
inserted, so that it holds of whatever prefix a crash leaves.

The refinement of `EvidenceLog` maps `offered` to the requests counted, `kept` to the rows, `intact` to
`artifact_ok` with a row for every request, and the verdict to the manifest. That has one word, "incomplete",
for both verdicts that are not "complete", which the mapping tells apart by the sessions' part; a manifest that
stops short is no verdict.

### WsProbe: `observe_ws` and `run_public_ws`

| Code | Model |
|---|---|
| loop over attempts, classification (`ProbeRunner.cpp` 259-341) | `StartAttempt`, `EndAttempt`, `TransportOutcome`, `Outcome`, `Done` |
| resolve, connect, TLS, handshake (`WsClient.cpp` 180-290) | `Setup`, `SetupSucceeds`, `OperationFails` |
| welcome and subscription 292-325 | `AfterHandshake`, `Welcome`, `AfterWelcome`, `Subscribe` |
| the two timers of an operation 41-58 | `Arm` with `IdleAllowance` (whole seconds, one at least), `give_up` beside `deadline` |
| the loop: expiry, read, ping, broken payload 327-371 | `LoopRead`, `LoopExpires`, `ReadPing`, `WritePong`, `ReadBroken` |
| acknowledgement and data 373-411 | `ReadText`, `Observe`, `AckMatched`, `DataMatched` |

A message is its verdict: whether the validators of `Contracts.cpp` take it for the acknowledgement and for
data, or it is a ping, an invalid ping or does not decode. The shapes of the cases are those the profile
factories build (`JsonWs`, which without an acknowledgement is also the shape of Aster's funding case, `SbeWs`,
`KucoinWs`, `BingxWs`, `StreamWs`) and those of discovery (`CandidateWs`). The ghost `consumed` keeps what an
attempt has read, so that `Proved` can define success from the messages alone.

### CommandLine and Application: from the options to the exit status

`CommandLine` is `parse_cli`: a line maps every option a gate looks at to one of the few values that make a
difference, and `Rejected` is the disjunction of the checks in the code's order. The same module has the later
gates (`ProbeRefused`, `WsCaptureRefused`, `RestCaptureRefused`), because what is worth knowing is how they
overlap. `Application` reads a line option by option and takes the branch of `run_application`: a sandbox with
its cases, a research run (`RefuseCapture`, `CaptureBegins`, `WsCaptureEnds`, `RestCaptureEnds`, `AnalysisEnds`,
`StartViewer`, `ViewerFails`), discovery with its evidence rows (`ProbeCandidate`, `WriteProposal`), the profile
commands. What another module is about (a capture, a probe, an analysis) is one step with a choice of outcome.
`InternalError` is the exit status 4 of `main`, at any point; a `matrix` whose filters select nothing ends with
2; a scaffold goes to a file or to standard output, where nobody looks whether it arrived. The ghost `done`
collects what was achieved.

### BookReconstruction: one channel's book against the venue that published it

The venue (external, modelled from what the analysis expects of it) numbers its messages, deltas of one level or
snapshots of its book, and `truth` remembers its book after each. A bundle may hold any of them, in any order,
any number of times: that is what sessions that drop, reconnect and overlap amount to. `AnalyzeFrame` is one
frame in the loop of `analyze_research_bundle`: `Readings` (the event as it is meant; cleared of all its fields;
or not decoded, so that even a snapshot is merged like a delta), `Renewed` (a snapshot), `Gap`, `Applied` (any
part of the levels may be left out, for a scalar that is too long or a side that is full, and the book then says
so in `capacity`), `Usable`, `Reports`. The profile's `mapping` says which ids it finds. `rows` is the sequence
of the best prices of the channel's rows in `state_transitions.jsonl`, and `seen` that of the frames: the
properties are about both of them.

### Analysis: the relations of a bundle and its derived files

`Open` truncates the derived files, `AddEvent` takes the frames in order, `Relate` relates one event to earlier
ones in the order of the code's five modes (`Candidates`: the last event of every key, then the market events
that `InWindow` leaves, latest first), `Considered` and `Emitted` apply the capacities and counters to one
candidate after the other, `FlushDerived` and `WriteSummary` end it. `Fail` may come anywhere, and the analysis
may be run again on the same directory. The order of lines, the windows and which event an index points at are
the code's; what an event carries is reduced to sets of at most one value per field (`EventsAssumption`: the
fields are `std::optional`s, or strings that may be empty).

### PairedReceipts: the same trades over two endpoints

`StartFrame`, `Trade`, `TradeWithoutId`, `NotATrade`, `EndFrame` walk through the frames of both channels,
and `BrokenFrame` passes over one that does not parse; it and `NotATrade` count `invalid_payload_records`.
`Refuse` is any of the errors that end the analysis, `TooMany` the capacity. `Match` is the whole final pass:
`Ambiguous`, `Single`, `OnlyOn`, `ReceiptDelta` with the signed range of the difference (`PositiveMax` stands
for 2^63 - 1), `Sorted` (an order of the identities in which no delta is followed by a smaller one),
`Percentile`. `WriteTemporary` may stop short, `Rename` may fail. The ghost `records` is the bag of the records
in the bundle; `Numbered` tells the copies in it apart, so that the properties can recompute from it what the
report has to say by counting sets.

## 3. What TLC checks

Every property of a run that passes is paired in `PROJECT.json` with a faulty variant of the code (the operators
called `<Definition>_<Fault>`, written just before the definition they stand in for), under which TLC finds it
violated.

| Run | Instance | What it shows |
|---|---|---|
| `bundle_writer` | 2 threads (symmetric), 8 bytes of budget, payloads of 0-2 bytes, lines of 2, 3 records, 2 clock values (4.2 M states) | the reader's contract, rows against payloads, the verdict, and that the writer implements `EvidenceLog` |
| `ws_deadline` | deadlines of 1-3 ticks | the drain, lateness, closing, and that every call returns |
| `capture_retry` | 2 channels, 1 round of 3 ticks, 3 attempts, operations of 1-2 ticks, heartbeats (428,055 states) | lifecycle rows, outages, the deadline and who waits beyond it, barrier, what status 0 means, termination |
| `capture_rounds` | 2 channels, 2 rounds, no retry, pcap, one channel without a subscription (215,937 states) | failing threads and fresh barriers per round: who may capture when |
| `http_session` | up to 3 requests, deadlines of 0-2 ticks, persistent and one-shot | whose answer is read, when a connection is reused and offered, termination, and that `HttpSession` implements `HttpConnection` |
| `paired_rest` | 2 rounds, 1 warm-up, 1 tick measured, timeout of 2, rows of 1 byte, bodies of 1 byte or of 16 on one side, capacity 16 (3.5 M states) | latches, threads that do not start, connections per round, deadlines of measured requests, rows against bodies when the capacity or a write stops short, verdict, termination, and that the capture implements `EvidenceLog` |
| `ws_probe` | timeout of 5 ticks, 2 ticks to a second, 2 attempts, 3 messages, every shape of case (179,149 states) | success against the messages read, timeouts against the time they had, termination |
| `application` | every command, lines of up to 4 options, 2 cases or candidates, 2 attempts (2.0 M states) | confirmations, exit status |
| `private_surface` | lines of up to 4 options | *violated*: the README's confirmed private REST probe is refused by the gates |
| `book` | 3 prices, 2 levels a side, 3 messages published, 3 frames (2.2 M states) | the book against the venue, its validity after a gap, the rows against the book |
| `paired_receipts` | 2 rounds, 2 native ids (both symmetric), receipts 0-3, 4 events, 5 frames (5.0 M states) | the report recomputed from the bundle: samples, tallies, quantiles |
| `analysis` | 4 frames of 2 rounds and 5 channels, window 1, 2 candidates, 4 relations, room for 3 or 5 rows, analysed twice (551,088 states) | relations against events, counters against rows, findings against files |

**Why these bounds are enough.** *Writer*: three records are the least that allow one kept, one refused and one
that would still fit after it, by different threads; a budget of 8 is exceeded by some sequences and not by
others and is met exactly by two frames of 2 bytes and lines of 2; lines of two bytes can be cut by a short
write or a crash. Two clock values suffice to see a stamp go back. *Capture*: two workers are the least that can
wait for each other, and the code treats workers alike; three attempts are the code's own limit
(`HtxReconnectPolicy`), needed to tell the first outage from the latest failure; two rounds use the order both
ways and renew the barrier. *HTTP*: a second request can read what the first one left, a third what a failed
second did not clean up. *Paired REST*: two sides are all there are; one warm-up stands for five, as the loop
treats them alike; a whole capture of eight rows meets the capacity of 16 exactly; an answer of 16 bytes never
fits beside its row, so that the first row of a pair is refused and the second would fit; a timeout longer than
the round tells the two deadlines of a request apart (several measured pairs to a round, and the slots that slow
ones skip, are left to the theorems). *Deadline*: the model is finite except for the deadline itself, and all
values behave alike beyond 1. *Probe*: an odd number of ticks makes the rounding of the idle timer visible;
three messages are data before, acknowledgement, data after; a second attempt sees what the first left behind.
*Application*: no gate relates more than four options, and the theorems hold for lines of any length. *Book*:
three messages are a snapshot, a delta and one that is lost or repeated, so that three frames hold a gap and the
whole book that heals it, and a row, a gap and the row that must not be written again; two levels a side of
three prices reach the capacity. *Receipts*: an identity has to be able to be missing, single and repeated at
either endpoint, in either of two rounds; with `PositiveMax` 1 the difference of two receipts overflows on both
sides. *Analysis*: four events fill the window and either capacity first: rows differ in length, so that 3 or 5
may fit where 4 relations are allowed; the second analysis finds the files of the first.

**Deadlock** is checked everywhere but in `bundle_writer`, where the end of the process is a real end. Elsewhere
an ended run stutters explicitly (`Exited`, `Done`).

**Fairness.** In `WsDeadline`: the clock, the timer and the caller's loop; never the network (`OperationEnds`).
In `CaptureRound`: threads are scheduled, the clock runs, and an operation is sure to return only when its time
is up. For WebSocket operations that is what `EveryCallReturns` shows of `run_ws_deadline`. For `setup` it
assumes that a resolver asked to cancel comes back, which a blocked `getaddrinfo` need not do
(`Network/NetCommon.cpp:55`): the capture's end then waits for the system resolver, which is outside the
program. In `HttpSession` the program's own steps, the clock and `TimesOut` are fair, no answer is; `PairedRest`
takes over that a request returns once its time is up. In `WsProbe` the clock, the loop and the firing of a due
timer are fair, no message is. `Application`'s fairness is that the program goes on; no property of a run needs
it. No fairness is assumed of failures, threads that throw, or answers.

## 4. What TLAPS proves

From the named assumptions on the constants only, for any number of threads, channels, requests, messages,
records, bytes and ticks:

| Module | Theorem | Statement |
|---|---|---|
| `BundleWriterProofs` | `WriterInvariant`, `WriterTypeCorrect` | `[]IInv`, `[]TypeOK` |
| | `IndexAlwaysAccepted` | `[]IndexContract` |
| | `RowsAreSound` | `[]RowsPointAtTheirPayload` |
| | `BudgetIsKept` | `[]BudgetKept` |
| | `CompleteMeansDurable` | `[]CompleteIsDurable` |
| | `MarkerFollowsManifest` | `[]MarkerMeansComplete` |
| | `WriterImplementsEvidenceLog` | `Spec => ImplementsEvidenceLog` |
| | `CompleteLogIsWhole`, `VerdictsAreFinal` | `[]Log!CompleteKeptAll`, `Spec => Log!VerdictIsFinal`: what the promise is worth |
| `CaptureRoundProofs` | `CaptureInvariant`, `CaptureTypeCorrect` | `[]IInv`, `[]TypeOK` |
| | `BarrierIsAlwaysUsedOnce` | `[]BarrierIsUsedOnce` |
| | `NobodyEverStartsEarly` | `[]NobodyStartsEarly` |
| | `SessionsAreAlwaysReadable` | `[]SessionsAreReadable` |
| | `OutagesAreMeasured` | `[]OutageIsMeasuredWhole` |
| | `StatusZeroIsAlwaysEarned` | `[]StatusZeroIsEarned` |
| | `DeadlineHolds` | `Spec => RoundKeepsItsDeadline` (an action property) |
| `HttpSessionProofs` | `SessionInvariant`, `SessionTypeCorrect` | `[]IInv`, `[]TypeOK` |
| | `AnswersAreOwn`, `ReuseIsMarked`, `OfferedIsUsable`, `NoSocketLeaks` | `[]AnswerIsToThisRequest`, `[]ReuseIsTrue`, `[]AvailableIsUsable`, `[]NoSocketIsLeft` |
| | `ARequestIsOneStep` | `Spec => ImplementsConnection` |
| `WsProbeProofs` | `ProbeInvariant`, `ProbeTypeCorrect` | `[]IInv`, `[]TypeOK` |
| | `SuccessIsAlwaysProved`, `TimeoutsHadTheirTime` | `[]SuccessIsProved`, `[]TimeoutHadItsTime` |
| | `DeadlineInvariant`, `DeadlineTypeCorrect` | `[]CallInv`, `[]CallTypeOK` of `WsDeadline` |
| | `HandlersAreDrained`, `OutcomesAreTrue` | `[]NothingOutlivesTheCall`, `[]OutcomeIsTrue` |
| `PairedRestProofs` | `PairedInvariant`, `PairedTypeCorrect` | `[]IInv`, `[]TypeOK` |
| | `RequestsAreInTheirRound`, `PairsAreTogether` | `[]RequestsStayInTheirRound`, `[]PairIsTogether` |
| | `RowsPointRight`, `CompleteMeansWhole` | `[]RowsPointAtTheirBodies`, `[]CompleteIsWhole` |
| | `ConnectionsAreNewAtRoundStart` | `[]NewConnectionOnlyAtRoundStart` |
| | `EveryRowHasItsRequest`, `PairedImplementsEvidenceLog` | `[]KeptInv`, `Spec => ImplementsEvidenceLog` |
| `ApplicationProofs` | `ApplicationInvariant`, `ApplicationTypeCorrect` | `[]IInv`, `[]TypeOK` |
| | `CapturesAreConfirmed`, `StatusZeroIsTrue` | `[]CaptureIsAsConfirmed`, `[]ZeroMeansDone` |
| `BookReconstructionProofs` | `BookInvariant`, `BookTypeCorrect` | `[]IInv`, `[]TypeOK` |
| | `BookIsTheVenues`, `UnbrokenBooksAreValid` | `[]ReconstructionIsTrue`, `[]UnbrokenBookIsValid` |
| | `RowsAreTheBook` | `Spec => RowsFollowTheBook` (an action property) |
| `AnalysisProofs` | `AnalysisInvariant` | `[]IInv` |
| | `RelationsAreTrue` | `[]RelationsAreObservations` |
| | `CountsAreRight`, `SummaryIsLast` | `[]RelationsAreCounted`, `[]FindingsComeLast` |
| | `ReceiptsInvariant` | `[]ReceiptsInv` of `PairedReceipts` |
| | `SamplesAreAlwaysExact` | `[]SamplesAreExact` |
| | `EveryRecordIsAccounted`, `QuantilesAreTrueRanks` | `[]RecordsAreAccounted`, `[]QuantilesAreRanks` |

*The writer's argument.* None of its properties is inductive: that a row points at its own bytes depends on
`frame_bytes` being the size of the stream, which is false after a short write. The strengthening is: as long as
`artifact_complete` holds, streams are good, `frame_bytes`, `next_frame_id` and `bytes_written` are the sizes
and counts of what is in them, and lines are exactly as many as frames; a loss clears the flag for good, after
which no record passes `Fits`, so the index is frozen and every line in it was written under the first regime.
The verdict conjuncts say that after `finish` the flags, the durable sizes and the manifest agree. There is a
lemma per action. *The refinement* follows from the invariant: records map to `Offer`, failing flushes to
`Lose`, the manifest to `Seal` (its third case, a manifest that cannot be replaced, to `Lose`), the marker to
`FailAfterVerdict` or a stutter.

*The capture's argument.* `BarrierInv` counts: `barrier.expected + next = |started| + |channels| + 1` says that
the barrier expects the workers started and those the supervisor has still to start or to drop, and `Fits` that
it has seen every arrival once. Hence the one phase cannot complete before all have arrived, which is
`NobodyStartsEarly`, and no arrival can begin a second. It rests on `Starting` being a permutation of the
channels in either order, proved from the assumption on `Order`. `RowsInv` ties a worker's place to the rows of
its round: which generations came up, that the current one has not before `connected`, and that an outage under
way began at the end of the last session that was up. `StatusInv` carries what has gone right in the rounds
before as long as `any_failure` is false. `WaitInv`, that nobody past the barrier waits longer than the round
has left, is inductive by itself and gives the action property with what each handler does at the deadline.
Steps that only append rows of no consequence are handled once (`QuietStep` and the lemmas on sequences before
it); the four that are of consequence have a lemma each.

*The deadline's argument.* What each place of the caller implies of the two handlers: `completed <=> no handler
pending` for both, and `timed_out <=> socket closed` while looping.

*The session's argument.* Which stage has a connection, what it owes there, how many answers were read on it,
and what the result under construction already says of the session before. The refinement maps a session in the
middle of a request to what it was when it was asked; every exit is either `FailureIsGet` (the connection is
given up) or the release of a whole answer, and all other steps stutter.

*The book's argument.* A book without a gap is the venue's as of its last id even while it is not valid
(crossed, empty, incomplete): validity comes and goes without an id, so that the property itself is not
inductive (`TruthInv`). `SeenInv` follows the messages since a whole book, frame by frame, without asking
whether the book is valid meanwhile; `RowsInv` says that what the book remembers as reported is the last row of
the file. *The probe's*: the two flags say what the messages show so far, and the idle timer never gives up more
than a second early. *The application's*: which lines come to which stage, which leaves a matter of
propositional logic over the options.

*The paired capture's argument.* `LatchInv` says what the place of the main thread means for the two workers and
for the latches: `ready` is what the workers still owe it, and `start` opens exactly when all have arrived or
the pair is given up. `AnswerInv` carries the connections: within a round a pair finds both of them fresh (the
first slot) or established (every other), because a failed request ends the round; what a result says of its
connection (`Told`) is taken from `Http!Outcomes`. The rows then follow by `NewConnectionOnlyAtRoundStart`
itself, which is inductive with it. `FilesInv` says that the counters are the sizes of the streams until
something is lost, after which no row is added; `CountsInv` counts the rows of the round under way, half a pair
included (`Done`), and of the rounds before; `VerdictInv` that an invalid row cannot go unnoticed. Rows are
counted by `Cardinality` over their indexes, so that the one lemma needed is what a row more does to such a set.
The refinement needs `KeptInv` besides: an exception while a row is made leaves the request counted or not and
`artifact_ok` alone, and is harmless only because nothing is asked after it (`OfferStep`).

*The analysis's argument.* A relation is judged against `Expected`, which is defined from the events alone. The
indexes hold the last event of each key (`IndexInv`), the window every market event that is not yet too old, in
order (`WindowInv`), so that the candidates of an event are exactly the relations to expect of it, but for those
beyond `MaxCandidates` (`CandidatesAreNew`). That all of the window that is too old is at its front rests on the
order of the events' times, `InTime`. What the fold over the candidates does is proved by the least
counterexample: `LeastNat` (there is a least number with a property, from the well-foundedness of the strict
subset order on finite sets) and `FoldSteps` (the fold over the first k candidates is one step from that over
the first k - 1) give `RowsOfOneEvent`, that the rows grow by exactly the candidates as long as nothing is
dropped. `FilesInv` is why the findings come last: summary files are absent until a first analysis has all
derived files whole.

*The receipts' argument.* `CountsInv` says that what an identity has counted is the number of records of the
bundle that have it, and that its receipt is that of one of them; so a count of 1 leaves no choice whose it is.
`RepeatsInv` says that the records with an id are as many as the identities seen and the repeats of them, which
is what makes the tallies add up: an identity that is seen is single, alone or ambiguous, and only one of these
(`SeenIsSorted`). `ReportInv` keeps an overflow, and a file that is not whole, away from the report that stands.
The rest is about data of any size, by the least counterexample again (`SmallestOf`: of some subsets of a finite
set one has none of the others one element below it): a sum of counts is the number of things counted
(`SumIsCount`), a finite set of samples can be ordered (`OrderThere`), and the nearest rank has less than its
share of the samples below it and at least its share not above (`PercentileIsRank`).

**Only model-checked.** Every liveness property and `ENABLED` (outside what the prover does here). Every safety
property that a passing run checks, invariant or action property, and all three refinements are proved.

## 5. What the work has shown of the code

The properties are stated as the code keeps them. Where that is less than a reader might expect, or worth
knowing:

- The README says "Existing private REST probes are read-only and require both credentials and
  `--confirm-private`" (`README.md:154`), the usage text "Private REST is read-only and requires
  --confirm-private" (`Cli.cpp:536`). The code serves no such line: a sandbox is the one command that comes to
  the probes of `run_application`, and `parse_cli` refuses it with either option (`Cli.cpp:439`),
  `run_application` with a private surface (`Application.cpp:101`). Signing and the reading of credentials
  behind these gates (`Application.cpp:114-134`) are not reached. This is the finding of the run
  `private_surface`.
- The branch of `WsClient.cpp` in which data implies the acknowledgement has no effect for the built-in cases
  that require one.
- The idle timer of a WebSocket operation counts whole seconds, rounded down to one at least
  (`WsClient.cpp:41`): an operation may be given up to a second before its deadline, and one that begins with
  less than a second left may end after it.
- Discovery writes its proposal before the state of the evidence file is known; the exit status tells, but
  `profile promote` does not look at the evidence.
- A depth payload that fails to inflate but parses as it is, or with a field too long to keep, has its levels
  applied without ids, the former even those of a snapshot on top of the old ones (the ghost `unchecked`): the
  book may then differ from the venue's and still count as valid. Where the profile names no previous ids, order
  is only counted, not enforced.
- `analyze` looks neither at the manifest's verdict nor at `COMPLETE`; analysing a bundle again truncates the
  derived files while the old findings remain, which is why `FindingsComeLast` is stated of the findings of the
  same run.
- `relation_id` counts one row more than the file holds once the file is full by bytes.
- The order of native ids is not transitive over ids of which some are numbers and some are not; it only feeds a
  count.
- The manifest of a paired REST capture is written last and in place, not by rename: a crash leaves none or a
  truncated one, never one that says complete.

## 6. What is not modelled

- *Viewer*: one thread accepts, reads, answers and closes in turn; that the next client is served is exactly the
  fairness of the present one. Its start and failure are in `Application`.
- *Credentials and signing*: cryptography, and unreachable (above). A private request's one signature for all
  attempts is unreachable with it.
- *Redaction, gzip, output, static tables, the grammar of profiles, sandboxes and catalogs, contracts*:
  functions of strings without state. Their results appear as choices (a payload that does not inflate, a
  document that does not parse, a message that acknowledges).
- *Readers*: what `read_frame_index` and `read_lifecycle` demand are properties of the writer and of the
  capture. `SessionsAreReadable` judges the rows handed to the writer, field by field: a line torn by a crash or
  a short write, and the reader's capacities for the file, its lines and its rows (`Relations.cpp:97`, `118`,
  `124`, `126`), are refusals it leaves out; they end the analysis, as `Refuse` does. `admitted_pair` and the
  lifecycle tallies of the paired report are taken as done.
- *Placement*: its refusals and status are in `Application`; a scan keeps no state between endpoints but a cache
  of locations, looked up for pinned routes only, with no second try of a failed lookup.
- *dumpcap* is an external program, seen only through whether it starts and whether stopping it succeeds.
  Control rows are in `BundleWriter`, not in `CaptureRound`.
- *Unsolicited HTTP answers* (bytes left in `buffer_` by a peer that answers twice) are outside what the code
  claims to detect; the peer of `HttpSession` answers each request once.
