------------------------------- MODULE WsProbe -------------------------------
(***************************************************************************)
(* A public WebSocket probe: run_public_ws (src/src/Runtime/               *)
(* ProbeRunner.cpp) makes up to Attempts calls of observe_ws               *)
(* (src/src/Network/WsClient.cpp), each with a deadline of its own, and    *)
(* keeps the observation of the last one.                                  *)
(*                                                                         *)
(* A message is what the validators of src/src/Contracts.cpp make of it:   *)
(* does it acknowledge, does it carry the data asked for; or it is a ping  *)
(* of the application, an invalid one, or a payload that does not decode.  *)
(* Every case the program builds requires data.  Time is in ticks, Second  *)
(* of them to a second.                                                    *)
(***************************************************************************)
EXTENDS Integers, Sequences, FiniteSetsExt

CONSTANTS
  Timeout,      \* limits.timeout
  Attempts,     \* limits.attempts
  Second,       \* ticks in a second
  MaxMessages   \* bound: messages read in one attempt, pings apart

ASSUME ProbeAssumption ==
  /\ Timeout \in Nat \ {0} /\ Attempts \in Nat \ {0}
  /\ Second \in Nat \ {0} /\ MaxMessages \in Nat

VARIABLES
  probe_case,
  clock,
  attempt,      \* attempts begun
  pc,           \* the operation in flight; "idle" between attempts, "done"
  deadline,
  give_up,      \* when the idle timer of the stream ends the operation
  stage,        \* result.protocol_stage
  connected,
  ack_complete,
  data_complete,
  last,         \* the observation of the last attempt
  consumed      \* ghost: the messages this attempt has read since its subscription

\* The cases the program builds: the defaults of WsCase, JSON, KuCoin and SBE
\* subscriptions with an acknowledgement, BingX whose acknowledgement may carry
\* data, the streams without one (HTX adds heartbeat and compression), and the
\* candidates of discovery, which a sandbox file's are like.
WsCase == [welcome |-> FALSE, subscribe |-> TRUE, require_ack |-> FALSE,
           data_implies_ack |-> FALSE, ack_implies_data |-> FALSE,
           heartbeat |-> FALSE, gzip |-> FALSE]

\* Without an acknowledgement (Binance trades, Aster funding) the path names the
\* stream, and there is nothing to subscribe.
JsonWs(acknowledged) ==
  [WsCase EXCEPT !.require_ack = acknowledged, !.subscribe = acknowledged]

SbeWs == [WsCase EXCEPT !.require_ack = TRUE]

KucoinWs == [WsCase EXCEPT !.require_ack = TRUE, !.welcome = TRUE]

BingxWs == [JsonWs(TRUE) EXCEPT !.ack_implies_data = TRUE, !.gzip = TRUE]

StreamWs(htx) == [WsCase EXCEPT !.data_implies_ack = TRUE, !.heartbeat = htx, !.gzip = htx]

CandidateWs(subscribe) == [WsCase EXCEPT !.data_implies_ack = TRUE, !.subscribe = subscribe]

Cases == {SbeWs, KucoinWs, BingxWs} \cup {JsonWs(acknowledged) : acknowledged \in BOOLEAN}
         \cup {StreamWs(htx) : htx \in BOOLEAN} \cup {CandidateWs(s) : s \in BOOLEAN}

progress == <<ack_complete, data_complete>>
vars     == <<probe_case, clock, attempt, pc, deadline, give_up, stage, connected,
              progress, last, consumed>>

Judged == [kind : {"text"}, ack : BOOLEAN, data : BOOLEAN]

Special(kind) == [kind |-> kind, ack |-> FALSE, data |-> FALSE]

\* What can be read in answer to a case: pings and compressed payloads are
\* told apart only where the case declares them.
Messages ==
  Judged \cup (IF probe_case.heartbeat THEN {Special("ping"), Special("bad_ping")} ELSE {})
         \cup (IF probe_case.gzip THEN {Special("bad_gzip"), Special("gzip_too_big")} ELSE {})

NoObservation == [met |-> FALSE, outcome |-> "NotRun", used |-> 0]

Init ==
  /\ probe_case \in Cases
  /\ clock = 0
  /\ attempt = 0
  /\ pc = "idle"
  /\ deadline = 0
  /\ give_up = 0
  /\ stage = "configuration"
  /\ connected = FALSE
  /\ ack_complete = FALSE
  /\ data_complete = FALSE
  /\ last = NoObservation
  /\ consumed = << >>

-----------------------------------------------------------------------------
(* The observation of an attempt *)

\* Faulty variant: a capacity error is taken for a timeout.
TransportOutcome_Timeout(where, error) == "Timeout"

\* transport_outcome: by the text of the error first, then by the stage.
TransportOutcome(where, error) ==
  IF error = "capacity_exceeded"    THEN "CapacityExceeded"
  ELSE IF error = "timeout"         THEN "Timeout"
  ELSE IF where = "tls_handshake"   THEN "TlsError"
  ELSE "TransportError"

Outcome(met, where, error) ==
  IF met THEN "Success"
  ELSE IF where = "decompression" /\ error # "capacity_exceeded" THEN "SchemaError"
  ELSE TransportOutcome(where, error)

\* The end of observe_ws and what run_public_ws makes of it.  error is "none",
\* or a failure; a loop that ran out of time has an error of its own.
EndAttempt(where, error) ==
  LET missing == ~ack_complete' \/ ~data_complete'
      final   == IF error = "none" /\ missing THEN "timeout" ELSE error
      met     == connected /\ ack_complete' /\ data_complete' /\ final = "none"
  IN /\ last' = [met |-> met, outcome |-> Outcome(met, where, final), used |-> attempt]
     /\ stage' = where
     /\ pc' = IF met \/ attempt = Attempts THEN "done" ELSE "idle"

StartAttempt ==
  /\ pc = "idle"
  /\ attempt' = attempt + 1
  /\ deadline' = clock + Timeout
  /\ give_up' = clock + Timeout
  /\ stage' = "dns"
  /\ pc' = "dns"
  /\ connected' = FALSE
  /\ ack_complete' = ~probe_case.require_ack
  /\ data_complete' = FALSE
  /\ consumed' = << >>
  /\ UNCHANGED <<probe_case, clock, last>>

-----------------------------------------------------------------------------
(* Operations on the stream: run_ws_deadline lets none of them succeed late *)

\* remaining_seconds: whole seconds, at least one.
IdleAllowance(left) == Max({Second, (left \div Second) * Second})

\* configure_ws_timeout in front of an operation.
Arm == give_up' = clock + IdleAllowance(deadline - clock)

\* The stages up to the WebSocket handshake, in their order.
Setup == <<"dns", "tcp_connect", "tls_handshake", "ws_handshake">>

\* The next operation on the connected stream.
AfterWelcome == IF probe_case.subscribe THEN "subscribe_write" ELSE "loop"

AfterHandshake ==
  IF probe_case.welcome THEN "welcome" ELSE AfterWelcome

SetupSucceeds ==
  \E i \in DOMAIN Setup :
    /\ pc = Setup[i]
    /\ clock < deadline
    /\ pc' = IF i = Len(Setup) THEN AfterHandshake ELSE Setup[i + 1]
    /\ stage' = IF i = Len(Setup) THEN AfterHandshake ELSE Setup[i + 1]
    /\ connected' = (i = Len(Setup))
    /\ Arm
    /\ UNCHANGED <<probe_case, clock, attempt, deadline, progress, last, consumed>>

\* The welcome of KuCoin, or something else in its place.
Welcome(valid) ==
  /\ pc = "welcome"
  /\ clock < deadline
  /\ UNCHANGED progress
  /\ IF valid
       THEN /\ pc' = AfterWelcome /\ stage' = AfterWelcome
            /\ Arm
            /\ UNCHANGED last
       ELSE EndAttempt("welcome", "welcome_contract_mismatch") /\ UNCHANGED give_up
  /\ UNCHANGED <<probe_case, clock, attempt, deadline, connected, consumed>>

Subscribe ==
  /\ pc = "subscribe_write"
  /\ clock < deadline
  /\ pc' = "loop"
  /\ UNCHANGED <<probe_case, clock, attempt, deadline, give_up, stage, connected,
                 progress, last, consumed>>

\* An operation in flight fails, and the attempt with it.
OperationFailed(error) ==
  /\ pc \in {"dns", "tcp_connect", "tls_handshake", "ws_handshake", "welcome",
             "subscribe_write", "read", "application_pong"}
  /\ error = "capacity_exceeded" => pc \in {"welcome", "read"}
  /\ UNCHANGED progress
  /\ EndAttempt(stage, error)
  /\ UNCHANGED <<probe_case, clock, attempt, deadline, give_up, connected, consumed>>

\* Faulty variant: no timer runs around a read of the loop.
OperationFails_Unarmed(error) ==
  /\ error = "timeout" => pc # "read" /\ (clock >= deadline \/ clock >= give_up)
  /\ OperationFailed(error)

\* On its own, or by one of the two timers.
OperationFails(error) ==
  /\ error = "timeout" => clock >= deadline \/ clock >= give_up
  /\ OperationFailed(error)

-----------------------------------------------------------------------------
(* The loop over acknowledgement and data *)

LoopRead ==
  /\ pc = "loop"
  /\ clock < deadline
  /\ pc' = "read"
  /\ stage' = IF ack_complete THEN "data_read" ELSE "ack_read"
  /\ Arm
  /\ UNCHANGED <<probe_case, clock, attempt, deadline, connected, progress, last, consumed>>

LoopExpires ==
  /\ pc = "loop"
  /\ clock >= deadline
  /\ UNCHANGED progress
  /\ EndAttempt(stage, "none")
  /\ UNCHANGED <<probe_case, clock, attempt, deadline, give_up, connected, consumed>>

ReadSucceeds(m) ==
  /\ pc = "read"
  /\ clock < deadline
  /\ Len(consumed) < MaxMessages
  /\ UNCHANGED <<probe_case, clock, attempt, deadline, connected>>

\* A ping of the application is answered before anything else is read.
ReadPing ==
  /\ ReadSucceeds(Special("ping"))
  /\ probe_case.heartbeat
  /\ pc' = "application_pong"
  /\ stage' = "application_pong"
  /\ Arm
  /\ UNCHANGED <<progress, last, consumed>>

WritePong ==
  /\ pc = "application_pong"
  /\ clock < deadline
  /\ pc' = "loop"
  /\ UNCHANGED <<probe_case, clock, attempt, deadline, give_up, stage, connected,
                 progress, last, consumed>>

\* A payload that does not decode, or a ping without a valid number.
ReadBroken(m) ==
  /\ m.kind \in {"bad_ping", "bad_gzip", "gzip_too_big"}
  /\ ReadSucceeds(m)
  /\ UNCHANGED progress
  /\ CASE m.kind = "bad_ping"     -> EndAttempt(stage, "htx_application_ping_invalid")
       [] m.kind = "bad_gzip"     -> EndAttempt("decompression", "gzip_invalid")
       [] m.kind = "gzip_too_big" -> EndAttempt("decompression", "capacity_exceeded")
  /\ UNCHANGED <<give_up, consumed>>

\* validate_ws_ack: without a contract everything acknowledges.
AckMatched(m) == m.ack \/ ~probe_case.require_ack

\* validate_ws_data.
DataMatched(m) == m.data

\* Faulty variant: data counts whenever it comes.
Observe_Early(m) ==
  /\ ack_complete' = (ack_complete \/ AckMatched(m))
  /\ data_complete' = (data_complete \/ DataMatched(m))
  /\ stage' = IF DataMatched(m) THEN "data" ELSE stage

\* What one message adds: data counts after the acknowledgement, with it where
\* the case says so, and never before it unless data implies it.
Observe(m) ==
  LET acks    == ~ack_complete /\ AckMatched(m)
      implies == ~ack_complete /\ ~AckMatched(m) /\ probe_case.data_implies_ack /\ DataMatched(m)
      counts  == \/ acks /\ probe_case.ack_implies_data /\ DataMatched(m)
                 \/ implies
                 \/ ack_complete /\ DataMatched(m)
  IN /\ ack_complete' = (ack_complete \/ acks \/ implies)
     /\ data_complete' = (data_complete \/ counts)
     /\ stage' = CASE acks                         -> "ack"
                   [] implies                      -> "data_implies_ack"
                   [] ack_complete /\ DataMatched(m) -> "data"
                   [] OTHER                        -> stage

ReadText(m) ==
  /\ m.kind = "text"
  /\ ReadSucceeds(m)
  /\ consumed' = Append(consumed, m)
  /\ Observe(m)
  /\ IF ack_complete' /\ data_complete'
       THEN EndAttempt(stage', "none")
       ELSE pc' = "loop" /\ UNCHANGED last
  /\ UNCHANGED give_up

Read == \E m \in Messages :
  \/ m.kind = "ping" /\ ReadPing
  \/ ReadBroken(m)
  \/ ReadText(m)

-----------------------------------------------------------------------------
\* Time passes while something is in flight.
Tick ==
  /\ pc \notin {"idle", "done"}
  /\ clock < deadline
  /\ clock' = clock + 1
  /\ UNCHANGED <<probe_case, attempt, pc, deadline, give_up, stage, connected,
                 progress, last, consumed>>

Done == pc = "done" /\ UNCHANGED vars

Step ==
  \/ StartAttempt
  \/ SetupSucceeds
  \/ \E valid \in BOOLEAN : Welcome(valid)
  \/ Subscribe
  \/ \E error \in {"timeout", "capacity_exceeded", "transport"} : OperationFails(error)
  \/ LoopRead
  \/ LoopExpires
  \/ Read
  \/ WritePong

Next == Step \/ Tick \/ Done

\* The clock runs, the thread of the probe is scheduled, and a timer that has
\* expired ends its operation.  For the resolver this assumes that getaddrinfo
\* returns: cancel() does not interrupt it.
TimersFire == OperationFails("timeout")

Spec ==
  /\ Init
  /\ [][Next]_vars
  /\ WF_vars(Tick)
  /\ WF_vars(StartAttempt)
  /\ WF_vars(LoopRead)
  /\ WF_vars(LoopExpires)
  /\ WF_vars(TimersFire)
-----------------------------------------------------------------------------
\* What a subscription has to show, said of all the messages at once.  The
\* first of them that acknowledges is at Acknowledged, 0 if nothing has to.
Acknowledges(m) == AckMatched(m) \/ (probe_case.data_implies_ack /\ DataMatched(m))

Acknowledged(i) ==
  IF probe_case.require_ack
    THEN /\ i \in DOMAIN consumed /\ Acknowledges(consumed[i])
         /\ \A j \in 1..(i - 1) : ~Acknowledges(consumed[j])
    ELSE i = 0

Proved ==
  \E i \in 0..Len(consumed) : \E j \in DOMAIN consumed :
    /\ Acknowledged(i)
    /\ DataMatched(consumed[j])
    /\ \/ j > i
       \/ j = i /\ (probe_case.ack_implies_data \/ ~AckMatched(consumed[i]))

\* An attempt is judged a success exactly when its messages prove the
\* subscription: data counts after the acknowledgement only, or with it where
\* the case says so, and nothing that proves it is overlooked
\* (WsClient.cpp:385, ProbeRunner.cpp:314).
SuccessIsProved ==
  pc \in {"idle", "done"} /\ attempt > 0 => (last.met <=> Proved)

\* An attempt that is reported as a timeout had its time: it is given up at
\* most a second before its deadline, the rounding of the idle timer, and
\* nothing else is ever reported as one (WsClient.cpp:39, ProbeRunner.cpp:28).
TimeoutHadItsTime ==
  pc \in {"idle", "done"} /\ last.outcome = "Timeout" => clock + Second > deadline

-----------------------------------------------------------------------------
(* The invariant behind them *)

CaseType ==
  [welcome : BOOLEAN, subscribe : BOOLEAN, require_ack : BOOLEAN, data_implies_ack : BOOLEAN,
   ack_implies_data : BOOLEAN, heartbeat : BOOLEAN, gzip : BOOLEAN]

SettingUp == {"dns", "tcp_connect", "tls_handshake", "ws_handshake"}

Exchanging == {"welcome", "subscribe_write", "loop", "read", "application_pong"}

TypeOK ==
  /\ probe_case \in CaseType
  /\ clock \in Nat /\ deadline \in Nat /\ give_up \in Nat
  /\ attempt \in Nat
  /\ pc \in {"idle", "done"} \cup SettingUp \cup Exchanging
  /\ connected \in BOOLEAN /\ ack_complete \in BOOLEAN /\ data_complete \in BOOLEAN
  /\ consumed \in Seq(Judged)

Over == pc \in {"idle", "done"}

\* The flags of the attempt say what its messages show.
ProgressInv ==
  attempt > 0 =>
    /\ IF ack_complete
         THEN \E i \in 0..Len(consumed) : Acknowledged(i)
         ELSE probe_case.require_ack /\ \A j \in DOMAIN consumed : ~Acknowledges(consumed[j])
    /\ data_complete => ack_complete
    /\ data_complete <=> Proved

\* An attempt in progress is one that has not got what it wants.
AttemptInv ==
  /\ attempt = 0 => pc = "idle" /\ last = NoObservation
  /\ ~Over => ~data_complete
  /\ pc \in Exchanging => connected
  /\ Over /\ attempt > 0 => (last.met <=> data_complete)

\* The idle timer rounds its time to seconds, to one at least.
TimeInv == ~Over => give_up + Second > deadline

IInv == TypeOK /\ ProgressInv /\ AttemptInv /\ TimeInv /\ TimeoutHadItsTime

\* Every probe comes to its observation, whatever the server sends or keeps
\* to itself.
ProbeReturns == <>(pc = "done")
=============================================================================
