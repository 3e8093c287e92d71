----------------------------- MODULE HttpSession -----------------------------
(***************************************************************************)
(* HttpSession::request (src/src/Network/HttpClient.cpp): a TLS connection *)
(* set up on demand, one HTTP exchange stage by stage under an absolute    *)
(* deadline, and what becomes of the connection afterwards.                *)
(*                                                                         *)
(* The peer answers the requests that reach it in order, once each.        *)
(* owed are the requests of this connection whose answers have not been    *)
(* read yet: the socket and buffer_ hold at most these.                    *)
(***************************************************************************)
EXTENDS Naturals, Sequences

CONSTANTS
  MaxRequests,  \* bound: requests made of one session
  MaxLeft       \* bound: the time a caller gives a request

ASSUME SessionAssumption == MaxRequests \in Nat /\ MaxLeft \in Nat

VARIABLES
  persistent,  \* public keep-alive diagnostic, or the one-shot of a probe
  pc,          \* idle, or the stage of the request
  left,        \* time to the deadline of the request
  connected,   \* connected_
  invalid,     \* invalid_
  completed,   \* completed_requests_
  stream,      \* stream_: none, open or closed
  working,     \* the result being filled in
  result,      \* the result returned last
  \* ghosts
  asked,       \* requests made of this session
  owed,
  answered,    \* the request whose answer was read last
  opened,      \* connections this session has opened
  served,      \* answers read on the present connection
  before       \* the session when the request began

session == <<connected, invalid, completed, stream>>
ghosts  == <<asked, owed, answered, opened, served, before>>
vars    == <<persistent, pc, left, session, working, result, ghosts>>

NoResult == [cold |-> FALSE, reused |-> FALSE, received |-> FALSE,
             error |-> FALSE, available |-> FALSE]

Present == [connected |-> connected, invalid |-> invalid, used |-> completed # 0]

Fresh == [connected |-> FALSE, invalid |-> FALSE, used |-> FALSE]

Init ==
  /\ persistent \in BOOLEAN
  /\ pc = "idle"
  /\ left = 0
  /\ connected = FALSE
  /\ invalid = FALSE
  /\ completed = 0
  /\ stream = "none"
  /\ working = NoResult
  /\ result = NoResult
  /\ asked = 0
  /\ owed = << >>
  /\ answered = 0
  /\ opened = 0
  /\ served = 0
  /\ before = Fresh

-----------------------------------------------------------------------------
\* close_socket: nothing to do before stream_ exists.
CloseSocket ==
  /\ stream' = IF stream = "none" THEN "none" ELSE "closed"
  /\ connected' = (connected /\ stream = "none")

\* Faulty variant: a failed connection may be replaced.
Invalidate_Reconnects == CloseSocket /\ UNCHANGED invalid

Invalidate == CloseSocket /\ invalid' = TRUE

\* finish(): a one-shot is over and its socket closed.
Finish(r) ==
  /\ result' = [r EXCEPT !.available = persistent /\ connected' /\ ~invalid']
  /\ pc' = "idle"
  /\ left' = 0
  /\ working' = NoResult

FinishKeeping(r) ==
  /\ IF persistent THEN UNCHANGED <<connected, stream>> ELSE CloseSocket
  /\ UNCHANGED invalid
  /\ Finish(r)

Failed(r) == [r EXCEPT !.error = TRUE]

\* Faulty variant: a request that fails leaves the connection for the next.
RequestFails_Keeps(r) == FinishKeeping(Failed(r))

\* Every failure of the exchange ends the connection.
RequestFails(r) == Invalidate /\ Finish(Failed(r))

-----------------------------------------------------------------------------
\* A persistent session may be asked again, a one-shot is made for one request.
Get(d) ==
  /\ pc = "idle"
  /\ IF persistent THEN asked < MaxRequests ELSE asked = 0
  /\ asked' = asked + 1
  /\ before' = Present
  /\ left' = d
  /\ pc' = "asked"
  /\ UNCHANGED <<persistent, session, working, result, owed, answered, opened, served>>

\* An invalidated session and an expired deadline do nothing at all.
Refuse ==
  /\ pc = "asked"
  /\ invalid \/ left = 0
  /\ FinishKeeping(Failed(working))
  /\ UNCHANGED <<persistent, completed, ghosts>>

Marked(r) == [r EXCEPT !.reused = persistent /\ completed # 0]

Reuse ==
  /\ pc = "asked"
  /\ ~invalid /\ left > 0
  /\ connected
  /\ working' = Marked(working)
  /\ pc' = "http_write"
  /\ UNCHANGED <<persistent, left, session, result, ghosts>>

SetUp ==
  /\ pc = "asked"
  /\ ~invalid /\ left > 0
  /\ ~connected
  /\ pc' = "ca_paths"
  /\ UNCHANGED <<persistent, left, session, working, result, ghosts>>

SetupStage == <<"ca_paths", "dns", "tcp_connect", "tls_configuration", "tls_handshake">>

\* The result after a stage of the setup, well or badly ended: from dns on it
\* carries dns_ns.
Measured(r, stage) == [r EXCEPT !.cold = @ \/ (persistent /\ stage = "dns")]

SetupAdvances(i) ==
  /\ pc = SetupStage[i]
  /\ i < Len(SetupStage)
  /\ pc' = SetupStage[i + 1]
  /\ working' = Measured(working, pc)
  /\ stream' = IF pc = "dns" THEN "open" ELSE stream
  /\ UNCHANGED <<persistent, left, connected, invalid, completed, result, ghosts>>

Connect ==
  /\ pc = "tls_handshake"
  /\ connected' = TRUE
  /\ working' = Marked(working)
  /\ pc' = "http_write"
  /\ owed' = << >>
  /\ opened' = opened + 1
  /\ served' = 0
  /\ UNCHANGED <<persistent, left, invalid, completed, stream, result, asked, answered, before>>

SetupFails(i) ==
  /\ pc = SetupStage[i]
  /\ Invalidate
  /\ Finish(Failed(Measured(working, pc)))
  /\ UNCHANGED <<persistent, completed, ghosts>>

-----------------------------------------------------------------------------
Write ==
  /\ pc = "http_write"
  /\ owed' = Append(owed, asked)
  /\ pc' = "http_header_read"
  /\ UNCHANGED <<persistent, left, session, working, result, asked, answered, opened,
                 served, before>>

\* A write that fails may yet have reached the peer.
WriteFails ==
  /\ pc = "http_write"
  /\ owed' \in {owed, Append(owed, asked)}
  /\ RequestFails(working)
  /\ UNCHANGED <<persistent, completed, asked, answered, opened, served, before>>

ReadHeader ==
  /\ pc = "http_header_read"
  /\ owed # << >>
  /\ pc' = "http_body_read"
  /\ UNCHANGED <<persistent, left, session, working, result, ghosts>>

\* A read error, a capacity, an answer that is not HTTP.
ReadFails ==
  /\ pc \in {"http_header_read", "http_body_read"}
  /\ RequestFails(working)
  /\ UNCHANGED <<persistent, completed, ghosts>>

ReadBody ==
  /\ pc = "http_body_read"
  /\ answered' = Head(owed)
  /\ owed' = Tail(owed)
  /\ working' = [working EXCEPT !.received = persistent]
  /\ served' = served + 1
  /\ pc' = "received"
  /\ UNCHANGED <<persistent, left, session, result, asked, opened, before>>

\* Faulty variant: an answer that closes the connection is not heeded.
Release_IgnoresClose(keep_alive) ==
  /\ pc = "received"
  /\ completed' = completed + 1
  /\ stream' = IF keep_alive THEN stream ELSE "closed"
  /\ pc' = "json_parse"
  /\ UNCHANGED <<persistent, left, connected, invalid, working, result, ghosts>>

\* The body is copied, the answer counted, and its keep-alive heeded.
Release(keep_alive) ==
  /\ pc = "received"
  /\ completed' = completed + 1
  /\ IF keep_alive THEN UNCHANGED <<connected, invalid, stream>> ELSE Invalidate
  /\ pc' = "json_parse"
  /\ UNCHANGED <<persistent, left, working, result, ghosts>>

\* An answer that is not JSON is an error of the result, not of the connection.
Parse(invalid_json) ==
  /\ pc = "json_parse"
  /\ FinishKeeping([working EXCEPT !.error = invalid_json])
  /\ UNCHANGED <<persistent, completed, ghosts>>

\* An exception (an allocation) anywhere in the request.
Throw ==
  /\ pc # "idle"
  /\ RequestFails(working)
  /\ UNCHANGED <<persistent, completed, ghosts>>

Waiting == {"dns", "tcp_connect", "tls_handshake", "http_write",
            "http_header_read", "http_body_read"}

\* Faulty variant: the deadline of the connect is left on the stream.
Deadline_OnlyConnect == {"dns", "tcp_connect", "tls_handshake"}

\* The operations given the deadline of the request: all that wait.
Deadline == Waiting

\* The deadline passes while an operation waits; a write may have reached the
\* peer all the same.
TimesOut ==
  /\ pc \in Deadline
  /\ left = 0
  /\ RequestFails(Measured(working, pc))
  /\ owed' \in IF pc = "http_write" THEN {owed, Append(owed, asked)} ELSE {owed}
  /\ UNCHANGED <<persistent, completed, asked, answered, opened, served, before>>

Tick ==
  /\ left > 0
  /\ left' = left - 1
  /\ UNCHANGED <<persistent, pc, session, working, result, ghosts>>

\* The destructor closes the socket; another session takes over.
Discard ==
  /\ pc = "idle"
  /\ asked > 0
  /\ persistent' \in BOOLEAN
  /\ connected' = FALSE
  /\ invalid' = FALSE
  /\ completed' = 0
  /\ stream' = "none"
  /\ result' = NoResult
  /\ asked' = 0
  /\ owed' = << >>
  /\ answered' = 0
  /\ opened' = 0
  /\ served' = 0
  /\ before' = Fresh
  /\ UNCHANGED <<pc, left, working>>

\* What the program does by itself, as opposed to waiting for the network.
LocalStep ==
  \/ Refuse \/ Reuse \/ SetUp
  \/ \E keep_alive \in BOOLEAN : Release(keep_alive)
  \/ \E invalid_json \in BOOLEAN : Parse(invalid_json)
  \/ pc \notin Waiting /\ \E i \in DOMAIN SetupStage : SetupAdvances(i) \/ SetupFails(i)

NetworkStep ==
  \/ pc \in Waiting /\ \E i \in DOMAIN SetupStage : SetupAdvances(i) \/ SetupFails(i)
  \/ Connect
  \/ Write \/ WriteFails
  \/ ReadHeader \/ ReadBody \/ ReadFails

Next ==
  \/ \E d \in 0 .. MaxLeft : Get(d)
  \/ LocalStep
  \/ NetworkStep
  \/ TimesOut
  \/ Throw
  \/ Tick
  \/ Discard

\* The program runs, time passes and a deadline is noticed; the network need
\* never answer.
Fairness == WF_vars(LocalStep) /\ WF_vars(TimesOut) /\ WF_vars(Tick)

Spec == Init /\ [][Next]_vars /\ Fairness
-----------------------------------------------------------------------------
(* Properties *)

Stages == {"idle", "asked", "received", "json_parse"} \cup Waiting
          \cup {"ca_paths", "tls_configuration"}

Results == [cold : BOOLEAN, reused : BOOLEAN, received : BOOLEAN,
            error : BOOLEAN, available : BOOLEAN]

TypeOK ==
  /\ persistent \in BOOLEAN
  /\ pc \in Stages
  /\ left \in 0 .. MaxLeft
  /\ connected \in BOOLEAN
  /\ invalid \in BOOLEAN
  /\ completed \in Nat
  /\ stream \in {"none", "open", "closed"}
  /\ working \in Results
  /\ result \in Results
  /\ asked \in Nat
  /\ owed \in Seq(Nat)
  /\ answered \in Nat
  /\ opened \in Nat
  /\ served \in Nat
  /\ before \in [connected : BOOLEAN, invalid : BOOLEAN, used : BOOLEAN]

\* What a request returns as its answer is the answer to that request: no
\* answer that was given up on is left where a later request would read it.
AnswerIsToThisRequest == pc = "idle" /\ result.received => answered = asked

\* The bundle of a REST capture says "new_connection_only_at_explicit_round_
\* boundary": a session never replaces its connection, and a result is marked
\* reused exactly if an earlier request was answered on the very connection.
ReuseIsTrue ==
  /\ opened <= 1
  /\ pc = "idle" /\ result.received => (result.reused <=> served > 1)

\* A connection offered for another request is open and owes no answer.
AvailableIsUsable ==
  pc = "idle" /\ result.available => connected /\ stream = "open" /\ owed = << >>

\* No request leaves an open socket behind that no later request could use.
NoSocketIsLeft == pc = "idle" /\ (invalid \/ ~persistent) => stream # "open"

-----------------------------------------------------------------------------
(* The invariant behind them *)

SettingUp == {"ca_paths", "dns", "tcp_connect", "tls_configuration", "tls_handshake"}

Exchanging == {"http_write", "http_header_read", "http_body_read", "received"}

\* A session has no connection before its first, and none after it has lost it.
ConnectionInv ==
  /\ opened <= 1
  /\ connected => stream = "open" /\ ~invalid
  /\ invalid => stream # "open"
  /\ pc = "idle" /\ ~persistent => stream # "open"
  /\ asked = 0 => ~connected /\ ~invalid /\ pc = "idle"
  /\ ~connected /\ ~invalid /\ (persistent \/ pc # "idle" \/ asked = 0) => opened = 0 /\ completed = 0
  /\ pc = "asked" /\ ~persistent => ~connected
  /\ pc \in SettingUp => ~connected /\ ~invalid
  /\ pc \in {"tcp_connect", "tls_configuration", "tls_handshake"} => stream = "open"
  /\ pc \in Exchanging => connected
  /\ pc = "json_parse" => connected \/ invalid

\* The connection owes the answer to the request in hand, or none.
OwedInv ==
  /\ connected /\ pc \in {"idle", "asked"} => owed = << >>
  /\ pc \in {"http_write", "received", "json_parse"} => owed = << >>
  /\ pc \in {"http_header_read", "http_body_read"} => owed = <<asked>>
  /\ pc \in {"received", "json_parse"} => answered = asked

\* completed_requests_ counts the answers read on the connection.
CountInv ==
  /\ connected /\ pc # "received" => served = completed
  /\ pc = "received" => served = completed + 1
  /\ pc = "json_parse" => served = completed /\ completed > 0

\* What the result says so far, at each stage, of the session it began with.
WorkingInv ==
  /\ pc \in {"idle", "asked", "ca_paths", "dns"} => working = NoResult
  /\ ~working.error /\ ~working.available
  /\ working.received <=> (persistent /\ pc \in {"received", "json_parse"})
  /\ pc = "asked" => before = Present
  /\ pc \in SettingUp => before = Fresh
  /\ pc \in {"tcp_connect", "tls_configuration", "tls_handshake"} =>
       working = [NoResult EXCEPT !.cold = persistent]
  /\ pc \in Exchanging \cup {"json_parse"} =>
       /\ ~before.invalid
       /\ before.used => before.connected
       /\ working.cold <=> (persistent /\ ~before.connected)
       /\ working.reused <=> (persistent /\ before.used)
  /\ pc \in Exchanging => (before.used <=> completed # 0)
  /\ pc = "json_parse" => (before.used <=> completed # 1)

\* What was returned last.
ResultInv ==
  pc = "idle" =>
    /\ result.received => answered = asked /\ (result.reused <=> served > 1)
    /\ result.available => connected

IInv ==
  /\ TypeOK /\ ConnectionInv /\ OwedInv /\ CountInv /\ WorkingInv /\ ResultInv

\* Every request returns by itself, however silent the peer.
RequestReturns == (pc # "idle") ~> (pc = "idle")

\* The session between requests; during one, as it was when it was asked.
Offered == IF pc = "idle" THEN Present ELSE before

\* Between its call and its return, a request is a single step of the promise.
Connection == INSTANCE HttpConnection WITH session <- Offered

ImplementsConnection == Connection!Spec
=============================================================================
