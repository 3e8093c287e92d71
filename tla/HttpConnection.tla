---------------------------- MODULE HttpConnection ----------------------------
(***************************************************************************)
(* What one request on an HttpSession promises its caller                  *)
(* (PublicHttpConnection::get and execute_http,                            *)
(* src/src/Network/HttpClient.cpp), without the stages of the exchange:    *)
(* from what a session is, what may it become, and what may be returned.   *)
(*                                                                         *)
(* A session has at most one connection.  Every failure but a deadline     *)
(* that had passed beforehand ends it, and it is not replaced.             *)
(***************************************************************************)
EXTENDS Naturals

VARIABLES
  persistent,  \* a connection kept for the next request, or a one-shot
  session,
  result

vars == <<persistent, session, result>>

Sessions == [connected : BOOLEAN, invalid : BOOLEAN, used : BOOLEAN]

Fresh == [connected |-> FALSE, invalid |-> FALSE, used |-> FALSE]

\* cold: the request had to resolve; reused: connection_reused; received: a
\* receipt time; error: some error; available: connection_available.
Results == [cold : BOOLEAN, reused : BOOLEAN, received : BOOLEAN,
            error : BOOLEAN, available : BOOLEAN]

NoResult == [cold |-> FALSE, reused |-> FALSE, received |-> FALSE,
             error |-> FALSE, available |-> FALSE]

\* An invalidated session, or a deadline that has passed: nothing is done.
Unissued(p, s) ==
  [session |-> s,
   result |-> [NoResult EXCEPT !.error = TRUE,
                               !.available = p /\ s.connected /\ ~s.invalid]]

\* The request fails.  A failure before its write need not have told whether
\* the connection was cold or reused; one after its receipt has.
Lost(p, s) ==
  LET cold   == p /\ ~s.connected
      reused == p /\ s.connected /\ s.used
      Loss(c, r, received, used) ==
        [session |-> [connected |-> FALSE, invalid |-> TRUE, used |-> used],
         result |-> [cold |-> c, reused |-> r, received |-> received,
                     error |-> TRUE, available |-> FALSE]]
  IN {Loss(told.cold, told.reused, FALSE, s.used) :
        told \in [cold : {FALSE, cold}, reused : {FALSE, reused}]}
     \cup {Loss(cold, reused, p, used) : used \in {s.used, TRUE}}

\* The response is complete.  It may not be JSON; the peer may close after it.
Answered(p, s) ==
  {[session |-> [connected |-> p /\ answer.keep_alive, invalid |-> ~answer.keep_alive,
                 used |-> TRUE],
    result |-> [cold |-> p /\ ~s.connected, reused |-> p /\ s.connected /\ s.used,
                received |-> p, error |-> answer.invalid_json,
                available |-> p /\ answer.keep_alive]] :
   answer \in [keep_alive : BOOLEAN, invalid_json : BOOLEAN]}

Outcomes(p, s) ==
  {Unissued(p, s)} \cup IF s.invalid THEN {} ELSE Lost(p, s) \cup Answered(p, s)

Init ==
  /\ persistent \in BOOLEAN
  /\ session = Fresh
  /\ result = NoResult

Get ==
  /\ \E o \in Outcomes(persistent, session) : session' = o.session /\ result' = o.result
  /\ UNCHANGED persistent

\* A session is discarded with its connection, and another one made.
Renew ==
  /\ session' = Fresh
  /\ result' = NoResult
  /\ persistent' \in BOOLEAN

Next == Get \/ Renew

Spec == Init /\ [][Next]_vars
=============================================================================
