-------------------------- MODULE HttpSessionProofs --------------------------
(***************************************************************************)
(* Proofs about HttpSession, for any number of requests and any deadlines: *)
(* what is left of the connection by every way out of a request, whose     *)
(* answer is read, and that a request is one step of HttpConnection.       *)
(***************************************************************************)
EXTENDS HttpSession, TLAPS

LEMMA ResultFields ==
  /\ NoResult \in Results
  /\ ~NoResult.cold /\ ~NoResult.reused /\ ~NoResult.received
  /\ ~NoResult.error /\ ~NoResult.available
  BY DEF NoResult, Results

LEMMA TimeLeft ==
  /\ 0 \in 0 .. MaxLeft
  /\ \A d \in 0 .. MaxLeft : d > 0 => d - 1 \in 0 .. MaxLeft
  BY SessionAssumption

LEMMA OwedFacts ==
  /\ << >> \in Seq(Nat)
  /\ \A n \in Nat : /\ <<n>> \in Seq(Nat) /\ <<n>> # << >>
                   /\ Append(<< >>, n) = <<n>>
                   /\ Head(<<n>>) = n /\ Tail(<<n>>) = << >>
                   /\ \A s \in Seq(Nat) : Append(s, n) \in Seq(Nat)
  OBVIOUS

LEMMA InitIInv == Init => IInv
  <1> SUFFICES ASSUME Init PROVE IInv
    OBVIOUS
  <1>1. before \in [connected : BOOLEAN, invalid : BOOLEAN, used : BOOLEAN]
    BY DEF Init, Fresh
  <1>4. TypeOK
    BY <1>1, OwedFacts, ResultFields, TimeLeft DEF Init, TypeOK, Stages
  <1>2. ConnectionInv /\ OwedInv /\ CountInv
    BY DEF Init, ConnectionInv, OwedInv, CountInv, SettingUp, Exchanging
  <1>3. WorkingInv /\ ResultInv
    BY ResultFields DEF Init, WorkingInv, ResultInv, SettingUp, Exchanging
  <1> QED
    BY <1>4, <1>2, <1>3 DEF IInv

-----------------------------------------------------------------------------
(* Types *)

LEMMA ResultType ==
  ASSUME NEW r \in Results, NEW b \in BOOLEAN, NEW stage
  PROVE  /\ Failed(r) \in Results
         /\ [r EXCEPT !.available = b] \in Results
         /\ [r EXCEPT !.received = b] \in Results
         /\ [r EXCEPT !.error = b] \in Results
         /\ [r EXCEPT !.reused = b] \in Results
         /\ [r EXCEPT !.cold = b] \in Results
  BY DEF Failed, Results

LEMMA MarkedType ==
  ASSUME TypeOK, NEW r \in Results, NEW stage
  PROVE  Marked(r) \in Results /\ Measured(r, stage) \in Results
  BY DEF TypeOK, Marked, Measured, Results

LEMMA CloseSocketType ==
  ASSUME TypeOK, CloseSocket
  PROVE  stream' \in {"none", "open", "closed"} /\ connected' \in BOOLEAN
  BY DEF TypeOK, CloseSocket

LEMMA FinishType ==
  ASSUME TypeOK, NEW r \in Results, Finish(r)
  PROVE  result' \in Results /\ pc' = "idle" /\ left' = 0 /\ working' = NoResult
  BY DEF TypeOK, Finish, Results

LEMMA NextTypeOK ==
  ASSUME TypeOK, OwedInv, [Next]_vars
  PROVE  TypeOK'
  <1> USE ResultFields, TimeLeft
  <1>1. ASSUME NEW d \in 0 .. MaxLeft, Get(d) PROVE TypeOK'
    BY <1>1 DEF Get, TypeOK, session, Present, Stages
  <1>2. CASE Refuse
    <2>1. Failed(working) \in Results
      BY ResultType DEF TypeOK
    <2>2. stream' \in {"none", "open", "closed"} /\ connected' \in BOOLEAN
      BY <1>2, CloseSocketType DEF Refuse, FinishKeeping, TypeOK
    <2> QED
      BY <1>2, <2>1, <2>2, FinishType DEF Refuse, FinishKeeping, TypeOK, ghosts, Stages
  <1>3. CASE Reuse
    BY <1>3, MarkedType DEF Reuse, TypeOK, session, ghosts, Stages, Waiting
  <1>4. CASE SetUp
    BY <1>4 DEF SetUp, TypeOK, session, ghosts, Stages
  <1>5. ASSUME NEW i \in DOMAIN SetupStage, SetupAdvances(i) PROVE TypeOK'
    <2>1. pc' \in Stages
      BY <1>5 DEF SetupAdvances, SetupStage, Stages, Waiting
    <2> QED
      BY <1>5, <2>1, MarkedType DEF SetupAdvances, TypeOK, ghosts
  <1>6. CASE Connect
    BY <1>6, MarkedType DEF Connect, TypeOK, Stages, Waiting
  <1>7. ASSUME NEW i \in DOMAIN SetupStage, SetupFails(i) PROVE TypeOK'
    <2>1. Failed(Measured(working, pc)) \in Results
      BY ResultType, MarkedType DEF TypeOK
    <2> QED
      BY <1>7, <2>1, FinishType, CloseSocketType
         DEF SetupFails, Invalidate, TypeOK, ghosts, Stages
  <1>8. CASE Write
    BY <1>8 DEF Write, TypeOK, session, Stages, Waiting
  <1>9. ASSUME NEW r \in Results, RequestFails(r), owed' \in Seq(Nat),
               UNCHANGED <<persistent, completed, asked, answered, opened, served, before>>
        PROVE TypeOK'
    <2>1. Failed(r) \in Results
      BY <1>9, ResultType
    <2> QED
      BY <1>9, <2>1, FinishType, CloseSocketType
         DEF RequestFails, Invalidate, TypeOK, Stages
  <1>10. CASE WriteFails
    <2>1. owed' \in Seq(Nat)
      BY <1>10, OwedFacts DEF WriteFails, TypeOK
    <2> QED
      BY <1>10, <1>9, <2>1 DEF WriteFails, TypeOK
  <1>11. CASE ReadHeader
    BY <1>11 DEF ReadHeader, TypeOK, session, ghosts, Stages, Waiting
  <1>12. CASE ReadFails
    BY <1>12, <1>9 DEF ReadFails, TypeOK, ghosts
  <1>13. CASE ReadBody
    <2>1. working' \in Results
      BY <1>13, ResultType DEF ReadBody, TypeOK
    <2>2. owed' \in Seq(Nat) /\ answered' \in Nat
      BY <1>13, OwedFacts DEF ReadBody, TypeOK, OwedInv
    <2> QED
      BY <1>13, <2>1, <2>2 DEF ReadBody, TypeOK, session, Stages
  <1>14. ASSUME NEW keep_alive \in BOOLEAN, Release(keep_alive) PROVE TypeOK'
    <2>1. stream' \in {"none", "open", "closed"} /\ connected' \in BOOLEAN /\ invalid' \in BOOLEAN
      BY <1>14, CloseSocketType DEF Release, Invalidate, TypeOK
    <2> QED
      BY <1>14, <2>1 DEF Release, TypeOK, ghosts, Stages
  <1>15. ASSUME NEW invalid_json \in BOOLEAN, Parse(invalid_json) PROVE TypeOK'
    <2>1. [working EXCEPT !.error = invalid_json] \in Results
      BY ResultType DEF TypeOK
    <2>2. stream' \in {"none", "open", "closed"} /\ connected' \in BOOLEAN
      BY <1>15, CloseSocketType DEF Parse, FinishKeeping, TypeOK
    <2>3. /\ Finish([working EXCEPT !.error = invalid_json])
          /\ UNCHANGED <<invalid, persistent, completed, ghosts>>
      BY <1>15 DEF Parse, FinishKeeping
    <2>4. result' \in Results /\ pc' = "idle" /\ left' = 0 /\ working' = NoResult
      BY <2>1, <2>3, FinishType
    <2> QED
      BY <2>2, <2>3, <2>4 DEF TypeOK, ghosts, Stages
  <1>16. CASE Throw
    BY <1>16, <1>9 DEF Throw, TypeOK, ghosts
  <1>17. CASE TimesOut
    <2>1. Measured(working, pc) \in Results
      BY MarkedType DEF TypeOK
    <2>2. owed' \in Seq(Nat)
      BY <1>17 DEF TimesOut, TypeOK
    <2> QED
      BY <1>17, <1>9, <2>1, <2>2 DEF TimesOut
  <1>18. CASE Tick
    BY <1>18 DEF Tick, TypeOK, session, ghosts
  <1>19. CASE Discard
    <2>1. before' \in [connected : BOOLEAN, invalid : BOOLEAN, used : BOOLEAN]
      BY <1>19 DEF Discard, Fresh
    <2> QED
      BY <1>19, <2>1, OwedFacts DEF Discard, TypeOK
  <1>20. CASE UNCHANGED vars
    BY <1>20 DEF vars, session, ghosts, TypeOK
  <1> QED
    BY <1>1, <1>2, <1>3, <1>4, <1>5, <1>6, <1>7, <1>8, <1>10, <1>11, <1>12, <1>13,
       <1>14, <1>15, <1>16, <1>17, <1>18, <1>19, <1>20 DEF Next, LocalStep, NetworkStep
-----------------------------------------------------------------------------
(* The connection *)

\* Every failure of the exchange leaves a session without connection, and of
\* the request what it had received.
LEMMA FailureKeepsIInv ==
  ASSUME IInv, NEW r \in Results, RequestFails(r), TypeOK', asked # 0,
         r.received => answered = asked /\ (r.reused <=> served > 1),
         UNCHANGED <<persistent, completed, asked, answered, opened, served, before>>
  PROVE  IInv'
  <1>1. /\ pc' = "idle" /\ ~connected' /\ invalid' /\ stream' # "open"
        /\ working' = NoResult
    BY DEF RequestFails, Invalidate, CloseSocket, Finish, IInv, ConnectionInv, TypeOK
  <1>2. /\ result'.received <=> r.received
        /\ result'.reused <=> r.reused
        /\ ~result'.available
    BY <1>1 DEF RequestFails, Finish, Failed, Results
  <1>3. ConnectionInv'
    BY <1>1 DEF IInv, ConnectionInv, SettingUp, Exchanging
  <1>4. OwedInv' /\ CountInv'
    BY <1>1 DEF OwedInv, CountInv
  <1>5. WorkingInv'
    BY <1>1, ResultFields DEF WorkingInv, SettingUp, Exchanging
  <1>6. ResultInv'
    BY <1>2 DEF ResultInv
  <1> QED
    BY <1>3, <1>4, <1>5, <1>6 DEF IInv

\* What a request has received so far is the answer to it.
LEMMA ReceivedSoFar ==
  ASSUME IInv, pc # "idle", working.received
  PROVE  answered = asked /\ (working.reused <=> served > 1)
  <1>1. /\ persistent
        /\ pc = "received" \/ pc = "json_parse"
        /\ working.reused <=> before.used
    BY DEF IInv, WorkingInv, Exchanging
  <1>2. served \in Nat /\ completed \in Nat
    BY DEF IInv, TypeOK
  <1>3. CASE pc = "received"
    <2>1. served = completed + 1 /\ (before.used <=> completed # 0)
      BY <1>3 DEF IInv, CountInv, WorkingInv, Exchanging
    <2>2. completed # 0 <=> served > 1
      BY <1>2, <2>1
    <2> QED
      BY <1>1, <1>3, <2>1, <2>2 DEF IInv, OwedInv
  <1>4. CASE pc = "json_parse"
    <2>1. served = completed /\ completed > 0 /\ (before.used <=> completed # 1)
      BY <1>4 DEF IInv, CountInv, WorkingInv
    <2>2. completed # 1 <=> served > 1
      BY <1>2, <2>1
    <2> QED
      BY <1>1, <1>4, <2>1, <2>2 DEF IInv, OwedInv
  <1> QED
    BY <1>1, <1>3, <1>4

\* Marking a result and measuring its setup touch no other field.
LEMMA MarkedFields ==
  ASSUME NEW r \in Results, NEW stage, persistent \in BOOLEAN
  PROVE  /\ Marked(r).reused <=> (persistent /\ completed # 0)
         /\ Marked(r).cold <=> r.cold
         /\ Marked(r).received <=> r.received
         /\ Marked(r).error <=> r.error
         /\ Marked(r).available <=> r.available
         /\ Measured(r, stage).cold <=> (r.cold \/ (persistent /\ stage = "dns"))
         /\ Measured(r, stage).reused <=> r.reused
         /\ Measured(r, stage).received <=> r.received
         /\ Measured(r, stage).error <=> r.error
         /\ Measured(r, stage).available <=> r.available
  BY DEF Marked, Measured, Results
LEMMA GetKeepsIInv ==
  ASSUME IInv, TypeOK', NEW d \in 0 .. MaxLeft, Get(d)
  PROVE  IInv'
  <1>1. /\ pc = "idle" /\ pc' = "asked" /\ asked' # 0 /\ (~persistent => asked = 0)
        /\ UNCHANGED <<persistent, connected, invalid, completed, stream, working,
                       result, owed, answered, opened, served>>
    BY DEF Get, session, IInv, TypeOK
  <1>2. before' = Present'
    BY <1>1 DEF Get, Present
  <1>3. ConnectionInv'
    BY <1>1 DEF IInv, TypeOK, ConnectionInv, SettingUp, Exchanging
  <1>4. OwedInv' /\ CountInv'
    BY <1>1 DEF IInv, OwedInv, CountInv
  <1>5. WorkingInv'
    BY <1>1, <1>2, ResultFields DEF IInv, WorkingInv, SettingUp, Exchanging
  <1>6. ResultInv'
    BY <1>1 DEF ResultInv
  <1> QED
    BY <1>3, <1>4, <1>5, <1>6 DEF IInv

\* A request that does nothing, or one that ends well, returns what is left.
LEMMA RefuseKeepsIInv ==
  ASSUME IInv, TypeOK', Refuse
  PROVE  IInv'
  <1>1. /\ pc = "asked" /\ pc' = "idle" /\ working = NoResult /\ working' = NoResult
        /\ UNCHANGED <<persistent, invalid, completed, asked, owed, answered, opened, served>>
    BY DEF Refuse, FinishKeeping, Finish, ghosts, IInv, WorkingInv
  <1>2. \/ persistent /\ UNCHANGED <<connected, stream>>
        \/ ~persistent /\ ~connected /\ ~connected' /\ stream' # "open"
    BY DEF Refuse, FinishKeeping, CloseSocket, IInv, ConnectionInv, TypeOK
  <1>3. ~result'.received /\ (result'.available => connected')
    BY <1>1, ResultFields DEF Refuse, FinishKeeping, Finish, Failed, Results
  <1>4. ConnectionInv'
    BY <1>1, <1>2 DEF IInv, ConnectionInv, SettingUp, Exchanging
  <1>5. OwedInv' /\ CountInv'
    BY <1>1, <1>2 DEF IInv, OwedInv, CountInv
  <1>6. WorkingInv'
    BY <1>1, ResultFields DEF WorkingInv, SettingUp, Exchanging
  <1>7. ResultInv'
    BY <1>3 DEF ResultInv
  <1> QED
    BY <1>4, <1>5, <1>6, <1>7 DEF IInv

LEMMA ReuseKeepsIInv ==
  ASSUME IInv, TypeOK', Reuse
  PROVE  IInv'
  <1>1. /\ pc = "asked" /\ pc' = "http_write" /\ connected /\ ~invalid
        /\ working = NoResult /\ working' = Marked(NoResult)
        /\ UNCHANGED <<persistent, connected, invalid, completed, stream, result, asked,
                       owed, answered, opened, served, before>>
    BY DEF Reuse, session, ghosts, IInv, WorkingInv
  <1>2. before.connected /\ ~before.invalid /\ (before.used <=> completed # 0)
    <2>1. before = Present
      BY <1>1 DEF IInv, WorkingInv
    <2>2. /\ Present.connected = connected /\ Present.invalid = invalid
          /\ Present.used = (completed # 0)
      BY Zenon DEF Present
    <2> QED
      BY <1>1, <2>1, <2>2
  <1>3. ConnectionInv'
    BY <1>1 DEF IInv, ConnectionInv, SettingUp, Exchanging
  <1>4. OwedInv' /\ CountInv'
    BY <1>1 DEF IInv, OwedInv, CountInv
  <1>5. WorkingInv'
    <2>1. /\ working'.reused <=> (persistent /\ before.used)
          /\ ~working'.cold /\ ~working'.received /\ ~working'.error /\ ~working'.available
      BY <1>1, <1>2, MarkedFields, ResultFields DEF IInv, TypeOK
    <2> QED
      BY <1>1, <1>2, <2>1 DEF WorkingInv, SettingUp, Exchanging
  <1>6. ResultInv'
    BY <1>1 DEF ResultInv
  <1> QED
    BY <1>3, <1>4, <1>5, <1>6 DEF IInv

\* A session that is asked without a connection has never had one.
LEMMA SetUpKeepsIInv ==
  ASSUME IInv, TypeOK', SetUp
  PROVE  IInv'
  <1>1. /\ pc = "asked" /\ pc' = "ca_paths" /\ ~connected /\ ~invalid /\ completed = 0
        /\ UNCHANGED <<persistent, connected, invalid, completed, stream, working, result,
                       asked, owed, answered, opened, served, before>>
    BY DEF SetUp, session, ghosts, IInv, ConnectionInv
  <1>2. before = Fresh
    <2>1. before = Present
      BY <1>1 DEF IInv, WorkingInv
    <2>2. (completed # 0) = FALSE /\ connected = FALSE /\ invalid = FALSE
      BY <1>1 DEF IInv, TypeOK
    <2> QED
      BY <2>1, <2>2 DEF Present, Fresh
  <1>3. ConnectionInv'
    BY <1>1 DEF IInv, ConnectionInv, SettingUp, Exchanging
  <1>4. OwedInv' /\ CountInv'
    BY <1>1 DEF IInv, OwedInv, CountInv
  <1>5. WorkingInv'
    BY <1>1, <1>2, ResultFields DEF IInv, WorkingInv, SettingUp, Exchanging
  <1>6. ResultInv'
    BY <1>1 DEF ResultInv
  <1> QED
    BY <1>3, <1>4, <1>5, <1>6 DEF IInv

LEMMA SetupAdvancesKeepsIInv ==
  ASSUME IInv, TypeOK', NEW i \in DOMAIN SetupStage, SetupAdvances(i)
  PROVE  IInv'
  <1>1. \/ pc = "ca_paths" /\ pc' = "dns"
        \/ pc = "dns" /\ pc' = "tcp_connect"
        \/ pc = "tcp_connect" /\ pc' = "tls_configuration"
        \/ pc = "tls_configuration" /\ pc' = "tls_handshake"
    BY DEF SetupAdvances, SetupStage
  <1>2. /\ working' = Measured(working, pc)
        /\ stream' = IF pc = "dns" THEN "open" ELSE stream
        /\ UNCHANGED <<persistent, connected, invalid, completed, result, asked, owed,
                       answered, opened, served, before>>
    BY DEF SetupAdvances, ghosts
  <1>3. ConnectionInv'
    BY <1>1, <1>2 DEF IInv, ConnectionInv, SettingUp, Exchanging
  <1>4. OwedInv' /\ CountInv'
    BY <1>1, <1>2 DEF IInv, OwedInv, CountInv, ConnectionInv, SettingUp
  <1>5. WorkingInv'
    <2>1. /\ Measured(NoResult, "dns") = [NoResult EXCEPT !.cold = persistent]
          /\ \A stage \in {"ca_paths", "tcp_connect", "tls_configuration"} :
               Measured(working, stage) = working
      BY DEF Measured, NoResult, IInv, TypeOK, Results
    <2>2. /\ pc' \in {"tcp_connect", "tls_configuration", "tls_handshake"} =>
               working' = [NoResult EXCEPT !.cold = persistent]
          /\ pc' = "dns" => working' = NoResult
      BY <1>1, <1>2, <2>1 DEF IInv, WorkingInv
    <2>3. ~working'.error /\ ~working'.available /\ ~working'.received
      BY <1>1, <1>2, MarkedFields DEF IInv, TypeOK, WorkingInv
    <2> QED
      BY <1>1, <1>2, <2>2, <2>3 DEF IInv, WorkingInv, SettingUp, Exchanging
  <1>6. ResultInv'
    BY <1>1 DEF ResultInv
  <1> QED
    BY <1>3, <1>4, <1>5, <1>6 DEF IInv

\* The one connection of a session.
LEMMA ConnectKeepsIInv ==
  ASSUME IInv, TypeOK', Connect
  PROVE  IInv'
  <1>1. /\ pc = "tls_handshake" /\ pc' = "http_write" /\ connected' /\ ~invalid
        /\ opened = 0 /\ completed = 0 /\ asked # 0 /\ stream = "open"
        /\ owed' = << >> /\ opened' = opened + 1 /\ served' = 0
        /\ working' = Marked(working)
        /\ UNCHANGED <<persistent, invalid, completed, stream, result, asked, answered, before>>
    BY DEF Connect, IInv, ConnectionInv, SettingUp
  <1>2. before = Fresh /\ working = [NoResult EXCEPT !.cold = persistent]
    BY <1>1 DEF IInv, WorkingInv, SettingUp
  <1>3. ConnectionInv'
    BY <1>1 DEF IInv, ConnectionInv, SettingUp, Exchanging
  <1>4. OwedInv' /\ CountInv'
    BY <1>1 DEF OwedInv, CountInv
  <1>5. WorkingInv'
    <2>1. /\ working.cold <=> persistent
          /\ ~working.reused /\ ~working.received /\ ~working.error /\ ~working.available
      BY <1>2 DEF NoResult, IInv, TypeOK
    <2>2. /\ working'.cold <=> persistent
          /\ ~working'.reused /\ ~working'.received /\ ~working'.error /\ ~working'.available
      BY <1>1, <2>1, MarkedFields DEF IInv, TypeOK
    <2>3. ~before.connected /\ ~before.invalid /\ ~before.used
      BY <1>2 DEF Fresh
    <2> QED
      BY <1>1, <2>2, <2>3 DEF WorkingInv, SettingUp, Exchanging
  <1>6. ResultInv'
    BY <1>1 DEF ResultInv
  <1> QED
    BY <1>3, <1>4, <1>5, <1>6 DEF IInv
\* The stages of the exchange that only move on.
LEMMA ExchangeKeepsIInv ==
  ASSUME IInv, TypeOK', Write \/ ReadHeader
  PROVE  IInv'
  <1>1. /\ \/ pc = "http_write" /\ pc' = "http_header_read" /\ owed' = Append(owed, asked)
           \/ pc = "http_header_read" /\ pc' = "http_body_read" /\ owed' = owed
        /\ UNCHANGED <<persistent, connected, invalid, completed, stream, working, result,
                       asked, answered, opened, served, before>>
    BY DEF Write, ReadHeader, session, ghosts
  <1>2. owed' = <<asked>>
    BY <1>1, OwedFacts DEF IInv, TypeOK, OwedInv
  <1>3. ConnectionInv'
    BY <1>1 DEF IInv, ConnectionInv, SettingUp, Exchanging
  <1>4. OwedInv' /\ CountInv'
    BY <1>1, <1>2 DEF IInv, OwedInv, CountInv
  <1>5. WorkingInv'
    BY <1>1 DEF IInv, WorkingInv, SettingUp, Exchanging
  <1>6. ResultInv'
    BY <1>1 DEF ResultInv
  <1> QED
    BY <1>3, <1>4, <1>5, <1>6 DEF IInv

LEMMA ReadBodyKeepsIInv ==
  ASSUME IInv, TypeOK', ReadBody
  PROVE  IInv'
  <1>1. /\ pc = "http_body_read" /\ pc' = "received"
        /\ served' = served + 1
        /\ working' = [working EXCEPT !.received = persistent]
        /\ UNCHANGED <<persistent, connected, invalid, completed, stream, result, asked,
                       opened, before>>
    BY DEF ReadBody, session
  <1>2. owed' = << >> /\ answered' = asked
    BY <1>1, OwedFacts DEF ReadBody, IInv, TypeOK, OwedInv
  <1>3. /\ working'.received <=> persistent
        /\ working'.cold <=> working.cold
        /\ working'.reused <=> working.reused
        /\ working'.error <=> working.error
        /\ working'.available <=> working.available
    BY <1>1 DEF IInv, TypeOK, Results
  <1>4. ConnectionInv'
    BY <1>1 DEF IInv, ConnectionInv, SettingUp, Exchanging
  <1>5. OwedInv'
    BY <1>1, <1>2 DEF OwedInv
  <1>6. CountInv'
    <2>1. served = completed
      BY <1>1 DEF IInv, CountInv, ConnectionInv, Exchanging
    <2> QED
      BY <1>1, <2>1 DEF CountInv
  <1>7. WorkingInv'
    BY <1>1, <1>3 DEF IInv, WorkingInv, SettingUp, Exchanging
  <1>8. ResultInv'
    BY <1>1 DEF ResultInv
  <1> QED
    BY <1>4, <1>5, <1>6, <1>7, <1>8 DEF IInv

LEMMA ReleaseKeepsIInv ==
  ASSUME IInv, TypeOK', NEW keep_alive \in BOOLEAN, Release(keep_alive)
  PROVE  IInv'
  <1>1. /\ pc = "received" /\ pc' = "json_parse" /\ completed' = completed + 1
        /\ UNCHANGED <<persistent, working, result, asked, owed, answered, opened, served, before>>
    BY DEF Release, ghosts
  <1>2. \/ connected' /\ ~invalid' /\ stream' = "open"
        \/ ~connected' /\ invalid' /\ stream' # "open"
    BY DEF Release, Invalidate, CloseSocket, IInv, ConnectionInv, TypeOK, Exchanging
  <1>3. ConnectionInv'
    <2>1. opened <= 1 /\ asked # 0 /\ connected
      BY <1>1 DEF IInv, ConnectionInv, Exchanging
    <2> QED
      BY <1>1, <1>2, <2>1 DEF ConnectionInv, SettingUp, Exchanging
  <1>4. OwedInv'
    BY <1>1, <1>2 DEF IInv, OwedInv
  <1>5. CountInv'
    <2>1. served = completed + 1 /\ completed \in Nat
      BY <1>1 DEF IInv, CountInv, TypeOK
    <2> QED
      BY <1>1, <2>1 DEF CountInv
  <1>6. WorkingInv'
    <2>1. before.used <=> completed' # 1
      <3>1. before.used <=> completed # 0
        BY <1>1 DEF IInv, WorkingInv, Exchanging
      <3>2. completed # 0 <=> completed' # 1
        BY <1>1 DEF IInv, TypeOK
      <3> QED
        BY <3>1, <3>2
    <2> QED
      BY <1>1, <2>1 DEF IInv, WorkingInv, SettingUp, Exchanging
  <1>7. ResultInv'
    BY <1>1 DEF ResultInv
  <1> QED
    BY <1>3, <1>4, <1>5, <1>6, <1>7 DEF IInv

LEMMA ParseKeepsIInv ==
  ASSUME IInv, TypeOK', NEW invalid_json \in BOOLEAN, Parse(invalid_json)
  PROVE  IInv'
  <1>1. /\ pc = "json_parse" /\ pc' = "idle" /\ working' = NoResult
        /\ UNCHANGED <<persistent, invalid, completed, asked, owed, answered, opened, served>>
    BY DEF Parse, FinishKeeping, Finish, ghosts
  <1>2. /\ ~persistent => ~connected' /\ stream' # "open"
        /\ persistent => UNCHANGED <<connected, stream>>
    BY DEF Parse, FinishKeeping, CloseSocket, IInv, ConnectionInv, TypeOK
  <1>3. /\ result'.received <=> working.received
        /\ result'.reused <=> working.reused
        /\ result'.available => connected'
    BY DEF Parse, FinishKeeping, Finish, IInv, TypeOK, Results
  <1>4. answered = asked /\ (working.received => (working.reused <=> served > 1))
    BY <1>1, ReceivedSoFar DEF IInv, OwedInv
  <1>5. ConnectionInv'
    BY <1>1, <1>2 DEF IInv, ConnectionInv, SettingUp, Exchanging
  <1>6. OwedInv' /\ CountInv'
    BY <1>1, <1>2 DEF IInv, OwedInv, CountInv
  <1>7. WorkingInv'
    BY <1>1, ResultFields DEF WorkingInv, SettingUp, Exchanging
  <1>8. ResultInv'
    BY <1>1, <1>3, <1>4 DEF ResultInv
  <1> QED
    BY <1>5, <1>6, <1>7, <1>8 DEF IInv

\* All the ways in which a request is given up.
LEMMA FailingKeepsIInv ==
  ASSUME IInv, TypeOK',
         \/ WriteFails \/ ReadFails \/ Throw \/ TimesOut
         \/ \E i \in DOMAIN SetupStage : SetupFails(i)
  PROVE  IInv'
  <1>1. asked # 0 /\ pc # "idle"
    <2>1. pc # "idle"
      BY DEF WriteFails, ReadFails, Throw, TimesOut, Deadline, Waiting, SetupFails, SetupStage
    <2> QED
      BY <2>1 DEF IInv, ConnectionInv
  <1>2. working \in Results /\ persistent \in BOOLEAN
    BY DEF IInv, TypeOK
  <1>3. CASE WriteFails \/ ReadFails \/ Throw
    <2>1. /\ RequestFails(working)
          /\ UNCHANGED <<persistent, completed, asked, answered, opened, served, before>>
      BY <1>3 DEF WriteFails, ReadFails, Throw, ghosts
    <2> QED
      BY <1>1, <1>2, <2>1, ReceivedSoFar, FailureKeepsIInv
  <1>4. CASE TimesOut \/ \E i \in DOMAIN SetupStage : SetupFails(i)
    <2>1. /\ RequestFails(Measured(working, pc))
          /\ UNCHANGED <<persistent, completed, asked, answered, opened, served, before>>
      BY <1>4 DEF TimesOut, SetupFails, RequestFails, ghosts
    <2>2. /\ Measured(working, pc) \in Results
          /\ Measured(working, pc).received <=> working.received
          /\ Measured(working, pc).reused <=> working.reused
      BY <1>2, MarkedFields, MarkedType DEF IInv
    <2>3. working.received => answered = asked /\ (working.reused <=> served > 1)
      BY <1>1, ReceivedSoFar
    <2> QED
      BY <1>1, <2>1, <2>2, <2>3, FailureKeepsIInv
  <1> QED
    BY <1>3, <1>4

LEMMA NextKeepsIInv == IInv /\ [Next]_vars => IInv'
  <1> SUFFICES ASSUME IInv, [Next]_vars PROVE IInv'
    OBVIOUS
  <1>1. TypeOK'
    BY NextTypeOK DEF IInv
  <1>2. ASSUME NEW d \in 0 .. MaxLeft, Get(d) PROVE IInv'
    BY <1>1, <1>2, GetKeepsIInv
  <1>3. CASE Refuse \/ Reuse \/ SetUp
    BY <1>1, <1>3, RefuseKeepsIInv, ReuseKeepsIInv, SetUpKeepsIInv
  <1>4. ASSUME NEW i \in DOMAIN SetupStage, SetupAdvances(i) PROVE IInv'
    BY <1>1, <1>4, SetupAdvancesKeepsIInv
  <1>5. CASE Connect \/ Write \/ ReadHeader \/ ReadBody
    BY <1>1, <1>5, ConnectKeepsIInv, ExchangeKeepsIInv, ReadBodyKeepsIInv
  <1>6. ASSUME NEW b \in BOOLEAN, Release(b) \/ Parse(b) PROVE IInv'
    BY <1>1, <1>6, ReleaseKeepsIInv, ParseKeepsIInv
  <1>7. CASE WriteFails \/ ReadFails \/ Throw \/ TimesOut \/ \E i \in DOMAIN SetupStage : SetupFails(i)
    BY <1>1, <1>7, FailingKeepsIInv
  <1>8. CASE Tick
    <2>1. UNCHANGED <<persistent, pc, connected, invalid, completed, stream, working, result,
                      asked, owed, answered, opened, served, before>>
      BY <1>8 DEF Tick, session, ghosts
    <2> QED
      BY <1>1, <2>1 DEF IInv, ConnectionInv, OwedInv, CountInv, WorkingInv, ResultInv, Present
  <1>9. CASE Discard
    <2>1. /\ pc' = "idle" /\ ~connected' /\ ~invalid' /\ stream' = "none" /\ asked' = 0
          /\ opened' = 0 /\ completed' = 0 /\ working' = NoResult /\ result' = NoResult
      BY <1>9 DEF Discard, IInv, WorkingInv
    <2>2. ConnectionInv' /\ OwedInv' /\ CountInv'
      BY <2>1 DEF ConnectionInv, OwedInv, CountInv, SettingUp, Exchanging
    <2>3. WorkingInv' /\ ResultInv'
      BY <2>1, ResultFields DEF WorkingInv, ResultInv, SettingUp, Exchanging
    <2> QED
      BY <1>1, <2>2, <2>3 DEF IInv
  <1>10. CASE UNCHANGED vars
    BY <1>1, <1>10 DEF vars, session, ghosts, IInv, ConnectionInv, OwedInv, CountInv,
       WorkingInv, ResultInv, Present
  <1> QED
    BY <1>2, <1>3, <1>4, <1>5, <1>6, <1>7, <1>8, <1>9, <1>10
       DEF Next, LocalStep, NetworkStep
-----------------------------------------------------------------------------
(* The theorems *)

\* The invariant of the session holds in every behaviour.
THEOREM SessionInvariant == Spec => []IInv
  BY InitIInv, NextKeepsIInv, PTL DEF Spec

\* Type correctness of the session.
THEOREM SessionTypeCorrect == Spec => []TypeOK
  <1>1. IInv => TypeOK
    BY DEF IInv
  <1> QED
    BY <1>1, SessionInvariant, PTL

\* No request is ever returned the answer to another one.
THEOREM AnswersAreOwn == Spec => []AnswerIsToThisRequest
  <1>1. IInv => AnswerIsToThisRequest
    BY DEF IInv, ResultInv, AnswerIsToThisRequest
  <1> QED
    BY <1>1, SessionInvariant, PTL

\* A session opens one connection, and a result is marked reused exactly if an
\* earlier request was answered on it.
THEOREM ReuseIsMarked == Spec => []ReuseIsTrue
  <1>1. IInv => ReuseIsTrue
    BY DEF IInv, ConnectionInv, ResultInv, ReuseIsTrue
  <1> QED
    BY <1>1, SessionInvariant, PTL

\* A connection that is offered is open and owes nothing.
THEOREM OfferedIsUsable == Spec => []AvailableIsUsable
  <1>1. IInv => AvailableIsUsable
    BY DEF IInv, ConnectionInv, OwedInv, ResultInv, AvailableIsUsable
  <1> QED
    BY <1>1, SessionInvariant, PTL

\* However a request ends, no socket stays open that nobody will use.
THEOREM NoSocketLeaks == Spec => []NoSocketIsLeft
  <1>1. IInv => NoSocketIsLeft
    BY DEF IInv, ConnectionInv, NoSocketIsLeft
  <1> QED
    BY <1>1, SessionInvariant, PTL

-----------------------------------------------------------------------------
(* A request is one step of HttpConnection *)

LEMMA ErrorAndAvailable ==
  ASSUME NEW r \in Results, NEW error \in BOOLEAN, NEW available
  PROVE  [r EXCEPT !.error = error, !.available = available]
         = [cold |-> r.cold, reused |-> r.reused, received |-> r.received,
            error |-> error, available |-> available]
  <1> DEFINE s == [r EXCEPT !.error = error]
  <1>1. s \in Results
    BY DEF Results
  <1>2. /\ s.cold = r.cold /\ s.reused = r.reused /\ s.received = r.received
        /\ s.error = error
    BY DEF Results
  <1>3. [r EXCEPT !.error = error, !.available = available] = [s EXCEPT !.available = available]
    OBVIOUS
  <1> HIDE DEF s
  <1>4. [s EXCEPT !.available = available]
        = [cold |-> s.cold, reused |-> s.reused, received |-> s.received,
           error |-> s.error, available |-> available]
    BY <1>1 DEF Results
  <1> QED
    BY <1>2, <1>3, <1>4, Zenon

\* A session that was invalidated, or whose deadline had passed, is as it was.
LEMMA UnissuedIsGet ==
  ASSUME pc # "idle", pc' = "idle", UNCHANGED persistent, Present' = before,
         result' = [NoResult EXCEPT !.error = TRUE,
                      !.available = persistent /\ before.connected /\ ~before.invalid]
  PROVE  Connection!Get
  <1>1. NoResult = Connection!NoResult
    BY DEF NoResult, Connection!NoResult
  <1>2. Connection!Unissued(persistent, before) = [session |-> Present', result |-> result']
    BY <1>1, Zenon DEF Connection!Unissued
  <1>3. Connection!Unissued(persistent, before) \in Connection!Outcomes(persistent, before)
    BY Zenon DEF Connection!Outcomes
  <1>4. Offered = before /\ Offered' = Present'
    BY DEF Offered
  <1> QED
    BY <1>2, <1>3, <1>4 DEF Connection!Get

LEMMA OutcomeIsGet ==
  ASSUME pc # "idle", pc' = "idle", UNCHANGED persistent, ~before.invalid,
         [session |-> Present', result |-> result']
           \in Connection!Lost(persistent, before) \cup Connection!Answered(persistent, before)
  PROVE  Connection!Get
  <1>1. [session |-> Present', result |-> result'] \in Connection!Outcomes(persistent, before)
    BY DEF Connection!Outcomes
  <1>2. Offered = before /\ Offered' = Present'
    BY DEF Offered
  <1> QED
    BY <1>1, <1>2 DEF Connection!Get

\* A request lost before its receipt: what it tells of the connection is true,
\* if it tells it.
LEMMA LostUnanswered ==
  ASSUME NEW cold \in {FALSE, persistent /\ ~before.connected},
         NEW reused \in {FALSE, persistent /\ before.connected /\ before.used},
         Present' = [connected |-> FALSE, invalid |-> TRUE, used |-> before.used],
         result' = [cold |-> cold, reused |-> reused, received |-> FALSE,
                    error |-> TRUE, available |-> FALSE]
  PROVE  [session |-> Present', result |-> result'] \in Connection!Lost(persistent, before)
  <1> DEFINE told == [cold |-> cold, reused |-> reused]
  <1>1. /\ told \in [cold : {FALSE, persistent /\ ~before.connected},
                     reused : {FALSE, persistent /\ before.connected /\ before.used}]
        /\ told.cold = cold /\ told.reused = reused
    OBVIOUS
  <1> HIDE DEF told
  <1>2. result' = [cold |-> told.cold, reused |-> told.reused, received |-> FALSE,
                   error |-> TRUE, available |-> FALSE]
    BY <1>1
  <1> QED
    BY <1>1, <1>2, Zenon DEF Connection!Lost

LEMMA LostAnswered ==
  ASSUME NEW used \in {before.used, TRUE},
         Present' = [connected |-> FALSE, invalid |-> TRUE, used |-> used],
         result' = [cold |-> persistent /\ ~before.connected,
                    reused |-> persistent /\ before.connected /\ before.used,
                    received |-> persistent, error |-> TRUE, available |-> FALSE]
  PROVE  [session |-> Present', result |-> result'] \in Connection!Lost(persistent, before)
  BY Zenon DEF Connection!Lost

LEMMA AnsweredIsWhole ==
  ASSUME NEW keep_alive \in BOOLEAN, NEW invalid_json \in BOOLEAN,
         Present' = [connected |-> persistent /\ keep_alive, invalid |-> ~keep_alive,
                     used |-> TRUE],
         result' = [cold |-> persistent /\ ~before.connected,
                    reused |-> persistent /\ before.connected /\ before.used,
                    received |-> persistent, error |-> invalid_json,
                    available |-> persistent /\ keep_alive]
  PROVE  [session |-> Present', result |-> result'] \in Connection!Answered(persistent, before)
  <1> DEFINE answer == [keep_alive |-> keep_alive, invalid_json |-> invalid_json]
  <1>1. /\ answer \in [keep_alive : BOOLEAN, invalid_json : BOOLEAN]
        /\ answer.keep_alive = keep_alive /\ answer.invalid_json = invalid_json
    OBVIOUS
  <1> HIDE DEF answer
  <1>2. /\ Present' = [connected |-> persistent /\ answer.keep_alive,
                       invalid |-> ~answer.keep_alive, used |-> TRUE]
        /\ result' = [cold |-> persistent /\ ~before.connected,
                      reused |-> persistent /\ before.connected /\ before.used,
                      received |-> persistent, error |-> answer.invalid_json,
                      available |-> persistent /\ answer.keep_alive]
    BY <1>1, Zenon
  <1> QED
    BY <1>1, <1>2, Zenon DEF Connection!Answered

\* However a request is given up.
LEMMA FailureIsGet ==
  ASSUME IInv, pc # "idle", Invalidate, NEW r \in Results, Finish(Failed(r)),
         UNCHANGED <<persistent, completed>>,
         r.reused <=> working.reused, r.received <=> working.received,
         working.cold => r.cold,
         r.cold => working.cold \/ (persistent /\ pc = "dns")
  PROVE  Connection!Get
  <1>1. pc' = "idle" /\ ~connected' /\ invalid' /\ connected' = FALSE /\ invalid' = TRUE
    BY DEF Finish, Invalidate, CloseSocket, IInv, ConnectionInv, TypeOK
  <1>2. result' = [cold |-> r.cold, reused |-> r.reused, received |-> r.received,
                   error |-> TRUE, available |-> FALSE]
    <2>1. result' = [Failed(r) EXCEPT !.available = FALSE]
      BY <1>1 DEF Finish
    <2> QED
      BY <2>1 DEF Failed, Results
  <1>3. Present' = [connected |-> FALSE, invalid |-> TRUE, used |-> completed # 0]
    BY <1>1, Zenon DEF Present
  <1>4. /\ r.cold \in BOOLEAN /\ r.reused \in BOOLEAN /\ r.received \in BOOLEAN
        /\ before.connected \in BOOLEAN /\ before.invalid \in BOOLEAN /\ before.used \in BOOLEAN
        /\ persistent \in BOOLEAN
    BY DEF IInv, TypeOK, Results
  <1>5. CASE before.invalid
    <2>1. pc = "asked"
      BY <1>5 DEF IInv, TypeOK, Stages, Waiting, WorkingInv, SettingUp, Exchanging, Fresh
    <2>2. before = Present /\ working = NoResult
      BY <2>1 DEF IInv, WorkingInv
    <2>3. invalid /\ ~connected
      BY <1>5, <2>2 DEF IInv, ConnectionInv, Present
    <2>4. connected = FALSE /\ invalid = TRUE
      BY <2>3 DEF IInv, TypeOK
    <2>5. Present' = before
      BY <1>3, <2>2, <2>4, Zenon DEF Present
    <2>6. result' = [NoResult EXCEPT !.error = TRUE,
                       !.available = persistent /\ before.connected /\ ~before.invalid]
      <3>1. r.cold = FALSE /\ r.reused = FALSE /\ r.received = FALSE
        BY <1>4, <2>1, <2>2, ResultFields
      <3>2. (persistent /\ before.connected /\ ~before.invalid) = FALSE
        BY <1>5
      <3>3. result' = [cold |-> FALSE, reused |-> FALSE, received |-> FALSE,
                       error |-> TRUE, available |-> FALSE]
        BY <1>2, <3>1, Zenon
      <3>4. [NoResult EXCEPT !.error = TRUE, !.available = FALSE]
            = [cold |-> NoResult.cold, reused |-> NoResult.reused,
               received |-> NoResult.received, error |-> TRUE, available |-> FALSE]
        BY ResultFields, ErrorAndAvailable
      <3>5. NoResult.cold = FALSE /\ NoResult.reused = FALSE /\ NoResult.received = FALSE
        BY Zenon DEF NoResult
      <3> QED
        BY <3>2, <3>3, <3>4, <3>5, Zenon
    <2> QED
      BY <1>1, <2>5, <2>6, UnissuedIsGet
  <1>6. CASE ~before.invalid /\ pc \in {"asked", "http_write", "http_header_read",
                                         "http_body_read"} \cup SettingUp
    <2>1. r.received = FALSE
      BY <1>4, <1>6 DEF IInv, WorkingInv, SettingUp
    <2>2. (completed # 0) = before.used
      <3>1. CASE pc = "asked"
        BY <1>4, <3>1 DEF IInv, WorkingInv, Present
      <3>2. CASE pc \in SettingUp
        <4>1. completed = 0
          BY <3>2 DEF IInv, ConnectionInv, SettingUp
        <4>2. before.used = FALSE
          BY <3>2 DEF IInv, WorkingInv, Fresh
        <4> QED
          BY <4>1, <4>2
      <3>3. CASE pc \in {"http_write", "http_header_read", "http_body_read"}
        BY <1>4, <3>3 DEF IInv, WorkingInv, Exchanging
      <3> QED
        BY <1>6, <3>1, <3>2, <3>3
    <2>3. /\ r.cold \in {FALSE, persistent /\ ~before.connected}
          /\ r.reused \in {FALSE, persistent /\ before.connected /\ before.used}
      <3>1. CASE pc \in {"asked"} \cup SettingUp
        <4>1. ~working.reused /\ (r.cold => persistent /\ pc \in SettingUp)
          BY <3>1, ResultFields DEF IInv, WorkingInv, SettingUp, NoResult
        <4>2. pc \in SettingUp => ~before.connected
          BY DEF IInv, WorkingInv, Fresh
        <4> QED
          BY <1>4, <4>1, <4>2
      <3>2. CASE pc \in {"http_write", "http_header_read", "http_body_read"}
        <4>1. /\ before.used => before.connected
              /\ working.cold <=> (persistent /\ ~before.connected)
              /\ working.reused <=> (persistent /\ before.used)
          BY <3>2 DEF IInv, WorkingInv, Exchanging
        <4>2. pc # "dns"
          BY <3>2
        <4> QED
          BY <1>4, <4>1, <4>2
      <3> QED
        BY <1>6, <3>1, <3>2
    <2>4. Present' = [connected |-> FALSE, invalid |-> TRUE, used |-> before.used]
      BY <1>3, <2>2, Zenon
    <2>5. result' = [cold |-> r.cold, reused |-> r.reused, received |-> FALSE,
                     error |-> TRUE, available |-> FALSE]
      BY <1>2, <2>1, Zenon
    <2>6. [session |-> Present', result |-> result'] \in Connection!Lost(persistent, before)
      BY <2>3, <2>4, <2>5, LostUnanswered
    <2> QED
      BY <1>1, <1>6, <2>6, OutcomeIsGet
  <1>7. CASE pc \in {"received", "json_parse"}
    <2>1. /\ ~before.invalid
          /\ r.cold = (persistent /\ ~before.connected)
          /\ r.reused = (persistent /\ before.connected /\ before.used)
          /\ r.received = persistent
      <3>1. /\ ~before.invalid
            /\ before.used => before.connected
            /\ working.cold <=> (persistent /\ ~before.connected)
            /\ working.reused <=> (persistent /\ before.used)
            /\ working.received <=> persistent
        BY <1>7 DEF IInv, WorkingInv, Exchanging
      <3>2. pc # "dns"
        BY <1>7
      <3> QED
        BY <1>4, <3>1, <3>2
    <2>2. (completed # 0) \in {before.used, TRUE}
      <3>1. CASE pc = "received"
        <4>1. before.used <=> completed # 0
          BY <3>1 DEF IInv, WorkingInv, Exchanging
        <4> QED
          BY <1>4, <4>1
      <3>2. CASE pc = "json_parse"
        <4>1. completed \in Nat /\ completed > 0
          BY <3>2 DEF IInv, CountInv, TypeOK
        <4>2. (completed # 0) = TRUE
          BY <4>1
        <4> QED
          BY <4>2
      <3> QED
        BY <1>7, <3>1, <3>2
    <2>3. result' = [cold |-> persistent /\ ~before.connected,
                     reused |-> persistent /\ before.connected /\ before.used,
                     received |-> persistent, error |-> TRUE, available |-> FALSE]
      BY <1>2, <2>1, Zenon
    <2>4. [session |-> Present', result |-> result'] \in Connection!Lost(persistent, before)
      BY <1>3, <2>2, <2>3, LostAnswered
    <2> QED
      BY <1>1, <2>1, <2>4, OutcomeIsGet
  <1> QED
    BY <1>5, <1>6, <1>7 DEF IInv, TypeOK, Stages, Waiting, SettingUp

\* An answer that was read.
LEMMA ParseIsGet ==
  ASSUME IInv, NEW invalid_json \in BOOLEAN, Parse(invalid_json)
  PROVE  Connection!Get
  <1>1. /\ pc = "json_parse" /\ pc' = "idle"
        /\ UNCHANGED <<persistent, invalid, completed>>
        /\ persistent => UNCHANGED connected
        /\ ~persistent => connected' = FALSE
    BY DEF Parse, FinishKeeping, Finish, CloseSocket, IInv, ConnectionInv, TypeOK
  <1>2. /\ persistent \in BOOLEAN /\ connected \in BOOLEAN /\ invalid \in BOOLEAN
        /\ before.connected \in BOOLEAN /\ before.invalid \in BOOLEAN /\ before.used \in BOOLEAN
    BY DEF IInv, TypeOK
  <1>3. invalid = (~connected) /\ completed # 0
    BY <1>1, <1>2 DEF IInv, ConnectionInv, CountInv, TypeOK
  <1>4. connected' = (persistent /\ connected) /\ invalid' = (~connected)
        /\ (completed' # 0) = TRUE
    BY <1>1, <1>2, <1>3
  <1>5. Present' = [connected |-> persistent /\ connected, invalid |-> ~connected, used |-> TRUE]
    BY <1>4, Zenon DEF Present
  <1>6. /\ ~before.invalid
        /\ working.cold = (persistent /\ ~before.connected)
        /\ working.reused = (persistent /\ before.connected /\ before.used)
        /\ working.received = persistent
    <2>1. /\ ~before.invalid
          /\ before.used => before.connected
          /\ working.cold <=> (persistent /\ ~before.connected)
          /\ working.reused <=> (persistent /\ before.used)
          /\ working.received <=> persistent
      BY <1>1 DEF IInv, WorkingInv
    <2>2. working.cold \in BOOLEAN /\ working.reused \in BOOLEAN /\ working.received \in BOOLEAN
      BY DEF IInv, TypeOK, Results
    <2> QED
      BY <1>2, <2>1, <2>2
  <1>7. result' = [cold |-> working.cold, reused |-> working.reused,
                   received |-> working.received, error |-> invalid_json,
                   available |-> persistent /\ connected]
    <2>1. (persistent /\ connected' /\ ~invalid') = (persistent /\ connected)
      BY <1>2, <1>4
    <2>2. result' = [[working EXCEPT !.error = invalid_json]
                       EXCEPT !.available = persistent /\ connected]
      BY <2>1, Zenon DEF Parse, FinishKeeping, Finish
    <2> HIDE DEF IInv
    <2>3. working \in Results
      BY DEF IInv, TypeOK
    <2> QED
      BY <2>2, <2>3, ErrorAndAvailable
  <1>8. result' = [cold |-> persistent /\ ~before.connected,
                   reused |-> persistent /\ before.connected /\ before.used,
                   received |-> persistent, error |-> invalid_json,
                   available |-> persistent /\ connected]
    BY <1>6, <1>7, Zenon
  <1>9. [session |-> Present', result |-> result'] \in Connection!Answered(persistent, before)
    BY <1>2, <1>5, <1>8, AnsweredIsWhole
  <1> QED
    BY <1>1, <1>6, <1>9, OutcomeIsGet

LEMMA RefuseIsGet ==
  ASSUME IInv, Refuse
  PROVE  Connection!Get
  <1>1. /\ pc = "asked" /\ pc' = "idle"
        /\ UNCHANGED <<persistent, connected, invalid, completed>>
    <2>1. ~persistent => ~connected
      BY DEF Refuse, IInv, ConnectionInv
    <2>2. connected \in BOOLEAN /\ persistent \in BOOLEAN
      BY DEF IInv, TypeOK
    <2>3. ~persistent => connected' = FALSE
      BY <2>1, <2>2 DEF Refuse, FinishKeeping, CloseSocket
    <2> QED
      BY <2>1, <2>2, <2>3 DEF Refuse, FinishKeeping, Finish
  <1>2. before = Present /\ working = NoResult
    BY <1>1 DEF IInv, WorkingInv
  <1>3. Present' = before
    BY <1>1, <1>2, Zenon DEF Present
  <1>4. before.connected = connected /\ before.invalid = invalid
    BY <1>2, Zenon DEF Present
  <1>5. result' = [[NoResult EXCEPT !.error = TRUE]
                     EXCEPT !.available = persistent /\ before.connected /\ ~before.invalid]
    BY <1>1, <1>2, <1>4, Zenon DEF Refuse, FinishKeeping, Finish, Failed
  <1>6. ASSUME NEW a PROVE [[NoResult EXCEPT !.error = TRUE] EXCEPT !.available = a]
                           = [NoResult EXCEPT !.error = TRUE, !.available = a]
    BY DEF NoResult
  <1>7. result' = [NoResult EXCEPT !.error = TRUE,
                     !.available = persistent /\ before.connected /\ ~before.invalid]
    BY <1>5, <1>6, Zenon
  <1> QED
    BY <1>1, <1>3, <1>7, UnissuedIsGet

\* What is between the call of a request and its return is seen by nobody.
LEMMA InsideIsHidden ==
  ASSUME pc # "idle", pc' # "idle", UNCHANGED <<persistent, result, before>>
  PROVE  UNCHANGED Connection!vars
  BY DEF Connection!vars, Offered

LEMMA StepRefines ==
  IInv /\ IInv' /\ [Next]_vars => [Connection!Next]_(Connection!vars)
  <1> SUFFICES ASSUME IInv, IInv', [Next]_vars
               PROVE  [Connection!Next]_(Connection!vars)
    OBVIOUS
  <1>1. ASSUME NEW d \in 0 .. MaxLeft, Get(d) PROVE UNCHANGED Connection!vars
    BY <1>1 DEF Get, Connection!vars, Offered, session
  <1>2. CASE Refuse
    BY <1>2, RefuseIsGet DEF Connection!Next
  <1>3. CASE Reuse \/ SetUp \/ Connect \/ Write \/ ReadHeader \/ ReadBody
    <2>1. pc # "idle" /\ pc' # "idle" /\ UNCHANGED <<persistent, result, before>>
      BY <1>3 DEF Reuse, SetUp, Connect, Write, ReadHeader, ReadBody, session, ghosts
    <2> QED
      BY <2>1, InsideIsHidden
  <1>4. ASSUME NEW i \in DOMAIN SetupStage, SetupAdvances(i) PROVE UNCHANGED Connection!vars
    <2>1. pc # "idle" /\ pc' # "idle" /\ UNCHANGED <<persistent, result, before>>
      BY <1>4 DEF SetupAdvances, SetupStage, ghosts
    <2> QED
      BY <2>1, InsideIsHidden
  <1>5. ASSUME NEW keep_alive \in BOOLEAN, Release(keep_alive) PROVE UNCHANGED Connection!vars
    <2>1. pc # "idle" /\ pc' # "idle" /\ UNCHANGED <<persistent, result, before>>
      BY <1>5 DEF Release, ghosts
    <2> QED
      BY <2>1, InsideIsHidden
  <1>6. ASSUME NEW invalid_json \in BOOLEAN, Parse(invalid_json) PROVE Connection!Get
    BY <1>6, ParseIsGet
  <1>7. CASE WriteFails \/ ReadFails \/ Throw
    <2>1. /\ pc # "idle" /\ Invalidate /\ Finish(Failed(working))
          /\ UNCHANGED <<persistent, completed>>
      BY <1>7 DEF WriteFails, ReadFails, Throw, RequestFails
    <2>2. working \in Results
      BY DEF IInv, TypeOK
    <2>3. Connection!Get
      BY <2>1, <2>2, FailureIsGet
    <2> QED
      BY <2>3 DEF Connection!Next
  <1>8. CASE TimesOut \/ \E i \in DOMAIN SetupStage : SetupFails(i)
    <2>1. /\ pc # "idle" /\ Invalidate /\ Finish(Failed(Measured(working, pc)))
          /\ UNCHANGED <<persistent, completed>>
      BY <1>8 DEF TimesOut, Deadline, Waiting, SetupFails, SetupStage, RequestFails
    <2>2. working \in Results /\ Measured(working, pc) \in Results
      BY MarkedType DEF IInv, TypeOK
    <2>3. /\ Measured(working, pc).reused = working.reused
          /\ Measured(working, pc).received = working.received
          /\ Measured(working, pc).cold <=> working.cold \/ (persistent /\ pc = "dns")
      BY <2>2, Zenon DEF Measured, Results
    <2>4. Connection!Get
      BY <2>1, <2>2, <2>3, FailureIsGet
    <2> QED
      BY <2>4 DEF Connection!Next
  <1>9. CASE Tick
    BY <1>9 DEF Tick, Connection!vars, Offered, Present, session, ghosts
  <1>10. CASE Discard
    <2>1. Offered' = Connection!Fresh
      BY <1>10, Zenon DEF Discard, Offered, Present, Connection!Fresh
    <2>2. result' = Connection!NoResult
      BY <1>10 DEF Discard, NoResult, Connection!NoResult
    <2> QED
      BY <1>10, <2>1, <2>2 DEF Discard, Connection!Next, Connection!Renew
  <1>11. CASE UNCHANGED vars
    BY <1>11 DEF vars, session, ghosts, Connection!vars, Offered, Present
  <1> QED
    BY <1>1, <1>2, <1>3, <1>4, <1>5, <1>6, <1>7, <1>8, <1>9, <1>10, <1>11
       DEF Next, LocalStep, NetworkStep, Connection!Next

LEMMA InitRefines == Init => Connection!Init
  <1> SUFFICES ASSUME Init PROVE Connection!Init
    OBVIOUS
  <1>1. connected = FALSE /\ invalid = FALSE /\ (completed # 0) = FALSE /\ pc = "idle"
    BY DEF Init
  <1>2. Offered = Connection!Fresh
    BY <1>1, Zenon DEF Offered, Present, Connection!Fresh
  <1>3. result = Connection!NoResult
    BY DEF Init, NoResult, Connection!NoResult
  <1> QED
    BY <1>2, <1>3 DEF Init, Connection!Init

\* From its call to its return a request is one step of HttpConnection, however
\* many requests there are and wherever each of them fails: what it says of the
\* connection is true, and a session that has lost its connection is over.
THEOREM ARequestIsOneStep == Spec => ImplementsConnection
  BY InitRefines, StepRefines, InitIInv, NextKeepsIInv, PTL
     DEF Spec, ImplementsConnection, Connection!Spec
=============================================================================
