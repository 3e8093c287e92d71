--------------------------- MODULE PairedRestProofs ---------------------------
(***************************************************************************)
(* Proofs about PairedRest, for any number of rounds, warm-ups, ticks and  *)
(* bytes.                                                                  *)
(***************************************************************************)
EXTENDS PairedRest, FiniteSetTheorems, WellFoundedInduction, TLAPS

-----------------------------------------------------------------------------
(* Rows and their numbers *)

LEMMA SameRows ==
  ASSUME rows' = rows
  PROVE  \A r, w, s : Pairs(r, w, s)' = Pairs(r, w, s)
  BY DEF Pairs

LEMMA PairsAreNumbers ==
  ASSUME rows \in Seq(RowType)
  PROVE  \A r, w, s :
           /\ Pairs(r, w, s) \in Nat
           /\ Pairs(r, w, s) = 0 <=>
                \A i \in DOMAIN rows :
                  ~(rows[i].round = r /\ rows[i].warmup = w /\ rows[i].side = s)
  <1> SUFFICES ASSUME NEW r, NEW w, NEW s
               PROVE  /\ Pairs(r, w, s) \in Nat
                      /\ Pairs(r, w, s) = 0 <=>
                           \A i \in DOMAIN rows :
                             ~(rows[i].round = r /\ rows[i].warmup = w /\ rows[i].side = s)
    OBVIOUS
  <1> DEFINE Mine == {i \in DOMAIN rows : /\ rows[i].round = r
                                          /\ rows[i].warmup = w
                                          /\ rows[i].side = s}
  <1>1. IsFiniteSet(DOMAIN rows)
    <2>1. DOMAIN rows = 1 .. Len(rows) /\ Len(rows) \in Nat
      OBVIOUS
    <2> QED
      BY <2>1, FS_Interval
  <1>2. IsFiniteSet(Mine)
    BY <1>1, FS_Subset
  <1>3. Cardinality(Mine) \in Nat /\ (Cardinality(Mine) = 0 <=> Mine = {})
    BY <1>2, FS_CardinalityType, FS_EmptySet
  <1>4. Pairs(r, w, s) = Cardinality(Mine)
    BY DEF Pairs
  <1> QED
    BY <1>3, <1>4

LEMMA OneMoreRow ==
  ASSUME rows \in Seq(RowType), NEW row \in RowType, rows' = Append(rows, row)
  PROVE  \A r, w, s :
           Pairs(r, w, s)' =
             Pairs(r, w, s)
               + (IF row.round = r /\ row.warmup = w /\ row.side = s THEN 1 ELSE 0)
  <1> SUFFICES ASSUME NEW r, NEW w, NEW s
               PROVE  Pairs(r, w, s)' =
                        Pairs(r, w, s)
                          + (IF row.round = r /\ row.warmup = w /\ row.side = s THEN 1 ELSE 0)
    OBVIOUS
  <1> DEFINE Counts(x) == x.round = r /\ x.warmup = w /\ x.side = s
             Mine == {i \in DOMAIN rows : Counts(rows[i])}
             Then == {i \in DOMAIN rows' : Counts(rows'[i])}
             n == Len(rows) + 1
  <1>1. /\ DOMAIN rows = 1 .. Len(rows) /\ Len(rows) \in Nat
        /\ DOMAIN rows' = 1 .. n
        /\ \A i \in 1 .. Len(rows) : rows'[i] = rows[i]
        /\ rows'[n] = row
    OBVIOUS
  <1>2. IsFiniteSet(Mine) /\ n \notin Mine
    <2>1. IsFiniteSet(DOMAIN rows)
      BY <1>1, FS_Interval
    <2> QED
      BY <1>1, <2>1, FS_Subset
  <1>3. Cardinality(Mine) \in Nat
    BY <1>2, FS_CardinalityType
  <1>4. Pairs(r, w, s) = Cardinality(Mine) /\ Pairs(r, w, s)' = Cardinality(Then)
    BY DEF Pairs
  <1>5. CASE Counts(row)
    <2>1. Then = Mine \cup {n}
      BY <1>1, <1>5
    <2>2. Cardinality(Then) = Cardinality(Mine) + 1
      BY <1>2, <2>1, FS_AddElement
    <2> QED
      BY <1>4, <1>5, <2>2
  <1>6. CASE ~Counts(row)
    <2>1. Then = Mine
      BY <1>1, <1>6
    <2>2. Pairs(r, w, s)' = Pairs(r, w, s) /\ Pairs(r, w, s) \in Nat
      BY <1>3, <1>4, <2>1
    <2> HIDE DEF Mine, Then
    <2> QED
      BY <1>6, <2>2
  <1> QED
    BY <1>5, <1>6

-----------------------------------------------------------------------------
(* Connections *)

LEMMA NothingIsTold ==
  ASSUME NEW r \in Http!Results, NEW available \in BOOLEAN
  PROVE  LET told == [r EXCEPT !.error = TRUE, !.available = available]
         IN  /\ told \in Http!Results /\ told.error
             /\ told.cold = r.cold /\ told.reused = r.reused
  <1> DEFINE q == [r EXCEPT !.error = TRUE]
             z == [q EXCEPT !.available = available]
  <1>1. q \in Http!Results /\ q.error /\ q.cold = r.cold /\ q.reused = r.reused
    BY DEF Http!Results
  <1> HIDE DEF q
  <1>2. z \in Http!Results /\ z.error /\ z.cold = r.cold /\ z.reused = r.reused
    BY <1>1 DEF Http!Results
  <1> QED
    BY <1>2, Zenon DEF q

\* What the promise of HttpConnection comes to on the connections a pair finds.
LEMMA RequestTells ==
  ASSUME NEW c \in {Http!Fresh, Established}, NEW o \in Http!Outcomes(TRUE, c)
  PROVE  /\ o.session \in Http!Sessions
         /\ o.result \in Http!Results
         /\ o.result.cold => c = Http!Fresh
         /\ o.result.reused => c = Established
         /\ ~o.result.error => (o.result.cold <=> c = Http!Fresh)
         /\ ~o.result.error /\ o.result.available => o.session = Established
  <1>0. /\ c = Http!Fresh \/ c = Established
        /\ Http!Fresh \in Http!Sessions /\ ~Http!Fresh.connected /\ ~Http!Fresh.used
        /\ Established \in Http!Sessions /\ Established.connected /\ Established.used
    BY DEF Http!Fresh, Established, Http!Sessions
  <1>1. CASE o = Http!Unissued(TRUE, c)
    <2>1. PICK available \in BOOLEAN : available = (TRUE /\ c.connected /\ ~c.invalid)
      OBVIOUS
    <2> DEFINE told == [Http!NoResult EXCEPT !.error = TRUE, !.available = available]
    <2>2. o = [session |-> c, result |-> told]
      BY <1>1, <2>1, Zenon DEF Http!Unissued
    <2>3. /\ Http!NoResult \in Http!Results
          /\ ~Http!NoResult.cold /\ ~Http!NoResult.reused
      BY DEF Http!Results, Http!NoResult
    <2>4. told \in Http!Results /\ told.error /\ ~told.cold /\ ~told.reused
      BY <2>3, NothingIsTold
    <2> HIDE DEF told
    <2>5. o.session = c /\ o.result = told
      BY <2>2
    <2>6. c \in Http!Sessions
      BY <1>0
    <2> QED
      BY <2>4, <2>5, <2>6
  <1>2. CASE o \in Http!Lost(TRUE, c)
    <2>1. PICK cold \in {FALSE, ~c.connected}, reused \in {FALSE, c.connected /\ c.used},
               received \in BOOLEAN, used \in {c.used, TRUE} :
            o = [session |-> [connected |-> FALSE, invalid |-> TRUE, used |-> used],
                 result |-> [cold |-> cold, reused |-> reused, received |-> received,
                             error |-> TRUE, available |-> FALSE]]
      BY <1>2 DEF Http!Lost
    <2> QED
      BY <1>0, <2>1 DEF Http!Sessions, Http!Results
  <1>3. CASE o \in Http!Answered(TRUE, c)
    <2>1. PICK keep_alive \in BOOLEAN, invalid_json \in BOOLEAN :
            o = [session |-> [connected |-> TRUE /\ keep_alive, invalid |-> ~keep_alive,
                              used |-> TRUE],
                 result |-> [cold |-> TRUE /\ ~c.connected,
                             reused |-> TRUE /\ c.connected /\ c.used,
                             received |-> TRUE, error |-> invalid_json,
                             available |-> TRUE /\ keep_alive]]
      BY <1>3 DEF Http!Answered
    <2>2. o.session \in Http!Sessions /\ o.result \in Http!Results
      BY <2>1 DEF Http!Sessions, Http!Results
    <2>3. /\ o.result.cold <=> ~c.connected
          /\ o.result.reused => c.connected
          /\ o.result.available => keep_alive
      BY <2>1
    <2>4. keep_alive => o.session = Established
      BY <2>1 DEF Established
    <2> QED
      BY <1>0, <2>2, <2>3, <2>4
  <1> QED
    BY <1>1, <1>2, <1>3 DEF Http!Outcomes

-----------------------------------------------------------------------------
(* Steps that leave most alone *)

\* Up to the results of a pair nothing is counted and nothing written.
Before == {"slot", "write_standard"} \cup AtPair

LEMMA PairStep ==
  ASSUME IInv, main \in Before, main' \in Before,
         UNCHANGED <<progress, files, tallies, verdict>>
  PROVE  FilesInv' /\ CountsInv' /\ VerdictInv' /\ NewConnectionOnlyAtRoundStart'
  <1> USE DEF IInv, progress, files, tallies, verdict, Before, AtPair
  <1>1. FilesInv'
    BY DEF FilesInv
  <1>2. CountsInv'
    <2>1. \A r, w, s : Pairs(r, w, s)' = Pairs(r, w, s)
      BY SameRows
    <2>2. \A s : Done(s) = 0 /\ Done(s)' = 0
      BY DEF Done
    <2>3. (Measuring <=> Measuring') /\ (\A r : WholeRound(r)' <=> WholeRound(r))
      BY <2>1 DEF Measuring, WholeRound
    <2> QED
      BY <2>1, <2>2, <2>3 DEF CountsInv, InRound, Writing
  <1>3. VerdictInv'
    BY DEF VerdictInv, Complete
  <1>4. NewConnectionOnlyAtRoundStart'
    BY DEF NewConnectionOnlyAtRoundStart
  <1> QED
    BY <1>1, <1>2, <1>3, <1>4

\* The outer handler, from wherever something was thrown.
LEMMA CaughtStep ==
  ASSUME IInv, Caught, main \in AtPair \cup {"write_standard", "write_aws"},
         UNCHANGED <<round, warmups, measured, next, stop, completed_rounds, now, recorded,
                     files, verdict>>,
         \A s \in Side : worker'[s] = "none"
  PROVE  /\ LatchInv' /\ AnswerInv' /\ FilesInv' /\ CountsInv' /\ VerdictInv'
         /\ NewConnectionOnlyAtRoundStart'
  <1>1. main' = "flush" /\ any_failure' = TRUE
    BY DEF Caught
  <1>2. LatchInv'
    BY <1>1 DEF LatchInv, AtPair, Writing
  <1>3. AnswerInv'
    BY <1>1 DEF AnswerInv, AtPair, Writing
  <1>4. FilesInv'
    BY <1>1 DEF IInv, FilesInv, files
  <1>5. CountsInv'
    BY <1>1 DEF IInv, CountsInv, files, InRound, AtPair, Writing
  <1>6. VerdictInv'
    BY <1>1 DEF IInv, VerdictInv, verdict, AtPair
  <1>7. NewConnectionOnlyAtRoundStart'
    BY DEF IInv, NewConnectionOnlyAtRoundStart, files
  <1> QED
    BY <1>2, <1>3, <1>4, <1>5, <1>6, <1>7

-----------------------------------------------------------------------------
(* The steps of a pair *)

LEMMA BeginPairStep ==
  ASSUME IInv, BeginPair
  PROVE  IInv'
  <1> USE DEF IInv, BeginPair
  <1>1. main = "slot" /\ main' = "start_first"
    OBVIOUS
  <1>2. FilesInv' /\ CountsInv' /\ VerdictInv' /\ NewConnectionOnlyAtRoundStart'
    BY <1>1, PairStep DEF Before, AtPair
  <1>3. TimeFor \in Nat /\ (Measuring => now < End /\ now + TimeFor <= End)
    <2>1. now \in Nat /\ Timeout \in Nat /\ End \in Nat
      BY PairedAssumption DEF TypeOK, Horizon, End
    <2>2. CASE Measuring
      <3>1. now < End
        BY <2>1, <2>2 DEF RoundOver
      <3> QED
        BY <2>1, <2>2, <3>1 DEF TimeFor, Smaller
    <2>3. CASE ~Measuring
      BY <2>1, <2>3 DEF TimeFor
    <2> QED
      BY <2>2, <2>3
  <1>4. TypeOK'
    BY <1>3 DEF TypeOK, InRound, AtPair, progress, files, tallies, verdict
  <1>5. LatchInv'
    BY <1>1 DEF LatchInv, Owed, AtPair, Writing, Side
  <1>6. TimeInv'
    BY <1>3 DEF TimeInv, Measuring, progress
  <1>7. AnswerInv'
    BY <1>1 DEF AnswerInv, AtPair, Writing, Found, progress, files
  <1> QED
    BY <1>2, <1>4, <1>5, <1>6, <1>7

\* The steps of get_pair that start and release the workers.
LEMMA StartStep ==
  ASSUME IInv, StartFirst \/ StartSecond \/ SecondNotStarted \/ Release
  PROVE  IInv'
  <1> USE DEF IInv, StartFirst, StartSecond, SecondNotStarted, Release
  <1>0. released = FALSE /\ aborted = FALSE /\ start = 1
    <2>1. main \in {"start_first", "start_second", "ready_wait"}
      OBVIOUS
    <2>2. start = 1 /\ ~released /\ ~aborted
      BY <2>1 DEF LatchInv, AtPair
    <2> QED
      BY <2>2 DEF TypeOK
  <1>9. ASSUME SecondNotStarted PROVE start' = 0 /\ aborted' = TRUE
    <2>1. start' = 0
      BY <1>0, <1>9 DEF HandlePairException
    <2>2. aborted' = TRUE
      BY <1>0, <1>9, Zenon DEF HandlePairException
    <2> QED
      BY <2>1, <2>2
  <1>1. /\ main \in {"start_first", "start_second", "ready_wait"}
        /\ main' \in {"start_second", "ready_wait", "join", "abandon"}
        /\ UNCHANGED <<progress, left, answer, connection, now, tallies, files, verdict>>
    OBVIOUS
  <1>2. FilesInv' /\ CountsInv' /\ VerdictInv' /\ NewConnectionOnlyAtRoundStart'
    BY <1>1, PairStep DEF Before, AtPair
  <1>3. TypeOK'
    <2>1. worker' \in [Side -> {"none", "started", "waiting", "requesting", "returned", "threw"}]
      BY DEF TypeOK, Side
    <2>2. /\ main' \in InRound /\ ready' \in Nat /\ start' \in Nat
          /\ released' \in BOOLEAN /\ aborted' \in BOOLEAN
      <3>1. main' \in InRound
        BY <1>1 DEF InRound, AtPair
      <3>2. /\ ready' = ready /\ start' \in {0, 1}
            /\ released' \in {TRUE, released} /\ aborted' \in {TRUE, aborted}
        <4>1. CASE SecondNotStarted
          BY <1>9, <4>1
        <4>2. CASE StartFirst \/ StartSecond
          BY <1>0, <4>2
        <4>3. CASE Release
          BY <1>0, <4>3
        <4> QED
          BY <4>1, <4>2, <4>3
      <3>3. released' \in BOOLEAN /\ aborted' \in BOOLEAN
        BY <1>0, <3>2, Zenon
      <3>4. ready' \in Nat /\ start' \in Nat
        BY <3>2 DEF TypeOK
      <3> QED
        BY <3>1, <3>3, <3>4
    <2> QED
      BY <1>1, <2>1, <2>2 DEF TypeOK, progress, files, tallies, verdict
  <1>4. LatchInv'
    <2>1. CASE StartFirst
      BY <2>1 DEF LatchInv, TypeOK, Owed, AtPair, Writing, Side
    <2>2. CASE StartSecond
      BY <2>2 DEF LatchInv, TypeOK, Owed, AtPair, Writing, Side
    <2>3. CASE SecondNotStarted
      BY <1>0, <1>9, <2>3 DEF LatchInv, TypeOK, Owed, AtPair, Writing, Side
    <2>4. CASE Release
      <3>1. \A s \in Side : worker[s] = "waiting"
        BY <2>4 DEF LatchInv, Owed, AtPair, WorkersReady, Side
      <3> QED
        BY <2>4, <3>1 DEF LatchInv, TypeOK, Owed, AtPair, Writing, Side
    <2> QED
      BY <2>1, <2>2, <2>3, <2>4
  <1>5. TimeInv'
    BY <1>1 DEF TimeInv, Measuring, progress
  <1>6. AnswerInv'
    <2>1. \A s \in Side : worker'[s] # "returned" /\ worker[s] # "returned"
      BY DEF LatchInv, TypeOK, Side, AtPair
    <2> QED
      BY <1>1, <2>1 DEF AnswerInv, AtPair, Writing, Found, progress, files
  <1> QED
    BY <1>2, <1>3, <1>4, <1>5, <1>6

\* The steps of a worker before its request, and one that throws.
LEMMA WorkerStep ==
  ASSUME IInv, NEW s \in Side, Arrive(s) \/ Pass(s) \/ WorkerThrows(s)
  PROVE  IInv'
  <1> USE DEF IInv, Arrive, Pass, WorkerThrows
  <1>1. /\ main \in AtPair /\ main' = main
        /\ UNCHANGED <<progress, left, answer, connection, now, tallies, files, verdict>>
    BY DEF LatchInv
  <1>2. FilesInv' /\ CountsInv' /\ VerdictInv' /\ NewConnectionOnlyAtRoundStart'
    BY <1>1, PairStep DEF Before
  <1>3. \A t \in Side : Owed(t) \in Nat
    BY DEF Owed
  <1>4. Arrive(s) => ready - 1 \in Nat
    BY <1>1 DEF LatchInv, Owed, Side
  <1>5. TypeOK'
    <2>1. worker' \in [Side -> {"none", "started", "waiting", "requesting", "returned", "threw"}]
      BY DEF TypeOK
    <2>2. ready' \in Nat /\ start' \in Nat /\ released' \in BOOLEAN /\ aborted' \in BOOLEAN
      BY <1>4 DEF TypeOK
    <2> QED
      BY <1>1, <2>1, <2>2 DEF TypeOK, progress, files, tallies, verdict
  <1>6. LatchInv'
    <2>1. CASE Arrive(s)
      BY <1>1, <2>1 DEF LatchInv, TypeOK, Owed, AtPair, Writing, Side
    <2>2. CASE Pass(s)
      BY <1>1, <2>2 DEF LatchInv, TypeOK, Owed, AtPair, Writing, Side
    <2>3. CASE WorkerThrows(s)
      BY <1>1, <2>3 DEF LatchInv, TypeOK, Owed, AtPair, Writing, Side
    <2> QED
      BY <2>1, <2>2, <2>3
  <1>7. TimeInv'
    BY <1>1 DEF TimeInv, Measuring, progress
  <1>8. AnswerInv'
    <2>1. \A t \in Side : worker[t] = "returned" => worker'[t] = "returned"
      BY DEF TypeOK
    <2>2. main = "join" => \A t \in Side : worker'[t] = "returned" => worker[t] = "returned"
      BY DEF TypeOK, LatchInv, AtPair
    <2>3. \A t \in Side : Told(t)' <=> Told(t)
      BY <1>1 DEF Told, progress
    <2> QED
      BY <1>1, <2>1, <2>2, <2>3 DEF AnswerInv, AtPair, Writing, Found, progress, files
  <1> QED
    BY <1>2, <1>5, <1>6, <1>7, <1>8

LEMMA AnswersAreAnswers ==
  ASSUME NEW s \in Side, NEW result \in Http!Results, NEW a \in Answers(s, result)
  PROVE  a \in AnswerType /\ a.result = result
  <1>1. (IF result.received /\ ~result.error THEN BOOLEAN ELSE {FALSE}) \subseteq BOOLEAN
    OBVIOUS
  <1>2. (IF ~result.received THEN {0}
         ELSE IF result.error THEN Bodies[s] \cup {0} ELSE Bodies[s]) \subseteq Nat
    BY PairedAssumption
  <1> QED
    BY <1>1, <1>2 DEF Answers, AnswerType

\* A request, on the connection the pair found.
LEMMA RequestStep ==
  ASSUME IInv, NEW s \in Side, Request(s)
  PROVE  IInv'
  <1> USE DEF IInv
  <1>1. /\ main = "join" /\ main' = main /\ worker[s] = "requesting"
        /\ worker' = [worker EXCEPT ![s] = "returned"]
        /\ UNCHANGED <<progress, ready, start, released, aborted, left, now, tallies, files,
                       verdict>>
    BY DEF Request, LatchInv, AtPair, Side
  <1>2. FilesInv' /\ CountsInv' /\ VerdictInv' /\ NewConnectionOnlyAtRoundStart'
    BY <1>1, PairStep DEF Before, AtPair
  <1>3. connection[s] = Found
    BY <1>1 DEF AnswerInv, AtPair
  <1>4. PICK o \in Http!Outcomes(TRUE, Found) :
          /\ connection' = [connection EXCEPT ![s] = o.session]
          /\ \E a \in Answers(s, o.result) : answer' = [answer EXCEPT ![s] = a]
    BY <1>3 DEF Request
  <1>5. Found \in {Http!Fresh, Established} /\ Http!Fresh # Established
    BY DEF Found, Http!Fresh, Established
  <1>6. /\ o.session \in Http!Sessions /\ o.result \in Http!Results
        /\ o.result.cold => Found = Http!Fresh
        /\ o.result.reused => Found = Established
        /\ ~o.result.error => (o.result.cold <=> Found = Http!Fresh)
        /\ ~o.result.error /\ o.result.available => o.session = Established
    BY <1>5, RequestTells
  <1>7. PICK a \in Answers(s, o.result) : answer' = [answer EXCEPT ![s] = a]
    BY <1>4
  <1>8. a \in AnswerType /\ a.result = o.result
    BY <1>6, AnswersAreAnswers
  <1>9. /\ answer' \in [Side -> AnswerType] /\ connection' \in [Side -> Http!Sessions]
        /\ worker' \in [Side -> {"none", "started", "waiting", "requesting", "returned", "threw"}]
    BY <1>1, <1>4, <1>6, <1>7, <1>8 DEF TypeOK
  <1>10. TypeOK'
    BY <1>1, <1>9 DEF TypeOK, progress, tallies, files, verdict
  <1>11. LatchInv'
    BY <1>1 DEF LatchInv, TypeOK, Owed, AtPair, Writing, Side
  <1>12. TimeInv'
    BY <1>1 DEF TimeInv, Measuring, progress
  <1>13. AnswerInv'
    <2>1. answer'[s] = a /\ connection'[s] = o.session
      BY <1>4, <1>7 DEF TypeOK
    <2>2. \A t \in Side : t # s => /\ answer'[t] = answer[t] /\ connection'[t] = connection[t]
                                   /\ worker'[t] = worker[t]
      BY <1>1, <1>4, <1>7 DEF TypeOK
    <2>3. (Found = Http!Fresh <=> warmups = 0) /\ (Found = Established <=> warmups > 0)
      BY <1>5 DEF Found, TypeOK
    <2>4. Told(s)'
      BY <1>1, <1>6, <1>8, <2>1, <2>3 DEF Told, progress
    <2>5. \A t \in Side : t # s => (Told(t)' <=> Told(t))
      BY <1>1, <2>2 DEF Told, progress
    <2>6. worker'[s] = "returned" /\ Found' = Found
      BY <1>1 DEF TypeOK, Found, progress
    <2> QED
      BY <1>1, <2>2, <2>4, <2>5, <2>6 DEF AnswerInv, AtPair, Writing, progress, files
  <1> QED
    BY <1>2, <1>10, <1>11, <1>12, <1>13

LEMMA TickStep ==
  ASSUME IInv, Tick
  PROVE  IInv'
  <1> USE DEF IInv, Tick
  <1>1. /\ main \in {"slot", "join"} /\ main' = main
        /\ UNCHANGED <<progress, worker, ready, start, released, aborted, answer, connection,
                       tallies, files, verdict>>
    OBVIOUS
  <1>2. FilesInv' /\ CountsInv' /\ VerdictInv' /\ NewConnectionOnlyAtRoundStart'
    BY <1>1, PairStep DEF Before, AtPair
  <1>3. /\ now \in Nat /\ left \in Nat /\ Horizon \in Nat /\ now <= Horizon
        /\ End \in Nat /\ End < Horizon
    BY PairedAssumption DEF TypeOK, Horizon, End
  <1>4. now' \in 0 .. Horizon /\ left' \in Nat /\ (left = 0 => left' = 0)
    BY <1>3 DEF Smaller, Less
  <1>5. TypeOK'
    BY <1>1, <1>4 DEF TypeOK, progress, tallies, files, verdict
  <1>6. LatchInv'
    BY <1>1 DEF LatchInv, Owed, AtPair, Writing
  <1>7. TimeInv'
    <2>1. Measuring' <=> Measuring
      BY <1>1 DEF Measuring, progress
    <2>2. CASE Measuring /\ left > 0
      <3>1. now + left <= End
        BY <2>2 DEF TimeInv
      <3>2. now' = now + 1 /\ left' = left - 1
        BY <1>3, <2>2, <3>1 DEF Smaller, Less
      <3> QED
        BY <1>3, <3>1, <3>2 DEF TimeInv
    <2>3. CASE ~(Measuring /\ left > 0)
      BY <1>3, <1>4, <2>1, <2>3 DEF TimeInv
    <2> QED
      BY <2>2, <2>3
  <1>8. AnswerInv'
    BY <1>1 DEF AnswerInv, AtPair, Writing, Found, Told, progress, files
  <1> QED
    BY <1>2, <1>5, <1>6, <1>7, <1>8

LEMMA NobodyLeft ==
  ASSUME PairOver
  PROVE  /\ \A s \in Side : worker'[s] = "none"
         /\ worker' \in [Side -> {"none", "started", "waiting", "requesting", "returned", "threw"}]
         /\ left' = 0
  BY DEF PairOver

LEMMA NoAnswers == [s \in Side |-> NoAnswer] \in [Side -> AnswerType]
  BY DEF NoAnswer, AnswerType, Http!NoResult, Http!Results

LEMMA JoinStep ==
  ASSUME IInv, Join
  PROVE  IInv'
  <1> USE DEF IInv
  <1>1. /\ main = "join" /\ main' = "write_standard" /\ PairOver
        /\ \A s \in Side : worker[s] = "returned"
        /\ UNCHANGED <<progress, ready, start, released, aborted, answer, connection, now,
                       tallies, files, verdict>>
    BY DEF Join
  <1>2. FilesInv' /\ CountsInv' /\ VerdictInv' /\ NewConnectionOnlyAtRoundStart'
    BY <1>1, PairStep DEF Before, AtPair
  <1>3. TypeOK'
    BY <1>1, NobodyLeft DEF TypeOK, InRound, Writing, progress, tallies, files, verdict
  <1>4. LatchInv'
    BY <1>1, NobodyLeft DEF LatchInv, AtPair
  <1>5. TimeInv'
    BY <1>1, NobodyLeft DEF TimeInv
  <1>6. AnswerInv'
    BY <1>1 DEF AnswerInv, AtPair, Writing, Told, progress, files
  <1> QED
    BY <1>2, <1>3, <1>4, <1>5, <1>6

\* The steps in which get_pair or sample throws.
LEMMA ThrowStep ==
  ASSUME IInv, FirstNotStarted \/ JoinThrows \/ Abandon \/ WriteThrows
  PROVE  IInv'
  <1> USE DEF IInv
  <1>1. /\ Caught /\ main \in AtPair \cup {"write_standard", "write_aws"}
        /\ UNCHANGED <<round, warmups, measured, next, stop, completed_rounds, connection, now,
                       recorded, files, verdict>>
        /\ requests' \in Nat
    BY DEF FirstNotStarted, JoinThrows, Abandon, WriteThrows, AtPair, WriteOrder, tallies, TypeOK
  <1>2. /\ answer' \in [Side -> AnswerType] /\ left' \in {0, left}
        /\ ready' = ready /\ released' = released
        /\ \A s \in Side : worker'[s] = "none"
        /\ worker' \in [Side -> {"none", "started", "waiting", "requesting", "returned", "threw"}]
    <2>1. CASE FirstNotStarted
      BY <2>1 DEF FirstNotStarted, pairing, LatchInv, AtPair, Side, TypeOK
    <2>2. CASE JoinThrows
      BY <2>2, NobodyLeft, NoAnswers DEF JoinThrows
    <2>3. CASE Abandon
      BY <2>3, NobodyLeft, NoAnswers DEF Abandon
    <2>4. CASE WriteThrows
      BY <2>4 DEF WriteThrows, pairing, LatchInv, AtPair, WriteOrder, TypeOK
    <2> QED
      BY <2>1, <2>2, <2>3, <2>4
  <1>3. start' \in Nat /\ aborted' \in BOOLEAN
    <2>1. CASE JoinThrows
      <3>1. released = TRUE
        <4>1. released
          BY <2>1 DEF JoinThrows, LatchInv, AtPair
        <4> QED
          BY <4>1 DEF TypeOK
      <3>2. start' = start
        BY <2>1, <3>1 DEF JoinThrows, HandlePairException
      <3>3. aborted' \in BOOLEAN
        BY <2>1, Zenon DEF JoinThrows, HandlePairException
      <3> QED
        BY <3>2, <3>3 DEF TypeOK
    <2>2. CASE FirstNotStarted \/ Abandon \/ WriteThrows
      BY <2>2 DEF FirstNotStarted, Abandon, WriteThrows, pairing, TypeOK
    <2> QED
      BY <2>1, <2>2
  <1>4. LatchInv' /\ AnswerInv' /\ FilesInv' /\ CountsInv' /\ VerdictInv'
        /\ NewConnectionOnlyAtRoundStart'
    BY <1>1, <1>2, CaughtStep
  <1>5. TypeOK'
    BY <1>1, <1>2, <1>3 DEF TypeOK, Caught, files, verdict
  <1>6. TimeInv'
    <2>1. warmups' = warmups /\ now' = now /\ TimeInv
      BY <1>1
    <2>2. CASE left' = left
      BY <2>1, <2>2 DEF TimeInv, Measuring
    <2>3. CASE left' = 0
      BY <2>3 DEF TimeInv
    <2> QED
      BY <1>2, <2>2, <2>3
  <1> QED
    BY <1>4, <1>5, <1>6

-----------------------------------------------------------------------------
(* The steps that write a result *)

\* What skipping a result and writing one have in common.
LEMMA WrittenStep ==
  ASSUME IInv, NEW s \in Side, main \in DOMAIN WriteOrder, WriteOrder[main] = s, Written(s),
         UNCHANGED <<round, warmups, measured, next, any_failure, completed_rounds, pairing,
                     connection, now, durable, verdict>>
  PROVE  /\ main = IF s = "standard" THEN "write_standard" ELSE "write_aws"
         /\ main' = IF s = "standard" THEN "write_aws" ELSE "judge"
         /\ requests' = requests + 1 /\ stop' \in BOOLEAN
         /\ stop' <=> (stop \/ ~Valid(answer[s]))
         /\ LatchInv' /\ TimeInv' /\ AnswerInv'
  <1> USE DEF IInv
  <1>1. /\ main = IF s = "standard" THEN "write_standard" ELSE "write_aws"
        /\ main' = IF s = "standard" THEN "write_aws" ELSE "judge"
        /\ requests' = requests + 1
    BY DEF Side, WriteOrder, Written
  <1>2. stop' \in BOOLEAN /\ (stop' <=> (stop \/ ~Valid(answer[s])))
    BY Zenon DEF Written
  <1>3. main \in Writing /\ main' \in Writing /\ main' \notin AtPair
    BY <1>1 DEF Writing, AtPair
  <1>4. LatchInv'
    <2>1. main' \notin {"start_first", "start_second", "ready_wait", "join", "abandon"}
      BY <1>3 DEF AtPair
    <2>2. worker' = worker /\ left' = left /\ main \notin AtPair
      BY <1>1 DEF pairing, AtPair
    <2> QED
      BY <1>3, <2>1, <2>2 DEF LatchInv
  <1>5. TimeInv'
    BY DEF TimeInv, Measuring, pairing
  <1>6. AnswerInv'
    <2>1. \A t \in Side : Told(t) /\ (Told(t)' <=> Told(t))
      BY <1>3 DEF AnswerInv, Told, pairing
    <2>2. \A a : Valid(a)' <=> Valid(a)
      BY DEF Valid, Measuring
    <2>3. answer' = answer
      BY DEF pairing
    <2>4. main' \notin {"slot", "write_standard"} \cup AtPair
      BY <1>1, <1>3
    <2>5. ~stop' => Valid(answer["standard"]) /\ (s = "aws" => Valid(answer["aws"]))
      BY <1>1, <1>2 DEF AnswerInv, Side
    <2> QED
      BY <1>1, <2>1, <2>2, <2>3, <2>4, <2>5 DEF AnswerInv, Side
  <1> QED
    BY <1>1, <1>2, <1>4, <1>5, <1>6

LEMMA SkipStep ==
  ASSUME IInv, NEW s \in Side, Skip(s)
  PROVE  IInv'
  <1> USE DEF IInv
  <1>1. /\ main = IF s = "standard" THEN "write_standard" ELSE "write_aws"
        /\ main' = IF s = "standard" THEN "write_aws" ELSE "judge"
        /\ requests' = requests + 1 /\ stop' \in BOOLEAN
        /\ stop' <=> (stop \/ ~Valid(answer[s]))
        /\ LatchInv' /\ TimeInv' /\ AnswerInv'
    BY WrittenStep DEF Skip
  <1>2. /\ artifact_ok' = FALSE
        /\ UNCHANGED <<round, warmups, measured, next, any_failure, completed_rounds, pairing,
                       connection, now, recorded, body_offset, artifact_bytes, size, durable,
                       rows, verdict>>
    BY DEF Skip
  <1>3. TypeOK'
    <2>1. main' \in InRound /\ requests' \in Nat /\ stop' \in BOOLEAN
      BY <1>1 DEF TypeOK, InRound, Writing
    <2>2. artifact_ok' \in BOOLEAN
      BY <1>2, Zenon
    <2> QED
      BY <1>2, <2>1, <2>2 DEF TypeOK, pairing, verdict
  <1>4. FilesInv'
    BY <1>1, <1>2 DEF FilesInv
  <1>5. CountsInv'
    <2>1. \A r, w, t : Pairs(r, w, t)' = Pairs(r, w, t)
      BY <1>2, SameRows
    <2>2. \A r : WholeRound(r)' <=> WholeRound(r)
      BY <1>2, <2>1 DEF WholeRound
    <2>3. main \in InRound /\ main' \in InRound
      BY <1>1 DEF InRound, Writing
    <2> QED
      BY <1>2, <2>2, <2>3 DEF CountsInv, Measuring
  <1>6. VerdictInv'
    <2>1. ~stop' => ~stop
      BY <1>1
    <2>2. manifest' = "none" /\ exit' = "none"
      BY <1>1, <1>2 DEF VerdictInv, verdict
    <2>3. main' \in {"write_aws", "judge", "failed"}
      BY <1>1
    <2>4. any_failure' = any_failure /\ rows' = rows
      BY <1>2
    <2> QED
      BY <2>1, <2>2, <2>3, <2>4 DEF VerdictInv
  <1>7. NewConnectionOnlyAtRoundStart'
    BY <1>2 DEF NewConnectionOnlyAtRoundStart
  <1> QED
    BY <1>1, <1>3, <1>4, <1>5, <1>6, <1>7

LEMMA RowsAreRows ==
  ASSUME IInv, NEW s \in Side, round > 0
  PROVE  RequestRow(s) \in RowType
  <1>1. answer[s] \in AnswerType /\ answer[s].result \in Http!Results
    BY DEF IInv, TypeOK, AnswerType
  <1>2. /\ (~Measuring) \in BOOLEAN
        /\ answer[s].result.cold \in BOOLEAN /\ answer[s].result.reused \in BOOLEAN
    BY <1>1 DEF Measuring, Http!Results
  <1>3. Valid(answer[s]) \in BOOLEAN
    BY Zenon DEF Valid
  <1>4. round \in 1 .. Rounds /\ body_offset \in Nat /\ size["bodies"] \in Nat
    BY PairedAssumption DEF IInv, TypeOK, Stream
  <1>5. answer[s].body \in Nat
    BY <1>1 DEF AnswerType
  <1> QED
    BY <1>2, <1>3, <1>4, <1>5 DEF RequestRow, RowType

LEMMA WriteStep ==
  ASSUME IInv, NEW s \in Side, Write(s)
  PROVE  IInv'
  <1> USE DEF IInv
  <1> DEFINE row == RequestRow(s)
             body == answer[s].body
  <1>1. /\ main = IF s = "standard" THEN "write_standard" ELSE "write_aws"
        /\ main' = IF s = "standard" THEN "write_aws" ELSE "judge"
        /\ requests' = requests + 1 /\ stop' \in BOOLEAN
        /\ stop' <=> (stop \/ ~Valid(answer[s]))
        /\ LatchInv' /\ TimeInv' /\ AnswerInv'
    BY WrittenStep DEF Write
  <1>2. UNCHANGED <<round, warmups, measured, next, any_failure, completed_rounds, pairing,
                    connection, now, durable, verdict>>
    BY DEF Write
  <1>3. artifact_ok /\ main \in Writing /\ main \in InRound /\ main' \in InRound
        /\ ~(main = "write_aws" /\ s = "standard")
    BY <1>1 DEF Write, Room, Writing, InRound
  <1>4. /\ round > 0 /\ row \in RowType /\ body \in Nat /\ RowBytes \in Nat
    BY <1>3, RowsAreRows, PairedAssumption DEF CountsInv, TypeOK, AnswerType
  <1>5. PICK b \in 0 .. body, r \in 0 .. RowBytes :
          LET whole == b = body /\ r = RowBytes IN
          /\ size' = [bodies |-> size["bodies"] + b, receipts |-> size["receipts"] + r]
          /\ rows' = IF r = RowBytes THEN Append(rows, row) ELSE rows
          /\ artifact_ok' = (artifact_ok /\ whole)
          /\ body_offset' = IF whole THEN body_offset + body ELSE body_offset
          /\ artifact_bytes' = IF whole THEN artifact_bytes + Added(s) ELSE artifact_bytes
          /\ recorded' = IF whole THEN recorded + 1 ELSE recorded
    BY DEF Write
  <1> DEFINE whole == b = body /\ r = RowBytes
  <1>6. /\ row.round = round /\ row.side = s /\ row.warmup = ~Measuring
        /\ row.offset = body_offset /\ row.at = size["bodies"] /\ row.length = body
        /\ row.cold = answer[s].result.cold /\ row.reused = answer[s].result.reused
        /\ row.valid = Valid(answer[s])
    BY DEF RequestRow
  <1> HIDE DEF row
  <1>7. /\ rows \in Seq(RowType) /\ rows' \in Seq(RowType)
        /\ rows' # rows => rows' = Append(rows, row)
        /\ whole => rows' = Append(rows, row)
    BY <1>4, <1>5 DEF TypeOK
  <1>8. artifact_ok' \in BOOLEAN /\ (artifact_ok' => whole)
    BY <1>5, Zenon
  <1>9. TypeOK'
    <2>1. /\ b \in Nat /\ r \in Nat /\ size["bodies"] \in Nat /\ size["receipts"] \in Nat
          /\ body_offset \in Nat /\ artifact_bytes \in Nat /\ recorded \in Nat
          /\ requests \in Nat
      BY <1>4 DEF TypeOK, Stream
    <2>2. size' \in [Stream -> Nat]
      <3>1. size' = [bodies |-> size["bodies"] + b, receipts |-> size["receipts"] + r]
        BY <1>5
      <3>2. size["bodies"] + b \in Nat /\ size["receipts"] + r \in Nat
        BY <2>1
      <3> QED
        BY <3>1, <3>2 DEF Stream
    <2>4. body_offset' \in Nat /\ artifact_bytes' \in Nat /\ recorded' \in Nat
      <3>1. body_offset' \in {body_offset, body_offset + body}
        BY <1>5
      <3>2. artifact_bytes' \in {artifact_bytes, artifact_bytes + Added(s)}
        BY <1>5
      <3>3. recorded' \in {recorded, recorded + 1}
        BY <1>5
      <3>4. Added(s) \in Nat
        BY <1>4 DEF Added
      <3> HIDE DEF body
      <3> QED
        BY <1>4, <2>1, <3>1, <3>2, <3>3, <3>4
    <2>3. main' \in InRound /\ stop' \in BOOLEAN /\ requests' \in Nat
      BY <1>1, <1>3, <2>1
    <2> QED
      BY <1>2, <1>7, <1>8, <2>2, <2>3, <2>4 DEF TypeOK, pairing, verdict
  <1>10. FilesInv'
    <2>1. /\ body_offset = size["bodies"] /\ size["receipts"] = Len(rows) * RowBytes
          /\ recorded = Len(rows) /\ (~any_failure => requests = Len(rows))
          /\ \A i \in DOMAIN rows : rows[i].offset = rows[i].at
      BY <1>3 DEF FilesInv
    <2>2. ASSUME whole
          PROVE  /\ body_offset' = size'["bodies"] /\ size'["receipts"] = Len(rows') * RowBytes
                 /\ recorded' = Len(rows') /\ (~any_failure' => requests' = Len(rows'))
      <3>1. Len(rows) \in Nat /\ Len(rows') = Len(rows) + 1
        BY <1>7, <2>2
      <3>2. (Len(rows) + 1) * RowBytes = Len(rows) * RowBytes + RowBytes
        BY <1>4, <3>1
      <3> QED
        BY <1>1, <1>2, <1>5, <2>1, <2>2, <3>1, <3>2
    <2>3. \A i \in DOMAIN rows' : rows'[i].offset = rows'[i].at
      <3>1. CASE rows' = rows
        BY <2>1, <3>1
      <3>2. CASE rows' = Append(rows, row)
        <4>1. /\ Len(rows) \in Nat /\ DOMAIN rows = 1 .. Len(rows)
              /\ DOMAIN rows' = 1 .. (Len(rows) + 1)
              /\ \A i \in 1 .. Len(rows) : rows'[i] = rows[i]
              /\ rows'[Len(rows) + 1] = row
          BY <1>4, <1>7, <3>2
        <4>2. row.offset = row.at
          BY <1>6, <2>1
        <4> QED
          BY <2>1, <4>1, <4>2
      <3> QED
        BY <1>7, <3>1, <3>2
    <2>4. main' \notin {"admission", "manifest", "exited"}
      BY <1>1
    <2> QED
      BY <1>8, <2>2, <2>3, <2>4 DEF FilesInv
  <1>11. CountsInv'
    <2>1. Measuring' <=> Measuring
      BY <1>2 DEF Measuring
    <2>2. \A q \in Nat : q < round => (WholeRound(q)' <=> WholeRound(q))
      <3>1. CASE rows' = rows
        BY <3>1, SameRows, <1>2 DEF WholeRound
      <3>2. CASE rows' = Append(rows, row)
        <4>1. \A q, w, t : Pairs(q, w, t)' = Pairs(q, w, t) +
                (IF row.round = q /\ row.warmup = w /\ row.side = t THEN 1 ELSE 0)
          BY <1>4, <1>7, <3>2, OneMoreRow
        <4>2. \A q \in Nat : q < round => \A w, t : Pairs(q, w, t)' = Pairs(q, w, t)
          BY <1>6, <1>7, <4>1, PairsAreNumbers DEF TypeOK
        <4> QED
          BY <4>2, <1>2 DEF WholeRound
      <3> QED
        BY <1>7, <3>1, <3>2
    <2>3. artifact_ok' =>
            \A t \in Side :
              /\ Pairs(round, TRUE, t)'  = warmups + (IF Measuring THEN 0 ELSE Done(t)')
              /\ Pairs(round, FALSE, t)' = measured + (IF Measuring THEN Done(t)' ELSE 0)
      <3> SUFFICES ASSUME artifact_ok', NEW t \in Side
                   PROVE  /\ Pairs(round, TRUE, t)'
                               = warmups + (IF Measuring THEN 0 ELSE Done(t)')
                          /\ Pairs(round, FALSE, t)'
                               = measured + (IF Measuring THEN Done(t)' ELSE 0)
        OBVIOUS
      <3>1. /\ Pairs(round, TRUE, t)' = Pairs(round, TRUE, t) +
                 (IF ~Measuring /\ s = t THEN 1 ELSE 0)
            /\ Pairs(round, FALSE, t)' = Pairs(round, FALSE, t) +
                 (IF Measuring /\ s = t THEN 1 ELSE 0)
        <4>1. rows' = Append(rows, row)
          BY <1>7, <1>8
        <4>2. \A q, w, u : Pairs(q, w, u)' = Pairs(q, w, u) +
                (IF row.round = q /\ row.warmup = w /\ row.side = u THEN 1 ELSE 0)
          BY <1>4, <1>7, <4>1, OneMoreRow
        <4>3. (row.warmup = TRUE <=> ~Measuring) /\ (row.warmup = FALSE <=> Measuring)
          BY <1>6
        <4>4. row.round = round /\ row.side = s /\ round' = round
          BY <1>2, <1>6
        <4>5. /\ Pairs(round, TRUE, t)' = Pairs(round, TRUE, t) +
                 (IF row.round = round /\ row.warmup = TRUE /\ row.side = t THEN 1 ELSE 0)
              /\ Pairs(round, FALSE, t)' = Pairs(round, FALSE, t) +
                 (IF row.round = round /\ row.warmup = FALSE /\ row.side = t THEN 1 ELSE 0)
          BY <4>2, <4>4
        <4> QED
          BY <4>3, <4>4, <4>5
      <3>2. /\ Pairs(round, TRUE, t)  = warmups + (IF Measuring THEN 0 ELSE Done(t))
            /\ Pairs(round, FALSE, t) = measured + (IF Measuring THEN Done(t) ELSE 0)
        BY <1>3 DEF CountsInv
      <3>3. Done(t)' = Done(t) + (IF s = t THEN 1 ELSE 0) /\ Done(t) \in Nat
        BY <1>1 DEF Done, Side
      <3>4. warmups \in Nat /\ measured \in Nat
        BY PairedAssumption DEF TypeOK
      <3> DEFINE W == Pairs(round, TRUE, t)
                 M == Pairs(round, FALSE, t)
      <3>5. /\ W' = W + (IF ~Measuring /\ s = t THEN 1 ELSE 0)
            /\ M' = M + (IF Measuring /\ s = t THEN 1 ELSE 0)
            /\ W = warmups + (IF Measuring THEN 0 ELSE Done(t))
            /\ M = measured + (IF Measuring THEN Done(t) ELSE 0)
        BY <3>1, <3>2
      <3> SUFFICES /\ W' = warmups + (IF Measuring THEN 0 ELSE Done(t)')
                   /\ M' = measured + (IF Measuring THEN Done(t)' ELSE 0)
        OBVIOUS
      <3> HIDE DEF W, M
      <3> QED
        BY <3>3, <3>4, <3>5
    <2>4. \A i \in DOMAIN rows' : rows'[i].round <= round'
      <3>1. \A i \in DOMAIN rows : rows[i].round <= round
        BY DEF CountsInv
      <3>2. row.round = round /\ round' = round /\ round \in Nat
        BY <1>2, <1>6 DEF TypeOK
      <3>3. CASE rows' = rows
        BY <3>1, <3>2, <3>3
      <3>4. CASE rows' = Append(rows, row)
        BY <1>4, <1>7, <3>1, <3>2, <3>4
      <3> QED
        BY <1>7, <3>3, <3>4
    <2>5. /\ completed_rounds < round /\ completed_rounds <= round
          /\ ~Measuring => measured = 0
          /\ ~any_failure => \A q \in 1 .. round : q < round => WholeRound(q)
      BY <1>3 DEF CountsInv
    <2>6. round \in Nat /\ \A q \in 1 .. round : q \in Nat
      BY DEF TypeOK
    <2>7. ~any_failure' => \A q \in 1 .. round : q < round => WholeRound(q)'
      BY <1>2, <2>2, <2>5, <2>6
    <2> QED
      BY <1>2, <1>3, <1>4, <2>1, <2>3, <2>4, <2>5, <2>7 DEF CountsInv
  <1>12. VerdictInv'
    <2>1. ~stop' => ~stop /\ row.valid
      BY <1>1, <1>6
    <2>2. manifest' = "none" /\ exit' = "none"
      BY <1>1, <1>2 DEF VerdictInv, verdict
    <2>3. main' \in {"write_aws", "judge", "failed"}
      BY <1>1
    <2>4. any_failure' = any_failure
      BY <1>2
    <2>5. ~any_failure' /\ ~stop' => \A i \in DOMAIN rows' : rows'[i].valid
      BY <1>7, <2>1, <2>4 DEF VerdictInv
    <2> QED
      BY <2>2, <2>3, <2>5 DEF VerdictInv
  <1>13. NewConnectionOnlyAtRoundStart'
    <2> DEFINE Earlier(i) == {j \in 1 .. i - 1 : rows[j].round = rows[i].round
                                               /\ rows[j].side = rows[i].side}
               Mine == {j \in 1 .. Len(rows) : rows[j].round = round /\ rows[j].side = s}
    <2>1. CASE rows' = rows
      BY <2>1 DEF NewConnectionOnlyAtRoundStart
    <2>2. CASE rows' = Append(rows, row)
      <3>0. PICK n : n = Len(rows) + 1
        OBVIOUS
      <3>1. /\ DOMAIN rows = 1 .. Len(rows) /\ Len(rows) \in Nat
            /\ DOMAIN rows' = 1 .. n
            /\ \A i \in 1 .. Len(rows) : rows'[i] = rows[i]
            /\ rows'[n] = row
        BY <1>4, <1>7, <2>2, <3>0
      <3>2. ASSUME NEW i \in 1 .. Len(rows)
            PROVE  Earlier(i)' = Earlier(i)
        BY <3>1
      <3>3. Earlier(n)' = Mine
        <4>1. \A j \in 1 .. n - 1 : rows'[j] = rows[j]
          BY <3>0, <3>1
        <4> QED
          BY <1>6, <3>0, <3>1, <4>1
      <3>4. Mine = {} <=> warmups = 0
        <4>1. Done(s) = 0
          BY <1>1 DEF Done, Side
        <4>2. Pairs(round, TRUE, s) = warmups /\ Pairs(round, FALSE, s) = measured
          <5>1. /\ Pairs(round, TRUE, s)  = warmups + (IF Measuring THEN 0 ELSE Done(s))
                /\ Pairs(round, FALSE, s) = measured + (IF Measuring THEN Done(s) ELSE 0)
            BY <1>3 DEF CountsInv
          <5>2. warmups \in Nat /\ measured \in Nat
            BY PairedAssumption DEF TypeOK
          <5>3. (IF Measuring THEN 0 ELSE Done(s)) = 0 /\ (IF Measuring THEN Done(s) ELSE 0) = 0
            BY <4>1
          <5>4. warmups + 0 = warmups /\ measured + 0 = measured
            BY <5>2
          <5> QED
            BY <5>1, <5>3, <5>4, Zenon
        <4>3. Measuring \/ measured = 0
          BY <1>3 DEF CountsInv
        <4>4. Mine = {} <=> warmups = 0 /\ measured = 0
          <5>1. \A w : Pairs(round, w, s) = 0 <=>
                  \A j \in 1 .. Len(rows) :
                    ~(rows[j].round = round /\ rows[j].warmup = w /\ rows[j].side = s)
            BY <1>7, <3>1, PairsAreNumbers
          <5>2. \A j \in 1 .. Len(rows) : rows[j].warmup = TRUE \/ rows[j].warmup = FALSE
            BY <1>7, <3>1 DEF RowType
          <5> QED
            BY <4>2, <5>1, <5>2
        <4> QED
          BY <4>3, <4>4, PairedAssumption DEF Measuring
      <3>5. /\ row.cold => warmups = 0
            /\ row.reused => warmups # 0
            /\ warmups = 0 /\ row.valid => row.cold
        <4>1. Told(s)
          BY <1>3 DEF AnswerInv
        <4>2. warmups > 0 => warmups # 0
          BY DEF TypeOK
        <4> QED
          BY <1>6, <4>1, <4>2 DEF Told, Valid
      <3>6. ASSUME NEW i \in DOMAIN rows'
            PROVE  /\ rows'[i].cold => Earlier(i)' = {}
                   /\ rows'[i].reused => Earlier(i)' # {}
                   /\ Earlier(i)' = {} /\ rows'[i].valid => rows'[i].cold
        <4>1. CASE i = n
          BY <3>1, <3>3, <3>4, <3>5, <4>1
        <4>2. CASE i \in 1 .. Len(rows)
          <5>1. /\ rows[i].cold => Earlier(i) = {}
                /\ rows[i].reused => Earlier(i) # {}
                /\ Earlier(i) = {} /\ rows[i].valid => rows[i].cold
            BY <3>1, <4>2 DEF NewConnectionOnlyAtRoundStart
          <5> HIDE DEF Earlier
          <5> QED
            BY <3>1, <3>2, <4>2, <5>1
        <4> QED
          BY <3>0, <3>1, <4>1, <4>2
      <3> QED
        BY <3>6 DEF NewConnectionOnlyAtRoundStart
    <2> QED
      BY <1>7, <2>1, <2>2
  <1> QED
    BY <1>1, <1>9, <1>10, <1>11, <1>12, <1>13

-----------------------------------------------------------------------------
(* The next slot *)

\* Among the intervals from 1 that end at a number of T there is a smallest one.
LEMMA LeastNat ==
  ASSUME NEW T \in SUBSET Nat, T # {}
  PROVE  \E n \in T : \A m \in T : n <= m
  <1> DEFINE Intervals == {1 .. n : n \in T}
  <1>1. Intervals \in SUBSET FiniteSubsetsOf(Nat) /\ Intervals # {}
    <2>1. \A n \in Nat : 1 .. n \in SUBSET Nat /\ IsFiniteSet(1 .. n)
      BY FS_Interval
    <2> QED
      BY <2>1 DEF FiniteSubsetsOf
  <1>2. IsWellFoundedOn(StrictSubsetOrdering(Nat), FiniteSubsetsOf(Nat))
    BY FS_StrictSubsetOrderingWellFounded
  <1>3. \E I \in Intervals : \A J \in Intervals : ~ (<<J, I>> \in StrictSubsetOrdering(Nat))
    <2> HIDE DEF Intervals
    <2> QED
      BY <1>1, <1>2, WFMin
  <1>4. PICK n \in T : \A m \in T : ~ (<<1 .. m, 1 .. n>> \in StrictSubsetOrdering(Nat))
    BY <1>3
  <1>5. ASSUME NEW m \in T, m < n
        PROVE  FALSE
    <2>0. m \in Nat /\ n \in Nat
      OBVIOUS
    <2>1. 1 .. m \subseteq 1 .. n /\ n \in 1 .. n /\ n \notin 1 .. m /\ 1 .. n \subseteq Nat
      BY <1>5, <2>0
    <2>2. IsFiniteSet(1 .. n) /\ IsFiniteSet(1 .. m)
      BY <2>0, FS_Interval
    <2> QED
      BY <1>4, <2>1, <2>2 DEF StrictSubsetOrdering, FiniteSubsetsOf
  <1> QED
    BY <1>5

\* However late a measured pair ends there is a slot to go on with, a number of
\* whole cadences after its own.
LEMMA SlotsAreThere ==
  ASSUME NEW n \in Nat, NEW t \in Nat
  PROVE  /\ SlotAfter(n, t) \in Nat
         /\ SlotAfter(n, t) > n /\ SlotAfter(n, t) >= t
         /\ (SlotAfter(n, t) - n) % Cadence = 0
  <1> DEFINE T == {k \in Nat \ {0} : n + k * Cadence >= t}
             IsNext(m) == /\ (m - n) % Cadence = 0
                          /\ m >= t
                          /\ m - Cadence < t \/ m = n + Cadence
  <1>0. Cadence \in Nat \ {0}
    BY PairedAssumption
  <1>1. T \in SUBSET Nat /\ T # {}
    <2>1. (t + 1) * Cadence >= t
      BY <1>0
    <2>2. n + (t + 1) * Cadence >= t /\ t + 1 \in Nat \ {0}
      BY <1>0, <2>1
    <2> QED
      BY <2>2
  <1>2. PICK k \in T : \A l \in T : k <= l
    BY <1>1, LeastNat
  <1> DEFINE m == n + k * Cadence
  <1>3. k \in Nat \ {0} /\ k * Cadence \in Nat /\ m >= t
    BY <1>0, <1>2
  <1>4. m - Cadence < t \/ m = n + Cadence
    <2>1. CASE k = 1
      BY <1>0, <2>1
    <2>2. CASE k # 1
      <3>1. k - 1 \in Nat \ {0} /\ k - 1 \notin T
        BY <1>2, <1>3, <2>2
      <3>2. (k - 1) * Cadence = k * Cadence - Cadence
        BY <1>0, <1>3
      <3>3. (k - 1) * Cadence \in Nat
        BY <1>0, <3>1
      <3>4. ~(n + (k - 1) * Cadence >= t)
        BY <3>1
      <3> QED
        BY <1>0, <1>3, <3>2, <3>3, <3>4
    <2> QED
      BY <2>1, <2>2
  <1>5. (m - n) % Cadence = 0
    <2>1. m - n = k * Cadence
      BY <1>3
    <2>2. (k * Cadence) % Cadence = 0
      BY <1>0, <1>3
    <2> QED
      BY <2>1, <2>2
  <1>6. m \in n + Cadence .. n + t + Cadence
    <2>1. k * Cadence >= Cadence
      BY <1>0, <1>3
    <2> QED
      BY <1>0, <1>3, <1>4, <2>1
  <1>7. \E i \in n + Cadence .. n + t + Cadence : IsNext(i)
    BY <1>3, <1>4, <1>5, <1>6
  <1>8. SlotAfter(n, t) = CHOOSE i \in n + Cadence .. n + t + Cadence : IsNext(i)
    BY DEF SlotAfter
  <1>9. SlotAfter(n, t) \in n + Cadence .. n + t + Cadence /\ IsNext(SlotAfter(n, t))
    <2> HIDE DEF IsNext
    <2> QED
      BY <1>7, <1>8
  <1> QED
    BY <1>0, <1>9

-----------------------------------------------------------------------------
(* The steps between pairs *)

\* A step that writes nothing and counts nothing, before the manifest.
LEMMA NothingWritten ==
  ASSUME IInv, UNCHANGED <<files, tallies, verdict>>, any_failure' \in BOOLEAN,
         any_failure => any_failure', main # "exited",
         main' \notin {"admission", "manifest", "exited"},
         stop' = stop, stop' /\ main' # "failed" => any_failure'
  PROVE  FilesInv' /\ VerdictInv' /\ NewConnectionOnlyAtRoundStart'
  <1> USE DEF IInv, files, tallies, verdict
  <1>1. FilesInv'
    BY DEF FilesInv
  <1>2. VerdictInv'
    BY DEF VerdictInv
  <1>3. NewConnectionOnlyAtRoundStart'
    BY DEF NewConnectionOnlyAtRoundStart
  <1> QED
    BY <1>1, <1>2, <1>3

LEMMA NobodyAtWork ==
  ASSUME IInv, main \notin AtPair, main' \notin AtPair, main \in Writing \/ main' \notin Writing,
         UNCHANGED <<worker, left>>
  PROVE  LatchInv' /\ (main' \in Writing => left' = 0)
  <1>1. main' \notin {"start_first", "start_second", "ready_wait", "join", "abandon"}
    BY DEF AtPair
  <1> QED
    BY <1>1 DEF IInv, LatchInv

\* What was counted for the round under way stands, and what a round before it
\* had it keeps.
LEMMA RoundsStand ==
  ASSUME rows' = rows
  PROVE  \A r : WholeRound(r)' <=> WholeRound(r)
  <1>1. \A r, w, s : Pairs(r, w, s)' = Pairs(r, w, s)
    BY SameRows
  <1> QED
    BY <1>1 DEF WholeRound

LEMMA JudgeStep ==
  ASSUME IInv, PairFails \/ WarmupDone \/ MeasuredDone
  PROVE  IInv'
  <1> USE DEF IInv
  <1>1. /\ main = "judge" /\ main' \in {"failed", "slot"}
        /\ answer' = [s \in Side |-> NoAnswer]
        /\ UNCHANGED <<round, stop, any_failure, completed_rounds, unshared, connection,
                       tallies, files, verdict>>
        /\ main' = "slot" => PairValid
    BY DEF PairFails, WarmupDone, MeasuredDone, Forget, progress
  <1>2. /\ now' \in 0 .. Horizon /\ next' \in Nat /\ measured' \in Nat
        /\ warmups' \in 0 .. Warmups /\ left = 0 /\ left' = 0
    <2>1. left = 0 /\ left' = 0
      BY <1>1 DEF LatchInv, Writing, unshared
    <2>2. CASE PairFails
      BY <2>1, <2>2 DEF PairFails, TypeOK, progress
    <2>3. CASE WarmupDone
      BY <2>1, <2>3, PairedAssumption DEF WarmupDone, TypeOK, Measuring, Horizon, End
    <2>4. CASE MeasuredDone
      <3>1. next' \in Nat
        BY <2>4, SlotsAreThere DEF MeasuredDone, TypeOK
      <3> QED
        BY <2>1, <2>4, <3>1 DEF MeasuredDone, TypeOK
    <2> QED
      BY <2>2, <2>3, <2>4
  <1>3. TypeOK'
    BY <1>1, <1>2, NoAnswers DEF TypeOK, InRound, unshared, tallies, files, verdict
  <1>4. LatchInv'
    BY <1>1, NobodyAtWork DEF AtPair, Writing, unshared
  <1>5. TimeInv'
    BY <1>2 DEF TimeInv
  <1>6. FilesInv' /\ VerdictInv' /\ NewConnectionOnlyAtRoundStart'
    <2>1. main' = "slot" => ~stop
      BY <1>1 DEF PairValid
    <2> QED
      BY <1>1, <2>1, NothingWritten DEF TypeOK
  <1>7. AnswerInv'
    <2>1. CASE main' = "failed"
      BY <2>1 DEF AnswerInv, AtPair, Writing
    <2>2. CASE main' = "slot"
      <3>1. ~stop /\ artifact_ok /\ warmups' > 0
        <4>1. ~stop /\ artifact_ok
          BY <1>1, <2>2 DEF PairValid
        <4>2. CASE WarmupDone
          BY <4>1, <4>2, PairedAssumption DEF WarmupDone, TypeOK
        <4>3. CASE MeasuredDone
          BY <4>1, <4>3, PairedAssumption DEF MeasuredDone, Measuring, TypeOK
        <4>4. CASE PairFails
          BY <2>2, <4>4 DEF PairFails
        <4> QED
          BY <4>1, <4>2, <4>3, <4>4
      <3>2. connection["standard"] = Established /\ connection["aws"] = Established
        BY <1>1, <3>1 DEF AnswerInv, Told, Valid, Writing, Side
      <3>3. \A s \in Side : connection[s] = Established
        BY <3>2 DEF Side
      <3>4. Found' = Established
        BY <3>1 DEF Found
      <3> QED
        BY <1>1, <2>2, <3>1, <3>3, <3>4 DEF AnswerInv, AtPair, Writing, files
    <2> QED
      BY <1>1, <2>1, <2>2
  <1>8. CountsInv'
    <2>1. /\ \A r : WholeRound(r)' <=> WholeRound(r)
          /\ \A r, w, s : Pairs(r, w, s)' = Pairs(r, w, s)
      BY <1>1, RoundsStand, SameRows DEF files
    <2>2. /\ \A i \in DOMAIN rows : rows[i].round <= round
          /\ round > 0 /\ completed_rounds < round /\ completed_rounds <= round
          /\ ~Measuring => measured = 0
          /\ ~any_failure => \A r \in 1 .. round : r < round => WholeRound(r)
      BY <1>1 DEF CountsInv, InRound, Writing
    <2>3. main' = "slot" /\ ~Measuring' => measured' = 0
      <3>1. CASE WarmupDone
        BY <2>2, <3>1 DEF WarmupDone
      <3>2. CASE MeasuredDone
        BY <3>2 DEF MeasuredDone, Measuring
      <3>3. CASE PairFails
        BY <3>3 DEF PairFails
      <3> QED
        BY <3>1, <3>2, <3>3
    <2>4. ASSUME main' = "slot", NEW s \in Side
          PROVE  Pairs(round, TRUE, s) = warmups' /\ Pairs(round, FALSE, s) = measured'
      <3>1. /\ Pairs(round, TRUE, s)  = warmups + (IF Measuring THEN 0 ELSE Done(s))
            /\ Pairs(round, FALSE, s) = measured + (IF Measuring THEN Done(s) ELSE 0)
        BY <1>1, <2>4 DEF CountsInv, PairValid, InRound, Writing
      <3>2. Done(s) = 1 /\ warmups \in Nat /\ measured \in Nat
        BY <1>1, PairedAssumption DEF Done, TypeOK
      <3>3. CASE WarmupDone
        <4>1. /\ (IF Measuring THEN 0 ELSE Done(s)) = 1 /\ (IF Measuring THEN Done(s) ELSE 0) = 0
              /\ warmups' = warmups + 1 /\ measured' = measured + 0
          BY <3>2, <3>3 DEF WarmupDone
        <4> QED
          BY <3>1, <4>1, Zenon
      <3>4. CASE MeasuredDone
        <4>1. /\ (IF Measuring THEN 0 ELSE Done(s)) = 0 /\ (IF Measuring THEN Done(s) ELSE 0) = 1
              /\ warmups' = warmups + 0 /\ measured' = measured + 1
          BY <3>2, <3>4 DEF MeasuredDone
        <4> QED
          BY <3>1, <4>1, Zenon
      <3>5. CASE PairFails
        BY <2>4, <3>5 DEF PairFails
      <3> QED
        BY <3>3, <3>4, <3>5
    <2>5. \A s \in Side : main' = "slot" => Done(s)' = 0
      BY DEF Done
    <2>6. ASSUME main' = "slot", NEW s \in Side
          PROVE  /\ Pairs(round, TRUE, s)'  = warmups' + (IF Measuring' THEN 0 ELSE Done(s)')
                 /\ Pairs(round, FALSE, s)' = measured' + (IF Measuring' THEN Done(s)' ELSE 0)
      <3>1. /\ (IF Measuring' THEN 0 ELSE Done(s)') = 0 /\ (IF Measuring' THEN Done(s)' ELSE 0) = 0
            /\ warmups' = warmups' + 0 /\ measured' = measured' + 0
        <4>1. Done(s)' = 0
          BY <2>5, <2>6
        <4>2. warmups' \in Nat /\ measured' \in Nat
          BY <1>2, PairedAssumption
        <4>3. (IF Measuring' THEN 0 ELSE Done(s)') = 0 /\ (IF Measuring' THEN Done(s)' ELSE 0) = 0
          BY <4>1, Zenon
        <4>4. \A x \in Nat : x = x + 0
          OBVIOUS
        <4> QED
          BY <4>2, <4>3, <4>4, Zenon
      <3>2. Pairs(round, TRUE, s)' = warmups' /\ Pairs(round, FALSE, s)' = measured'
        BY <1>1, <2>1, <2>4, <2>6
      <3> QED
        BY <3>1, <3>2, Zenon
    <2>7. main' \in InRound => main' = "slot"
      BY <1>1 DEF InRound, AtPair, Writing
    <2>8. main' \in InRound \cup {"failed"}
      BY <1>1 DEF InRound
    <2> QED
      BY <1>1, <2>1, <2>2, <2>3, <2>6, <2>7, <2>8 DEF CountsInv, files
  <1> QED
    BY <1>3, <1>4, <1>5, <1>6, <1>7, <1>8

LEMMA StartRoundStep ==
  ASSUME IInv, StartRound
  PROVE  IInv'
  <1> USE DEF IInv
  <1>1. /\ main = "round" /\ main' = "slot" /\ round < Rounds /\ round' = round + 1 /\ artifact_ok
        /\ warmups' = 0 /\ measured' = 0 /\ next' = 0 /\ now' = 0
        /\ connection' = [s \in Side |-> Http!Fresh]
        /\ UNCHANGED <<any_failure, completed_rounds, pairing, tallies, files, verdict>>
    BY DEF StartRound, NewConnections
  <1>2. stop' = FALSE
    BY Zenon DEF StartRound
  <1>3. round \in Nat /\ Warmups \in Nat \ {0} /\ Rounds \in Nat /\ Horizon \in Nat
    BY PairedAssumption DEF TypeOK, Horizon, End
  <1>4. TypeOK'
    <2>1. connection' \in [Side -> Http!Sessions]
      BY <1>1 DEF Http!Fresh, Http!Sessions
    <2>2. stop' \in BOOLEAN
      BY <1>2
    <2>3. main' \in InRound /\ round' \in 0 .. Rounds /\ warmups' \in 0 .. Warmups
          /\ now' \in 0 .. Horizon /\ measured' \in Nat /\ next' \in Nat
      BY <1>1, <1>3 DEF InRound
    <2> QED
      BY <1>1, <2>1, <2>2, <2>3 DEF TypeOK, pairing, tallies, files, verdict
  <1>5. LatchInv'
    BY <1>1, NobodyAtWork DEF AtPair, Writing, pairing
  <1>6. ~Measuring' /\ TimeInv'
    BY <1>1, <1>3 DEF TimeInv, Measuring
  <1>7. AnswerInv'
    <2>1. Found' = Http!Fresh
      BY <1>1 DEF Found
    <2>2. \A s \in Side : connection'[s] = Http!Fresh
      BY <1>1
    <2>3. ~stop'
      BY <1>2
    <2> QED
      BY <1>1, <2>1, <2>2, <2>3 DEF AnswerInv, AtPair, Writing, files
  <1>8. stop => any_failure
    BY <1>1 DEF VerdictInv
  <1>9. FilesInv'
    BY <1>1 DEF FilesInv, tallies, files
  <1>10. VerdictInv'
    BY <1>1, <1>2, <1>8 DEF VerdictInv, files, verdict
  <1>11. NewConnectionOnlyAtRoundStart'
    BY <1>1 DEF NewConnectionOnlyAtRoundStart, files
  <1>12. CountsInv'
    <2>1. /\ \A r : WholeRound(r)' <=> WholeRound(r)
          /\ \A r, w, s : Pairs(r, w, s)' = Pairs(r, w, s)
      BY <1>1, RoundsStand, SameRows DEF files
    <2>2. /\ \A i \in DOMAIN rows : rows[i].round <= round
          /\ completed_rounds <= round
          /\ ~any_failure => \A r \in 1 .. round : WholeRound(r)
      BY <1>1 DEF CountsInv, InRound, AtPair, Writing
    <2>0. PICK q : q = round + 1
      OBVIOUS
    <2>9. q \in Nat /\ q > 0 /\ round' = q /\ \A r \in Nat : r <= round => r < q /\ r # q /\ r <= q
      BY <1>1, <1>3, <2>0
    <2>3. \A i \in DOMAIN rows : rows[i].round < q /\ rows[i].round # q /\ rows[i].round <= q
      <3>1. rows \in Seq(RowType)
        BY DEF TypeOK
      <3>2. \A i \in DOMAIN rows : rows[i].round \in Nat
        <4>1. \A i \in DOMAIN rows : rows[i] \in RowType
          BY <3>1
        <4>2. \A x \in RowType : x.round \in Nat
          BY <1>3 DEF RowType
        <4> QED
          BY <4>1, <4>2
      <3> QED
        BY <2>2, <2>9, <3>2
    <2>4. ASSUME NEW w, NEW s
          PROVE  Pairs(q, w, s) = 0
      BY <2>3, PairsAreNumbers DEF TypeOK
    <2>5. ASSUME NEW s \in Side
          PROVE  /\ Pairs(round, TRUE, s)'  = warmups' + (IF Measuring' THEN 0 ELSE Done(s)')
                 /\ Pairs(round, FALSE, s)' = measured' + (IF Measuring' THEN Done(s)' ELSE 0)
      <3>1. Done(s)' = 0
        BY <1>1 DEF Done
      <3>2. /\ warmups' + (IF Measuring' THEN 0 ELSE Done(s)') = 0
            /\ measured' + (IF Measuring' THEN Done(s)' ELSE 0) = 0
        BY <1>1, <1>6, <3>1
      <3>3. Pairs(q, TRUE, s)' = 0 /\ Pairs(q, FALSE, s)' = 0
        BY <2>1, <2>4
      <3> QED
        BY <2>9, <3>2, <3>3, Zenon
    <2>6. round' = q /\ q > 0 /\ completed_rounds' < q /\ completed_rounds' <= q
          /\ \A r \in 1 .. q : r < q => r \in 1 .. round
      BY <1>1, <1>3, <2>0, <2>2 DEF TypeOK
    <2>7. \A i \in DOMAIN rows' : rows'[i].round <= round'
      BY <1>1, <2>3, <2>6 DEF files
    <2>8. ~any_failure' => \A r \in 1 .. q : r < q => WholeRound(r)'
      BY <1>1, <2>1, <2>2, <2>6
    <2> QED
      <3>1. /\ round' > 0 /\ completed_rounds' < round' /\ completed_rounds' <= round'
            /\ measured' = 0
        BY <1>1, <2>6, <2>9
      <3>2. ~any_failure' => \A r \in 1 .. round' : r < round' => WholeRound(r)'
        BY <2>6, <2>8
      <3>3. main' \in InRound
        BY <1>1 DEF InRound
      <3> QED
        BY <2>5, <2>7, <3>1, <3>2, <3>3 DEF CountsInv
  <1> QED
    BY <1>4, <1>5, <1>6, <1>7, <1>9, <1>10, <1>11, <1>12

LEMMA EndRoundStep ==
  ASSUME IInv, EndRound
  PROVE  IInv'
  <1> USE DEF IInv
  <1>1. /\ (main = "slot" /\ RoundOver) \/ main = "failed"
        /\ main' = "round"
        /\ completed_rounds' = IF stop \/ ~artifact_ok THEN completed_rounds ELSE completed_rounds + 1
        /\ UNCHANGED <<round, warmups, measured, next, stop, pairing, connection, now, tallies,
                       files, verdict>>
    BY DEF EndRound
  <1>2. any_failure' \in BOOLEAN /\ (any_failure' <=> any_failure \/ main = "failed")
    BY Zenon DEF EndRound
  <1>3. main \in InRound \cup {"failed"} /\ main \notin AtPair /\ main \notin Writing
        /\ main' \notin InRound \cup {"failed"} /\ main' \notin AtPair /\ main' \notin Writing
    BY <1>1 DEF InRound, AtPair, Writing
  <1>4. /\ round > 0 /\ completed_rounds < round /\ completed_rounds' <= round
        /\ completed_rounds' \in Nat
    BY <1>1, <1>3 DEF CountsInv, TypeOK
  <1>5. TypeOK'
    BY <1>1, <1>2, <1>4 DEF TypeOK, pairing, tallies, files, verdict
  <1>6. LatchInv'
    BY <1>1, <1>3, NobodyAtWork DEF pairing
  <1>7. TimeInv'
    BY <1>1 DEF TimeInv, Measuring, pairing
  <1>8. AnswerInv'
    BY <1>1, <1>3 DEF AnswerInv, AtPair, Writing
  <1>9. main = "slot" => ~stop /\ artifact_ok
    BY DEF AnswerInv
  <1>10. FilesInv' /\ VerdictInv' /\ NewConnectionOnlyAtRoundStart'
    <2>1. stop' => any_failure'
      BY <1>1, <1>2, <1>9
    <2>2. (any_failure => any_failure') /\ main # "exited" /\ stop' = stop
          /\ main' \notin {"admission", "manifest", "exited"}
      BY <1>1, <1>2
    <2> QED
      BY <1>1, <1>2, <2>1, <2>2, NothingWritten
  <1>11. CountsInv'
    <2>1. \A r : WholeRound(r)' <=> WholeRound(r)
      BY <1>1, RoundsStand DEF files
    <2>2. /\ \A i \in DOMAIN rows : rows[i].round <= round
          /\ ~any_failure => \A r \in 1 .. round : r < round => WholeRound(r)
      BY <1>3 DEF CountsInv
    <2>3. ASSUME ~any_failure'
          PROVE  WholeRound(round)
      <3>1. main = "slot" /\ RoundOver /\ artifact_ok /\ Measuring
        BY <1>1, <1>2, <1>9, <2>3 DEF RoundOver
      <3>2. ASSUME NEW s \in Side
            PROVE  Pairs(round, TRUE, s) = Warmups /\ Pairs(round, FALSE, s) = measured
        <4>1. /\ Pairs(round, TRUE, s)  = warmups + (IF Measuring THEN 0 ELSE Done(s))
              /\ Pairs(round, FALSE, s) = measured + (IF Measuring THEN Done(s) ELSE 0)
          BY <3>1 DEF CountsInv, InRound
        <4>2. Done(s) = 0
          BY <3>1 DEF Done
        <4>3. (IF Measuring THEN 0 ELSE Done(s)) = 0 /\ (IF Measuring THEN Done(s) ELSE 0) = 0
          BY <4>2, Zenon
        <4>4. warmups = Warmups /\ warmups + 0 = warmups /\ measured + 0 = measured
          BY <3>1, PairedAssumption DEF Measuring, TypeOK
        <4> QED
          BY <4>1, <4>3, <4>4, Zenon
      <3>3. "standard" \in Side /\ "aws" \in Side
        BY DEF Side
      <3> QED
        BY <3>2, <3>3, Zenon DEF WholeRound
    <2>4. round \in Nat /\ round' = round
      BY <1>1 DEF TypeOK
    <2>5. ~any_failure' => \A r \in 1 .. round : WholeRound(r)'
      BY <1>2, <2>1, <2>2, <2>3, <2>4
    <2> QED
      BY <1>1, <1>3, <1>4, <2>2, <2>4, <2>5 DEF CountsInv, files
  <1> QED
    BY <1>5, <1>6, <1>7, <1>8, <1>10, <1>11

\* The steps of the main thread from one stage of the capture to the next.
LEMMA StageStep ==
  ASSUME IInv, Refuse \/ Admit \/ NoMoreRounds
  PROVE  IInv'
  <1> USE DEF IInv
  <1>1. /\ main \in {"admission", "round"}
        /\ main' \in {"round", "flush", "exited"}
        /\ UNCHANGED <<progress, pairing, connection, now, tallies, files, manifest>>
        /\ exit' = exit \/ (main' = "exited" /\ exit' = "2" /\ main = "admission")
        /\ main' = "exited" => main = "admission"
        /\ main' # "exited" => exit' = exit
    BY DEF Refuse, Admit, NoMoreRounds, verdict
  <1>2. main \notin InRound \cup {"failed"} /\ main \notin AtPair /\ main \notin Writing
        /\ main' \notin InRound \cup {"failed"} /\ main' \notin AtPair /\ main' \notin Writing
    BY <1>1 DEF InRound, AtPair, Writing
  <1>3. TypeOK'
    BY <1>1 DEF TypeOK, progress, pairing, tallies, files
  <1>4. LatchInv'
    BY <1>1, <1>2, NobodyAtWork DEF pairing
  <1>5. TimeInv'
    BY <1>1 DEF TimeInv, Measuring, progress, pairing
  <1>6. AnswerInv'
    BY <1>1, <1>2 DEF AnswerInv, AtPair, Writing
  <1>7. FilesInv'
    BY <1>1 DEF FilesInv, progress, tallies, files
  <1>8. VerdictInv'
    BY <1>1 DEF VerdictInv, progress, files
  <1>9. NewConnectionOnlyAtRoundStart'
    BY <1>1 DEF NewConnectionOnlyAtRoundStart, files
  <1>10. CountsInv'
    <2>1. \A r : WholeRound(r)' <=> WholeRound(r)
      BY <1>1, RoundsStand DEF files
    <2> QED
      BY <1>1, <1>2, <2>1 DEF CountsInv, progress, files
  <1> QED
    BY <1>3, <1>4, <1>5, <1>6, <1>7, <1>8, <1>9, <1>10

LEMMA FlushStep ==
  ASSUME IInv, Flush
  PROVE  IInv'
  <1> USE DEF IInv
  <1>1. /\ main = "flush" /\ main' = "manifest"
        /\ UNCHANGED <<progress, pairing, connection, now, tallies, body_offset, artifact_bytes,
                       size, rows, verdict>>
    BY DEF Flush
  <1>2. PICK failing \in SUBSET Stream :
          /\ durable' = [f \in Stream |-> IF f \in failing THEN durable[f] ELSE size[f]]
          /\ artifact_ok' = (artifact_ok /\ failing = {})
    BY DEF Flush
  <1>3. artifact_ok' \in BOOLEAN /\ (artifact_ok' => artifact_ok /\ failing = {})
    BY <1>2, Zenon
  <1>4. durable' \in [Stream -> Nat] /\ (failing = {} => durable' = size)
    BY <1>2 DEF TypeOK
  <1>5. main \notin InRound \cup {"failed"} /\ main \notin AtPair /\ main \notin Writing
        /\ main' \notin InRound \cup {"failed"} /\ main' \notin AtPair /\ main' \notin Writing
    BY <1>1 DEF InRound, AtPair, Writing
  <1>6. TypeOK'
    BY <1>1, <1>3, <1>4 DEF TypeOK, progress, pairing, tallies, verdict
  <1>7. LatchInv'
    BY <1>1, <1>5, NobodyAtWork DEF pairing
  <1>8. TimeInv'
    BY <1>1 DEF TimeInv, Measuring, progress, pairing
  <1>9. AnswerInv'
    BY <1>1, <1>5 DEF AnswerInv, AtPair, Writing
  <1>10. FilesInv'
    BY <1>1, <1>3, <1>4 DEF FilesInv, progress, tallies
  <1>11. VerdictInv'
    BY <1>1 DEF VerdictInv, progress, verdict
  <1>12. NewConnectionOnlyAtRoundStart'
    BY <1>1 DEF NewConnectionOnlyAtRoundStart
  <1>13. CountsInv'
    <2>1. \A r : WholeRound(r)' <=> WholeRound(r)
      BY <1>1, RoundsStand
    <2> QED
      BY <1>1, <1>5, <2>1 DEF CountsInv, progress
  <1> QED
    BY <1>6, <1>7, <1>8, <1>9, <1>10, <1>11, <1>12, <1>13

LEMMA WriteManifestStep ==
  ASSUME IInv, WriteManifest
  PROVE  IInv'
  <1> USE DEF IInv
  <1>1. /\ main = "manifest" /\ main' = "exited"
        /\ manifest' \in {"none", "partial", IF Complete THEN "complete" ELSE "incomplete"}
        /\ exit' = IF manifest' = "complete" THEN "0" ELSE "1"
        /\ UNCHANGED <<progress, pairing, connection, now, tallies, files>>
    BY DEF WriteManifest
  <1>2. main \notin InRound \cup {"failed"} /\ main \notin AtPair /\ main \notin Writing
        /\ main' \notin InRound \cup {"failed"} /\ main' \notin AtPair /\ main' \notin Writing
    BY <1>1 DEF InRound, AtPair, Writing
  <1>3. TypeOK'
    BY <1>1 DEF TypeOK, progress, pairing, tallies, files
  <1>4. LatchInv'
    BY <1>1, <1>2, NobodyAtWork DEF pairing
  <1>5. TimeInv'
    BY <1>1 DEF TimeInv, Measuring, progress, pairing
  <1>6. AnswerInv'
    BY <1>1, <1>2 DEF AnswerInv, AtPair, Writing
  <1>7. FilesInv'
    BY <1>1 DEF FilesInv, progress, tallies, files
  <1>8. VerdictInv'
    <2>1. manifest' = "complete" => Complete /\ Complete'
      BY <1>1 DEF Complete, progress, files
    <2> QED
      BY <1>1, <2>1 DEF VerdictInv, progress, files
  <1>9. NewConnectionOnlyAtRoundStart'
    BY <1>1 DEF NewConnectionOnlyAtRoundStart, files
  <1>10. CountsInv'
    <2>1. \A r : WholeRound(r)' <=> WholeRound(r)
      BY <1>1, RoundsStand DEF files
    <2> QED
      BY <1>1, <1>2, <2>1 DEF CountsInv, progress, files
  <1> QED
    BY <1>3, <1>4, <1>5, <1>6, <1>7, <1>8, <1>9, <1>10

LEMMA NoStep ==
  ASSUME IInv, UNCHANGED vars
  PROVE  IInv'
  <1> USE DEF IInv, vars, progress, pairing, tallies, files, verdict
  <1>1. TypeOK' /\ LatchInv' /\ TimeInv'
    BY DEF TypeOK, LatchInv, TimeInv, Owed, Measuring
  <1>2. AnswerInv'
    BY DEF AnswerInv, Found, Told, Valid, Measuring
  <1>3. FilesInv' /\ VerdictInv' /\ NewConnectionOnlyAtRoundStart'
    BY DEF FilesInv, VerdictInv, NewConnectionOnlyAtRoundStart, Complete
  <1>4. CountsInv'
    BY DEF CountsInv, Pairs, WholeRound, Done, Measuring
  <1> QED
    BY <1>1, <1>2, <1>3, <1>4

-----------------------------------------------------------------------------
(* The theorems *)

LEMMA InitInvariant == Init => IInv
  <1> SUFFICES ASSUME Init PROVE IInv
    OBVIOUS
  <1> USE DEF Init
  <1>1. TypeOK
    <2>1. /\ stop \in BOOLEAN /\ any_failure \in BOOLEAN /\ released \in BOOLEAN
          /\ aborted \in BOOLEAN /\ artifact_ok \in BOOLEAN
      BY Zenon
    <2>2. connection \in [Side -> Http!Sessions] /\ rows \in Seq(RowType)
      BY DEF Http!Fresh, Http!Sessions
    <2>3. answer \in [Side -> AnswerType]
      BY NoAnswers
    <2>4. 0 \in 0 .. Rounds /\ 0 \in 0 .. Warmups /\ 0 \in 0 .. Horizon
      BY PairedAssumption DEF Horizon, End
    <2> QED
      BY <2>1, <2>2, <2>3, <2>4 DEF TypeOK
  <1>2. LatchInv /\ TimeInv /\ AnswerInv
    BY DEF LatchInv, TimeInv, AnswerInv, AtPair, Writing
  <1>3. FilesInv /\ VerdictInv /\ NewConnectionOnlyAtRoundStart
    BY PairedAssumption DEF FilesInv, VerdictInv, NewConnectionOnlyAtRoundStart, Stream
  <1>4. CountsInv
    BY DEF CountsInv, InRound, AtPair, Writing
  <1> QED
    BY <1>1, <1>2, <1>3, <1>4 DEF IInv

LEMMA NextInvariant == IInv /\ [Next]_vars => IInv'
  <1> SUFFICES ASSUME IInv, [Next]_vars PROVE IInv'
    OBVIOUS
  <1>1. CASE MainStep
    <2>1. CASE Refuse \/ Admit \/ NoMoreRounds
      BY <2>1, StageStep
    <2>2. CASE StartRound
      BY <2>2, StartRoundStep
    <2>3. CASE BeginPair
      BY <2>3, BeginPairStep
    <2>4. CASE EndRound
      BY <2>4, EndRoundStep
    <2>5. CASE StartFirst \/ StartSecond \/ SecondNotStarted \/ Release
      BY <2>5, StartStep
    <2>6. CASE Join
      BY <2>6, JoinStep
    <2>7. CASE FirstNotStarted \/ JoinThrows \/ Abandon \/ WriteThrows
      BY <2>7, ThrowStep
    <2>8. CASE \E s \in Side : Skip(s) \/ Write(s)
      BY <2>8, SkipStep, WriteStep
    <2>9. CASE PairFails \/ WarmupDone \/ MeasuredDone
      BY <2>9, JudgeStep
    <2>10. CASE Flush
      BY <2>10, FlushStep
    <2>11. CASE WriteManifest
      BY <2>11, WriteManifestStep
    <2> QED
      BY <1>1, <2>1, <2>2, <2>3, <2>4, <2>5, <2>6, <2>7, <2>8, <2>9, <2>10, <2>11 DEF MainStep
  <1>2. CASE \E s \in Side : Arrive(s) \/ Pass(s) \/ Request(s) \/ WorkerThrows(s)
    BY <1>2, WorkerStep, RequestStep
  <1>3. CASE Tick
    BY <1>3, TickStep
  <1>4. CASE Exited \/ UNCHANGED vars
    BY <1>4, NoStep DEF Exited
  <1> QED
    BY <1>1, <1>2, <1>3, <1>4 DEF Next

\* The invariant of the paired capture: what its main thread, its workers, its
\* connections, its counters and its two streams know of one another.
THEOREM PairedInvariant == Spec => []IInv
  BY InitInvariant, NextInvariant, PTL DEF Spec

\* The variables keep to their types.
THEOREM PairedTypeCorrect == Spec => []TypeOK
  <1>1. IInv => TypeOK
    BY DEF IInv
  <1> QED
    BY <1>1, PairedInvariant, PTL

\* A measured request is given no time beyond the end of its round.
THEOREM RequestsAreInTheirRound == Spec => []RequestsStayInTheirRound
  <1>1. IInv => RequestsStayInTheirRound
    BY DEF IInv, TimeInv, RequestsStayInTheirRound
  <1> QED
    BY <1>1, PairedInvariant, PTL

\* Whatever was lost before it, a row of requests.jsonl whose body's bytes are
\* in the stream names the place where they are.
THEOREM RowsPointRight == Spec => []RowsPointAtTheirBodies
  <1>1. IInv => RowsPointAtTheirBodies
    BY DEF IInv, FilesInv, RowsPointAtTheirBodies
  <1> QED
    BY <1>1, PairedInvariant, PTL

\* A worker asks only when the other has been at the latch too.
THEOREM PairsAreTogether == Spec => []PairIsTogether
  <1>1. IInv => PairIsTogether
    <2> SUFFICES ASSUME IInv, NEW s \in Side, NEW t \in Side, worker[s] \in {"requesting", "threw"}
                 PROVE  worker[t] \notin {"none", "started"}
      BY DEF PairIsTogether
    <2>1. LatchInv
      BY DEF IInv
    <2>2. main = "join"
      BY <2>1 DEF LatchInv, AtPair, Side
    <2> QED
      BY <2>1, <2>2 DEF LatchInv
  <1> QED
    BY <1>1, PairedInvariant, PTL

\* The rows that name a resolution are the first of their host in their round.
THEOREM ConnectionsAreNewAtRoundStart == Spec => []NewConnectionOnlyAtRoundStart
  <1>1. IInv => NewConnectionOnlyAtRoundStart
    BY DEF IInv
  <1> QED
    BY <1>1, PairedInvariant, PTL

\* A manifest that says complete is over whole rounds and whole files.
THEOREM CompleteMeansWhole == Spec => []CompleteIsWhole
  <1>1. IInv => CompleteIsWhole
    <2> SUFFICES ASSUME IInv, manifest = "complete"
                 PROVE  /\ \A r \in 1 .. Rounds : WholeRound(r)
                        /\ \A i \in DOMAIN rows : rows[i].valid
                        /\ requests = Len(rows) /\ recorded = Len(rows)
                        /\ durable["receipts"] = Len(rows) * RowBytes
                        /\ durable["bodies"] = body_offset
      BY DEF IInv, VerdictInv, CompleteIsWhole, WholeRound
    <2>1. Complete /\ main = "exited" /\ ~stop
      BY DEF IInv, VerdictInv, Complete
    <2>2. ~any_failure /\ artifact_ok /\ completed_rounds = Rounds
      BY <2>1 DEF Complete
    <2>3. round = Rounds
      BY <2>2, PairedAssumption DEF IInv, CountsInv, TypeOK
    <2>4. \A r \in 1 .. Rounds : WholeRound(r)
      BY <2>1, <2>2, <2>3 DEF IInv, CountsInv, InRound, AtPair, Writing
    <2> QED
      BY <2>1, <2>2, <2>4 DEF IInv, VerdictInv, FilesInv
  <1> QED
    BY <1>1, PairedInvariant, PTL
-----------------------------------------------------------------------------
(* The evidence log *)

Intact == artifact_ok /\ requests = Len(rows)

Word == CASE manifest = "complete" -> "complete"
          [] manifest = "incomplete" ->
               IF any_failure \/ completed_rounds # Rounds THEN "failed" ELSE "incomplete"
          [] OTHER -> "running"

\* The steps of the log, in the terms of the capture.
LEMMA LogSteps ==
  ASSUME \/ /\ Word = "running" /\ Word' = Word
            /\ requests' = requests + 1
            /\ \/ Intact /\ Len(rows)' = Len(rows) + 1 /\ Intact' \in BOOLEAN
               \/ Len(rows)' = Len(rows) /\ Intact' = FALSE
         \/ /\ Word = "running" /\ Word' = Word /\ Intact' = FALSE
            /\ requests' = requests /\ Len(rows)' = Len(rows)
         \/ /\ Word = "running"
            /\ \E pairs_ok \in BOOLEAN :
                 Word' = CASE pairs_ok /\ Intact  -> "complete"
                           [] pairs_ok /\ ~Intact -> "incomplete"
                           [] OTHER               -> "failed"
            /\ requests' = requests /\ Len(rows)' = Len(rows) /\ Intact' = Intact
  PROVE  Log!Next
  BY DEF Log!Next, Log!Offer, Log!Lose, Log!Seal, Word, Intact

LEMMA NoVerdictYet ==
  ASSUME IInv, main # "exited"
  PROVE  manifest = "none" /\ Word = "running"
  BY DEF IInv, VerdictInv, Word

\* Most steps are none of the log's.
LEMMA QuietStep ==
  ASSUME IInv, KeptInv, main # "exited",
         UNCHANGED <<requests, rows, artifact_ok, manifest>>,
         main \in {"flush", "manifest"} => main' \in {"flush", "manifest", "exited"}
  PROVE  KeptInv' /\ UNCHANGED Log!vars
  <1>1. KeptInv'
    BY DEF KeptInv
  <1>2. manifest = "none" /\ manifest' = "none"
    BY NoVerdictYet
  <1> QED
    BY <1>1, <1>2 DEF Log!vars

\* A request whose result is written, only counted, or counted and thrown away is
\* offered to the log: while nothing was lost, it is kept if its row is.
LEMMA OfferStep ==
  ASSUME IInv, KeptInv,
         \/ \E s \in Side : Skip(s) \/ Write(s)
         \/ WriteThrows /\ requests' = requests + 1
  PROVE  KeptInv' /\ Log!Next
  <1>1. /\ main \in DOMAIN WriteOrder
        /\ requests' = requests + 1
        /\ manifest = "none" /\ manifest' = manifest
    BY NoVerdictYet DEF Skip, Write, WriteThrows, Written, WriteOrder, verdict
  <1>2. Word = "running" /\ Word' = Word
    BY <1>1 DEF Word
  <1>3. main \notin {"flush", "manifest", "exited"}
    BY <1>1 DEF WriteOrder
  <1>4. /\ requests \in Nat /\ Len(rows) \in Nat /\ Len(rows) <= requests
        /\ rows \in Seq(RowType) /\ artifact_ok \in BOOLEAN
        /\ artifact_ok => requests = Len(rows)
    BY <1>3 DEF IInv, TypeOK, KeptInv
  <1>5. CASE (\E s \in Side : Skip(s)) \/ (WriteThrows /\ requests' = requests + 1)
    <2>1. rows' = rows /\ (~artifact_ok' \/ main' = "flush")
      BY <1>5 DEF Skip, WriteThrows, Caught, files
    <2>2. requests' # Len(rows') /\ Len(rows') <= requests'
      BY <1>1, <1>4, <2>1
    <2>3. KeptInv'
      BY <2>1, <2>2 DEF KeptInv
    <2>4. Len(rows)' = Len(rows) /\ Intact' = FALSE
      BY <2>1, <2>2 DEF Intact
    <2> QED
      BY <1>1, <1>2, <2>3, <2>4, LogSteps
  <1>6. ASSUME NEW s \in Side, Write(s)
        PROVE  KeptInv' /\ Log!Next
    <2>1. PICK b \in 0 .. answer[s].body, r \in 0 .. RowBytes :
            /\ rows' = IF r = RowBytes THEN Append(rows, RequestRow(s)) ELSE rows
            /\ artifact_ok' = (artifact_ok /\ b = answer[s].body /\ r = RowBytes)
      BY <1>6 DEF Write
    <2>2. artifact_ok /\ requests = Len(rows)
      BY <1>4, <1>6 DEF Write, Room
    <2>3. CASE r = RowBytes
      <3>1. Len(rows') = Len(rows) + 1
        BY <1>4, <2>1, <2>3
      <3>2. KeptInv'
        BY <1>1, <1>4, <2>2, <3>1 DEF KeptInv
      <3>3. Intact /\ Intact' \in BOOLEAN /\ Len(rows)' = Len(rows) + 1
        BY <2>1, <2>2, <3>1 DEF Intact
      <3> QED
        BY <1>1, <1>2, <3>2, <3>3, LogSteps
    <2>4. CASE r # RowBytes
      <3>1. rows' = rows /\ ~artifact_ok'
        BY <2>1, <2>4
      <3>2. KeptInv'
        BY <1>1, <1>4, <3>1 DEF KeptInv
      <3>3. Len(rows)' = Len(rows) /\ Intact' = FALSE
        BY <3>1 DEF Intact
      <3> QED
        BY <1>1, <1>2, <3>2, <3>3, LogSteps
    <2> QED
      BY <2>3, <2>4
  <1> QED
    BY <1>5, <1>6

LEMMA FlushLogStep ==
  ASSUME IInv, KeptInv, Flush
  PROVE  KeptInv' /\ (Log!Next \/ UNCHANGED Log!vars)
  <1>1. /\ main = "flush" /\ main' = "manifest"
        /\ UNCHANGED <<requests, rows, manifest>>
        /\ artifact_ok' = artifact_ok \/ artifact_ok' = FALSE
    BY DEF Flush, tallies, verdict, IInv, TypeOK
  <1>2. KeptInv'
    BY <1>1 DEF KeptInv
  <1>3. CASE artifact_ok' = artifact_ok
    BY <1>1, <1>3, QuietStep
  <1>4. CASE artifact_ok' = FALSE
    <2>1. Word = "running" /\ Word' = Word /\ Intact' = FALSE
      BY <1>1, <1>4, NoVerdictYet DEF Word, Intact
    <2> QED
      BY <1>1, <1>2, <2>1, LogSteps
  <1> QED
    BY <1>1, <1>3, <1>4

\* The verdict is complete only over an intact log.
LEMMA SealStep ==
  ASSUME IInv, KeptInv, WriteManifest
  PROVE  KeptInv' /\ (Log!Next \/ UNCHANGED Log!vars)
  <1> DEFINE pairs_ok == ~any_failure /\ completed_rounds = Rounds
  <1>1. /\ main = "manifest" /\ main' = "exited"
        /\ UNCHANGED <<requests, rows, artifact_ok, any_failure, completed_rounds>>
        /\ manifest' \in {"none", "partial", IF Complete THEN "complete" ELSE "incomplete"}
    BY DEF WriteManifest, progress, tallies, files
  <1>2. KeptInv'
    BY <1>1 DEF KeptInv
  <1>3. manifest = "none" /\ Word = "running"
    BY <1>1, NoVerdictYet
  <1>4. CASE manifest' \in {"none", "partial"}
    BY <1>1, <1>2, <1>3, <1>4 DEF Log!vars
  <1>5. CASE manifest' \notin {"none", "partial"}
    <2>1. manifest' = IF Complete THEN "complete" ELSE "incomplete"
      BY <1>1, <1>5
    <2>2. pairs_ok => (Intact <=> artifact_ok)
      BY <1>1 DEF IInv, FilesInv, Intact
    <2>3. Complete <=> pairs_ok /\ artifact_ok
      BY DEF Complete
    <2>4. pairs_ok \in BOOLEAN /\ Intact \in BOOLEAN
      BY DEF Intact
    <2>5. Word' = CASE pairs_ok /\ Intact  -> "complete"
                    [] pairs_ok /\ ~Intact -> "incomplete"
                    [] OTHER               -> "failed"
      BY <1>1, <2>1, <2>2, <2>3 DEF Word
    <2>6. requests' = requests /\ Len(rows)' = Len(rows) /\ Intact' = Intact
      BY <1>1 DEF Intact
    <2> HIDE DEF pairs_ok
    <2> QED
      BY <1>2, <1>3, <2>4, <2>5, <2>6, LogSteps
  <1> QED
    BY <1>4, <1>5

LEMMA LogStep ==
  ASSUME IInv, KeptInv, [Next]_vars
  PROVE  KeptInv' /\ (Log!Next \/ UNCHANGED Log!vars)
  <1>1. CASE \/ Refuse \/ Admit \/ StartRound \/ NoMoreRounds \/ BeginPair \/ EndRound
             \/ PairFails \/ WarmupDone \/ MeasuredDone
    <2>1. /\ main \in {"admission", "round", "slot", "failed", "judge"}
          /\ UNCHANGED <<requests, rows, artifact_ok, manifest>>
      BY <1>1 DEF Refuse, Admit, StartRound, NoMoreRounds, BeginPair, EndRound, PairFails,
                  WarmupDone, MeasuredDone, tallies, files, verdict
    <2> QED
      BY <2>1, QuietStep
  <1>2. CASE \/ StartFirst \/ FirstNotStarted \/ StartSecond \/ SecondNotStarted
             \/ Release \/ Join \/ JoinThrows \/ Abandon
    <2>1. /\ main \in {"start_first", "start_second", "ready_wait", "join", "abandon"}
          /\ UNCHANGED <<requests, rows, artifact_ok, manifest>>
      BY <1>2 DEF StartFirst, FirstNotStarted, StartSecond, SecondNotStarted, Release, Join,
                  JoinThrows, Abandon, tallies, files, verdict
    <2> QED
      BY <2>1, QuietStep
  <1>3. CASE \/ \E s \in Side : Skip(s) \/ Write(s)
             \/ WriteThrows /\ requests' = requests + 1
    BY <1>3, OfferStep
  <1>8. CASE WriteThrows /\ requests' # requests + 1
    <2>1. /\ main \in DOMAIN WriteOrder /\ main' = "flush"
          /\ UNCHANGED <<requests, rows, artifact_ok, manifest>>
      BY <1>8 DEF WriteThrows, Caught, files, verdict
    <2>2. main \notin {"flush", "manifest", "exited"}
      BY <2>1 DEF WriteOrder
    <2> QED
      BY <2>1, <2>2, QuietStep
  <1>4. CASE Flush
    BY <1>4, FlushLogStep
  <1>5. CASE WriteManifest
    BY <1>5, SealStep
  <1>6. CASE Tick \/ (\E s \in Side : Arrive(s) \/ Pass(s) \/ Request(s) \/ WorkerThrows(s))
    <2>1. main # "exited" /\ main' = main
      BY <1>6 DEF Tick, Arrive, Pass, Request, WorkerThrows, IInv, LatchInv, AtPair
    <2>2. UNCHANGED <<requests, rows, artifact_ok, manifest>>
      BY <1>6 DEF Tick, Arrive, Pass, Request, WorkerThrows, tallies, files, verdict
    <2> QED
      BY <2>1, <2>2, QuietStep
  <1>7. CASE Exited \/ UNCHANGED vars
    BY <1>7 DEF Exited, vars, progress, tallies, files, verdict, KeptInv, Log!vars
  <1> QED
    BY <1>1, <1>2, <1>3, <1>4, <1>5, <1>6, <1>7, <1>8 DEF Next, MainStep

\* As long as the capture asks and nothing was lost, every request has its row.
THEOREM EveryRowHasItsRequest == Spec => []KeptInv
  <1>1. Init => KeptInv
    BY DEF Init, KeptInv
  <1> QED
    BY <1>1, LogStep, PairedInvariant, PTL DEF Spec

\* Every behaviour of the paired capture is one of the evidence log: its rows are
\* those of a first part of its requests, a loss is final, and so is the verdict.
THEOREM PairedImplementsEvidenceLog == Spec => ImplementsEvidenceLog
  <1>1. Init => Log!Init
    BY DEF Init, Log!Init
  <1>2. IInv /\ KeptInv /\ [Next]_vars => [Log!Next]_(Log!vars)
    BY LogStep
  <1> QED
    BY <1>1, <1>2, PairedInvariant, EveryRowHasItsRequest, PTL
       DEF Spec, ImplementsEvidenceLog, Log!Spec
=============================================================================
