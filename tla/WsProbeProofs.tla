---------------------------- MODULE WsProbeProofs ----------------------------
(***************************************************************************)
(* Proofs about WsProbe, for any number of attempts and messages, any      *)
(* deadline and any length of a second, and about WsDeadline, the calls it *)
(* makes, for any time each of them is given.                              *)
(***************************************************************************)
EXTENDS WsProbe, WsDeadline, TLAPS

-----------------------------------------------------------------------------
(* The idle timer *)

LEMMA MaxOfTwo ==
  ASSUME NEW a \in Int, NEW b \in Int
  PROVE  Max({a, b}) \in {a, b} /\ Max({a, b}) >= a /\ Max({a, b}) >= b
  <1> DEFINE S == {a, b}
             P(x) == x \in S /\ \A y \in S : x >= y
  <1>1. \E x : P(x)
    <2>1. CASE a >= b
      BY <2>1
    <2>2. CASE b >= a
      BY <2>2
    <2> QED
      BY <2>1, <2>2
  <1>2. Max(S) = CHOOSE x : P(x)
    BY DEF Max
  <1>3. P(CHOOSE x : P(x))
    BY <1>1
  <1> QED
    BY <1>2, <1>3

\* Rounding down to seconds costs less than one of them.
LEMMA Rounding ==
  ASSUME NEW spare \in Nat
  PROVE  /\ (spare \div Second) * Second \in Nat
         /\ spare < (spare \div Second) * Second + Second
  BY ProbeAssumption

LEMMA AllowanceIsEnough ==
  ASSUME NEW spare \in Nat
  PROVE  IdleAllowance(spare) \in Nat /\ spare < IdleAllowance(spare) + Second
  <1>1. (spare \div Second) * Second \in Nat /\ spare < (spare \div Second) * Second + Second
    BY Rounding
  <1>2. Second \in Nat
    BY ProbeAssumption
  <1> DEFINE down == (spare \div Second) * Second
  <1>3. down \in Nat /\ spare < down + Second
    BY <1>1
  <1> HIDE DEF down
  <1>4. Max({Second, down}) \in {Second, down} /\ Max({Second, down}) >= down
    BY <1>2, <1>3, MaxOfTwo
  <1>5. IdleAllowance(spare) = Max({Second, down})
    BY DEF IdleAllowance, down
  <1>6. Max({Second, down}) \in Nat
    BY <1>2, <1>3, <1>4
  <1> QED
    BY <1>2, <1>3, <1>4, <1>5, <1>6

\* An operation that is armed in time is given its time.
LEMMA ArmIsEnough ==
  ASSUME TypeOK, clock < deadline, Arm
  PROVE  give_up' \in Nat /\ give_up' + Second > deadline
  <1>1. clock \in Nat /\ deadline \in Nat /\ Second \in Nat
    BY ProbeAssumption DEF TypeOK
  <1>2. deadline - clock \in Nat
    BY <1>1
  <1>3. PICK allowance : allowance = IdleAllowance(deadline - clock)
    OBVIOUS
  <1>4. allowance \in Nat /\ deadline - clock < allowance + Second
    BY <1>2, <1>3, AllowanceIsEnough
  <1>5. give_up' = clock + allowance
    BY <1>3 DEF Arm
  <1> QED
    BY <1>1, <1>4, <1>5

-----------------------------------------------------------------------------
(* The messages *)

LEMMA OneMore ==
  ASSUME NEW m \in Judged, consumed \in Seq(Judged), consumed' = Append(consumed, m)
  PROVE  /\ consumed' \in Seq(Judged)
         /\ Len(consumed) \in Nat /\ Len(consumed') = Len(consumed) + 1
         /\ DOMAIN consumed = 1..Len(consumed) /\ DOMAIN consumed' = 1..(Len(consumed) + 1)
         /\ \A j \in 1..Len(consumed) : consumed'[j] = consumed[j]
         /\ consumed'[Len(consumed) + 1] = m
  OBVIOUS

LEMMA ProvedByAnswer ==
  ASSUME NEW i \in 0..Len(consumed), NEW j \in DOMAIN consumed, Acknowledged(i),
         DataMatched(consumed[j]),
         j > i \/ (j = i /\ (probe_case.ack_implies_data \/ ~AckMatched(consumed[i])))
  PROVE  Proved
  BY DEF Proved

\* Observe keeps the flags in step with what the messages show.
LEMMA ObserveKeepsProgress ==
  ASSUME TypeOK, ProgressInv, attempt > 0, ~data_complete, UNCHANGED <<probe_case, attempt>>,
         NEW m \in Judged, consumed' = Append(consumed, m), Observe(m)
  PROVE  ProgressInv' /\ ack_complete' \in BOOLEAN /\ data_complete' \in BOOLEAN
  <1> DEFINE n == Len(consumed) + 1
  <1>1. /\ Len(consumed) \in Nat /\ Len(consumed') = n
        /\ DOMAIN consumed = 1..Len(consumed) /\ DOMAIN consumed' = 1..n
        /\ \A j \in 1..Len(consumed) : consumed'[j] = consumed[j]
        /\ consumed'[n] = m
    BY OneMore DEF TypeOK
  <1>2. n \in Nat /\ n >= 1 /\ Len(consumed) < n /\ Len(consumed) = n - 1
    BY <1>1
  <1>3. /\ \A x : AckMatched(x)' <=> AckMatched(x)
        /\ \A x : Acknowledges(x)' <=> Acknowledges(x)
    BY DEF AckMatched, Acknowledges, DataMatched
  <1>4. ASSUME NEW i \in 0..Len(consumed) PROVE Acknowledged(i)' <=> Acknowledged(i)
    <2>1. i \in DOMAIN consumed' <=> i \in DOMAIN consumed
      BY <1>1, <1>4
    <2>2. i \in DOMAIN consumed => consumed'[i] = consumed[i]
      BY <1>1
    <2>3. \A j \in 1..(i - 1) : consumed'[j] = consumed[j]
      BY <1>1, <1>4
    <2>4. i \in DOMAIN consumed => (Acknowledges(consumed[i])' <=> Acknowledges(consumed[i]))
      BY <2>2 DEF Acknowledges, AckMatched, DataMatched
    <2>5. \A j \in 1..(i - 1) : Acknowledges(consumed[j])' <=> Acknowledges(consumed[j])
      BY <2>3 DEF Acknowledges, AckMatched, DataMatched
    <2> QED
      BY <2>1, <2>4, <2>5 DEF Acknowledged
  <1>5. ASSUME NEW i, i = n
        PROVE  Acknowledged(i)' <=> /\ probe_case.require_ack /\ Acknowledges(m)
                                    /\ \A j \in DOMAIN consumed : ~Acknowledges(consumed[j])
    <2>1. i \in DOMAIN consumed' /\ consumed'[i] = m /\ i # 0 /\ 1..(i - 1) = DOMAIN consumed
      BY <1>1, <1>2, <1>5
    <2>2. Acknowledges(consumed[i])' <=> Acknowledges(m)
      BY <2>1 DEF Acknowledges, AckMatched, DataMatched
    <2>3. \A j \in DOMAIN consumed : Acknowledges(consumed[j])' <=> Acknowledges(consumed[j])
      BY <1>1 DEF Acknowledges, AckMatched, DataMatched
    <2> QED
      BY <2>1, <2>2, <2>3 DEF Acknowledged
  <1>6. CASE ack_complete
    <2>1. PICK i0 \in 0..Len(consumed) : Acknowledged(i0)
      BY <1>6 DEF ProgressInv
    <2>2. ~Proved
      BY DEF ProgressInv
    <2>3. ack_complete' = TRUE /\ (data_complete' <=> DataMatched(m)) /\ data_complete' \in BOOLEAN
      BY <1>6 DEF Observe, TypeOK
    <2>4. i0 \in 0..Len(consumed') /\ Acknowledged(i0)'
      <3>1. i0 \in 0..Len(consumed')
        BY <1>1, <1>2, <2>1
      <3>2. Acknowledged(i0)'
        BY <1>4, <2>1
      <3> QED
        BY <3>1, <3>2
    <2>5. ASSUME DataMatched(m) PROVE Proved'
      <3>1. n \in DOMAIN consumed' /\ DataMatched(consumed'[n]) /\ n > i0
        BY <1>1, <1>2, <2>5
      <3> QED
        BY <2>4, <3>1 DEF Proved, DataMatched
    <2>6. ASSUME Proved' PROVE DataMatched(m)
      <3>1. PICK i \in 0..Len(consumed'), j \in DOMAIN consumed' :
              /\ Acknowledged(i)' /\ DataMatched(consumed'[j])
              /\ \/ j > i
                 \/ j = i /\ (probe_case'.ack_implies_data \/ ~AckMatched(consumed[i])')
        BY <2>6 DEF Proved, DataMatched
      <3>2. CASE i = n
        <4>1. \A k \in DOMAIN consumed : ~Acknowledges(consumed[k])
          BY <1>5, <3>1, <3>2
        <4>2. probe_case.require_ack
          BY <1>5, <3>1, <3>2
        <4> QED
          BY <2>1, <4>1, <4>2 DEF Acknowledged
      <3>3. CASE i # n
        <4>1. i \in 0..Len(consumed) /\ Acknowledged(i)
          BY <1>1, <1>2, <1>4, <3>1, <3>3
        <4>2. CASE j = n
          BY <1>1, <3>1, <4>2
        <4>3. CASE j # n
          <5>1. j \in DOMAIN consumed /\ consumed'[j] = consumed[j]
            BY <1>1, <1>2, <4>3
          <5>2. j = i => consumed'[i] = consumed[i]
            BY <5>1
          <5>3. \/ j > i
                \/ j = i /\ (probe_case.ack_implies_data \/ ~AckMatched(consumed[i]))
            BY <3>1, <5>2 DEF AckMatched
          <5> QED
            BY <2>2, <3>1, <4>1, <5>1, <5>3, ProvedByAnswer
        <4> QED
          BY <4>2, <4>3
      <3> QED
        BY <3>2, <3>3
    <2> QED
      BY <2>3, <2>4, <2>5, <2>6 DEF ProgressInv
  <1>7. CASE ~ack_complete
    <2>1. probe_case.require_ack /\ \A j \in DOMAIN consumed : ~Acknowledges(consumed[j])
      BY <1>7 DEF ProgressInv
    <2>2. \A i \in 0..Len(consumed) : ~Acknowledged(i)'
      BY <1>4, <2>1 DEF Acknowledged
    <2>3. /\ ack_complete' <=> Acknowledges(m)
          /\ data_complete' <=> /\ Acknowledges(m) /\ DataMatched(m)
                                /\ probe_case.ack_implies_data \/ ~AckMatched(m)
          /\ ack_complete' \in BOOLEAN /\ data_complete' \in BOOLEAN
      BY <1>7 DEF Observe, Acknowledges, TypeOK
    <2>4. ASSUME Acknowledges(m) PROVE \E i \in 0..Len(consumed') : Acknowledged(i)'
      <3>1. n \in 0..Len(consumed')
        BY <1>1, <1>2
      <3>2. ASSUME NEW i, i = n PROVE Acknowledged(i)'
        BY <1>5, <2>1, <2>4, <3>2
      <3> QED
        BY <3>1, <3>2
    <2>5. ASSUME ~Acknowledges(m) PROVE \A j \in DOMAIN consumed' : ~Acknowledges(consumed[j])'
      <3> SUFFICES ASSUME NEW j \in DOMAIN consumed' PROVE ~Acknowledges(consumed[j])'
        OBVIOUS
      <3>1. CASE j = n
        BY <1>1, <2>5, <3>1 DEF Acknowledges, AckMatched, DataMatched
      <3>2. CASE j # n
        <4>1. j \in DOMAIN consumed /\ consumed'[j] = consumed[j]
          BY <1>1, <1>2, <3>2
        <4> QED
          BY <2>1, <4>1 DEF Acknowledges, AckMatched, DataMatched
      <3> QED
        BY <3>1, <3>2
    <2>6. Proved' <=> data_complete'
      <3>1. ASSUME Proved' PROVE data_complete'
        <4>1. PICK i \in 0..Len(consumed'), j \in DOMAIN consumed' :
                /\ Acknowledged(i)' /\ DataMatched(consumed'[j])
                /\ \/ j > i
                   \/ j = i /\ (probe_case'.ack_implies_data \/ ~AckMatched(consumed[i])')
          BY <3>1 DEF Proved, DataMatched
        <4>2. i = n
          BY <1>1, <1>2, <2>2, <4>1
        <4>3. j = n /\ consumed'[i] = m /\ consumed'[j] = m
          BY <1>1, <1>2, <4>1, <4>2
        <4>4. Acknowledges(m)
          BY <1>5, <4>1, <4>2
        <4>5. probe_case.ack_implies_data \/ ~AckMatched(m)
          BY <1>2, <4>1, <4>2, <4>3 DEF AckMatched
        <4> QED
          BY <2>3, <4>1, <4>3, <4>4, <4>5
      <3>2. ASSUME data_complete' PROVE Proved'
        <4>1. Acknowledges(m) /\ DataMatched(m) /\ (probe_case.ack_implies_data \/ ~AckMatched(m))
          BY <2>3, <3>2
        <4>2. ASSUME NEW i, i = n PROVE Proved'
          <5>1. Acknowledged(i)' /\ i \in 0..Len(consumed') /\ i \in DOMAIN consumed' /\ consumed'[i] = m
            BY <1>1, <1>2, <1>5, <2>1, <4>1, <4>2
          <5>2. probe_case'.ack_implies_data \/ ~AckMatched(consumed[i])'
            BY <4>1, <5>1 DEF AckMatched
          <5> QED
            BY <4>1, <5>1, <5>2 DEF Proved, DataMatched
        <4> QED
          BY <4>2
      <3> QED
        BY <3>1, <3>2
    <2> QED
      BY <2>1, <2>3, <2>4, <2>5, <2>6 DEF ProgressInv
  <1> QED
    BY <1>6, <1>7, OneMore DEF TypeOK
\* The flags say the same while nothing they depend on changes.
LEMMA ProgressStays ==
  ASSUME ProgressInv, UNCHANGED <<probe_case, attempt, progress, consumed>>
  PROVE  ProgressInv'
  BY DEF ProgressInv, Proved, Acknowledged, Acknowledges, AckMatched, DataMatched, progress

-----------------------------------------------------------------------------
(* The steps of an attempt *)

\* An observation tells success and timeout as they are.
LEMMA ObservationIsTrue ==
  ASSUME NEW where, NEW error, EndAttempt(where, error), connected \in BOOLEAN,
         ack_complete' \in BOOLEAN, data_complete' \in BOOLEAN,
         data_complete' => ack_complete' /\ connected /\ error = "none",
         error = "timeout" \/ (error = "none" /\ ~data_complete') => clock + Second > deadline
  PROVE  /\ pc' \in {"idle", "done"}
         /\ last'.met <=> data_complete'
         /\ last'.outcome = "Timeout" => clock + Second > deadline
  <1> DEFINE missing == ~ack_complete' \/ ~data_complete'
             final   == IF error = "none" /\ missing THEN "timeout" ELSE error
             met     == connected /\ ack_complete' /\ data_complete' /\ final = "none"
  <1>1. /\ last' = [met |-> met, outcome |-> Outcome(met, where, final), used |-> attempt]
        /\ pc' = IF met \/ attempt = Attempts THEN "done" ELSE "idle"
    BY Zenon DEF EndAttempt
  <1>2. last'.met = met /\ last'.outcome = Outcome(met, where, final)
    BY <1>1, Zenon
  <1>3. met <=> data_complete'
    OBVIOUS
  <1>4. ~met /\ final = "timeout" => clock + Second > deadline
    <2>1. CASE data_complete'
      BY <1>3, <2>1
    <2>2. CASE ~data_complete'
      <3>1. final = "timeout" => error = "timeout" \/ error = "none"
        OBVIOUS
      <3> QED
        BY <2>2, <3>1
    <2> QED
      BY <2>1, <2>2
  <1>5. Outcome(met, where, final) = "Timeout" => ~met /\ final = "timeout"
    <2> HIDE DEF met, final
    <2>1. CASE met
      BY <2>1 DEF Outcome
    <2>2. CASE ~met
      BY <2>2 DEF Outcome, TransportOutcome
    <2> QED
      BY <2>1, <2>2
  <1>6. pc' \in {"idle", "done"}
    BY <1>1
  <1> HIDE DEF met, final
  <1> QED
    BY <1>2, <1>3, <1>4, <1>5, <1>6

LEMMA InAnAttempt ==
  ASSUME IInv, ~Over
  PROVE  attempt > 0 /\ ~data_complete
  <1>1. attempt \in Nat
    BY DEF IInv, TypeOK
  <1>2. attempt # 0 /\ ~data_complete
    BY DEF IInv, AttemptInv, Over
  <1> QED
    BY <1>1, <1>2

\* A step inside an attempt that neither reads a message nor ends it.
LEMMA GoingOn ==
  ASSUME IInv, ~Over,
         UNCHANGED <<probe_case, clock, attempt, deadline, progress, last, consumed>>,
         pc' \in SettingUp \cup Exchanging,
         connected' \in BOOLEAN, pc' \in Exchanging => connected',
         give_up' \in Nat, give_up' + Second > deadline
  PROVE  IInv'
  <1>1. attempt > 0 /\ ~data_complete
    BY InAnAttempt
  <1>2. pc' \notin {"idle", "done"}
    BY DEF SettingUp, Exchanging
  <1>3. TypeOK'
    BY DEF IInv, TypeOK, progress
  <1>4. ProgressInv'
    BY ProgressStays DEF IInv
  <1>5. AttemptInv'
    BY <1>1, <1>2 DEF AttemptInv, Over, progress
  <1>6. TimeInv' /\ TimeoutHadItsTime'
    BY <1>2 DEF TimeInv, TimeoutHadItsTime, Over
  <1> QED
    BY <1>3, <1>4, <1>5, <1>6 DEF IInv

LEMMA Ending ==
  ASSUME IInv, ~Over, UNCHANGED <<probe_case, clock, attempt, deadline, give_up, connected>>,
         NEW where, NEW error, EndAttempt(where, error),
         ProgressInv', consumed' \in Seq(Judged),
         ack_complete' \in BOOLEAN, data_complete' \in BOOLEAN,
         data_complete' => connected /\ error = "none",
         error = "timeout" \/ (error = "none" /\ ~data_complete') => clock + Second > deadline
  PROVE  IInv'
  <1>1. attempt > 0
    BY InAnAttempt
  <1>2. data_complete' => ack_complete'
    BY <1>1 DEF ProgressInv
  <1>3. connected \in BOOLEAN
    BY DEF IInv, TypeOK
  <1>4. /\ pc' \in {"idle", "done"}
        /\ last'.met <=> data_complete'
        /\ last'.outcome = "Timeout" => clock + Second > deadline
    BY <1>2, <1>3, ObservationIsTrue
  <1>5. TypeOK'
    BY <1>4 DEF IInv, TypeOK
  <1>6. AttemptInv'
    BY <1>1, <1>4 DEF AttemptInv, Over, Exchanging, IInv, TypeOK
  <1>7. TimeInv' /\ TimeoutHadItsTime'
    BY <1>4 DEF TimeInv, TimeoutHadItsTime, Over
  <1> QED
    BY <1>5, <1>6, <1>7 DEF IInv

\* Ending without having read anything more.
LEMMA GivingUp ==
  ASSUME IInv, ~Over, NEW where, NEW error, EndAttempt(where, error),
         UNCHANGED <<probe_case, clock, attempt, deadline, give_up, connected, progress, consumed>>,
         error \in {"timeout", "none"} => clock + Second > deadline
  PROVE  IInv'
  <1>1. ProgressInv' /\ ~data_complete
    BY ProgressStays DEF IInv, AttemptInv
  <1>2. /\ consumed' \in Seq(Judged) /\ ack_complete' \in BOOLEAN
        /\ data_complete' \in BOOLEAN /\ ~data_complete'
    BY <1>1 DEF IInv, TypeOK, progress
  <1> QED
    BY <1>1, <1>2, Ending

-----------------------------------------------------------------------------
(* The invariant *)

LEMMA CasesAreTyped == Cases \subseteq CaseType
  <1>1. /\ SbeWs \in CaseType /\ KucoinWs \in CaseType
        /\ BingxWs \in CaseType
    BY DEF JsonWs, SbeWs, KucoinWs, BingxWs, WsCase, CaseType
  <1>2. \A b \in BOOLEAN : /\ JsonWs(b) \in CaseType
                          /\ StreamWs(b) \in CaseType /\ CandidateWs(b) \in CaseType
    BY DEF JsonWs, StreamWs, CandidateWs, WsCase, CaseType
  <1> QED
    BY <1>1, <1>2 DEF Cases

LEMMA InitIInv == Init => IInv
  <1> SUFFICES ASSUME Init PROVE IInv
    OBVIOUS
  <1>1. probe_case \in CaseType
    BY CasesAreTyped DEF Init
  <1>2. consumed \in Seq(Judged)
    BY DEF Init
  <1>3. TypeOK
    BY <1>1, <1>2 DEF Init, TypeOK
  <1>4. ProgressInv /\ AttemptInv /\ TimeInv
    BY DEF Init, ProgressInv, AttemptInv, TimeInv, Over, Exchanging
  <1>5. last.outcome = "NotRun"
    BY DEF Init, NoObservation
  <1> QED
    BY <1>3, <1>4, <1>5 DEF IInv, TimeoutHadItsTime

LEMMA StartKeeps ==
  ASSUME IInv, StartAttempt
  PROVE  IInv'
  <1>1. /\ clock \in Nat /\ attempt \in Nat /\ Timeout \in Nat /\ Second \in Nat /\ Second > 0
        /\ probe_case \in CaseType
    BY ProbeAssumption DEF IInv, TypeOK
  <1>2. /\ pc' = "dns" /\ ack_complete' = ~probe_case.require_ack /\ data_complete' = FALSE
        /\ consumed' = << >> /\ connected' = FALSE /\ attempt' = attempt + 1
        /\ deadline' = clock + Timeout /\ give_up' = clock + Timeout
        /\ probe_case' = probe_case /\ clock' = clock
    BY DEF StartAttempt
  <1>3. TypeOK'
    <2>1. probe_case.require_ack \in BOOLEAN
      BY <1>1 DEF CaseType
    <2>2. ack_complete' \in BOOLEAN
      BY <1>2, <2>1, Zenon
    <2>3. consumed' \in Seq(Judged)
      BY <1>2
    <2>4. /\ clock' \in Nat /\ deadline' \in Nat /\ give_up' \in Nat /\ attempt' \in Nat
          /\ probe_case' \in CaseType
      BY <1>1, <1>2
    <2>5. pc' \in {"idle", "done"} \cup SettingUp \cup Exchanging
      BY <1>2 DEF SettingUp
    <2>6. connected' \in BOOLEAN /\ data_complete' \in BOOLEAN
      BY <1>2, Zenon
    <2> QED
      BY <2>2, <2>3, <2>4, <2>5, <2>6 DEF TypeOK
  <1>4. ProgressInv'
    <2>1. Len(consumed') = 0 /\ DOMAIN consumed' = {}
      BY <1>2
    <2>2. ~Proved'
      BY <2>1 DEF Proved
    <2>3. ~probe_case.require_ack => (\E i \in 0..Len(consumed') : Acknowledged(i)')
      <3>1. ~probe_case.require_ack => \A i : i = 0 => Acknowledged(i)'
        BY <1>2 DEF Acknowledged
      <3> QED
        BY <2>1, <3>1
    <2>4. ack_complete' <=> ~probe_case.require_ack
      BY <1>2
    <2> QED
      BY <1>2, <2>1, <2>2, <2>3, <2>4 DEF ProgressInv
  <1>5. AttemptInv'
    BY <1>1, <1>2 DEF AttemptInv, Over, Exchanging
  <1>6. TimeInv' /\ TimeoutHadItsTime'
    BY <1>1, <1>2 DEF TimeInv, TimeoutHadItsTime
  <1> QED
    BY <1>3, <1>4, <1>5, <1>6 DEF IInv

LEMMA ReadTextKeeps ==
  ASSUME IInv, NEW m \in Messages, ReadText(m)
  PROVE  IInv'
  <1>1. /\ pc = "read" /\ ~Over /\ connected /\ consumed' = Append(consumed, m) /\ Observe(m)
        /\ UNCHANGED <<probe_case, clock, attempt, deadline, give_up, connected>>
    BY DEF ReadText, ReadSucceeds, Over, IInv, AttemptInv, Exchanging
  <1>2. m \in Judged
    BY DEF ReadText, Messages, Special
  <1>3. attempt > 0 /\ ~data_complete
    BY <1>1, InAnAttempt
  <1>4. ProgressInv' /\ ack_complete' \in BOOLEAN /\ data_complete' \in BOOLEAN
    BY <1>1, <1>2, <1>3, ObserveKeepsProgress DEF IInv
  <1>5. consumed' \in Seq(Judged)
    BY <1>1, <1>2 DEF IInv, TypeOK
  <1>6. CASE ack_complete' /\ data_complete'
    <2>1. PICK where : where = stage'
      OBVIOUS
    <2>2. EndAttempt(where, "none")
      BY <1>6, <2>1 DEF ReadText
    <2> QED
      BY <1>1, <1>4, <1>5, <1>6, <2>2, Ending
  <1>7. CASE ~(ack_complete' /\ data_complete')
    <2>1. pc' = "loop" /\ last' = last
      BY <1>7 DEF ReadText
    <2>2. ~data_complete'
      BY <1>1, <1>3, <1>4, <1>7 DEF ProgressInv
    <2>3. TypeOK'
      BY <1>1, <1>4, <1>5, <2>1 DEF IInv, TypeOK, Exchanging
    <2>4. AttemptInv'
      BY <1>1, <1>3, <2>1, <2>2 DEF AttemptInv, Over
    <2>5. TimeInv' /\ TimeoutHadItsTime'
      BY <1>1, <2>1 DEF IInv, TimeInv, TimeoutHadItsTime, Over
    <2> QED
      BY <1>4, <2>3, <2>4, <2>5 DEF IInv
  <1> QED
    BY <1>6, <1>7

LEMMA StepKeepsIInv ==
  ASSUME IInv, Step
  PROVE  IInv'
  <1>1. CASE StartAttempt
    BY <1>1, StartKeeps
  <1>2. ASSUME NEW i \in DOMAIN Setup,
               /\ pc = Setup[i] /\ clock < deadline
               /\ pc' = IF i = Len(Setup) THEN AfterHandshake ELSE Setup[i + 1]
               /\ connected' = (i = Len(Setup))
               /\ Arm
               /\ UNCHANGED <<probe_case, clock, attempt, deadline, progress, last, consumed>>
        PROVE  IInv'
    <2>1. Len(Setup) = 4 /\ i \in 1..4
      BY DEF Setup
    <2>2. AfterHandshake \in Exchanging
      BY DEF AfterHandshake, AfterWelcome, Exchanging
    <2>3. ~Over
      BY <1>2, <2>1 DEF Setup, Over
    <2>4. give_up' \in Nat /\ give_up' + Second > deadline
      BY <1>2, ArmIsEnough DEF IInv
    <2>5. i # 4 => Setup[i + 1] \in SettingUp
      BY <2>1 DEF Setup, SettingUp
    <2>6. pc' \in SettingUp \cup Exchanging
      BY <1>2, <2>1, <2>2, <2>5
    <2>7. connected' \in BOOLEAN /\ (pc' \in Exchanging => connected')
      <3>1. connected' = (i = 4)
        BY <1>2, <2>1
      <3>2. i # 4 => pc' \in SettingUp
        BY <1>2, <2>1, <2>5
      <3>3. pc' \in SettingUp => pc' \notin Exchanging
        BY DEF SettingUp, Exchanging
      <3> QED
        BY <3>1, <3>2, <3>3
    <2> QED
      BY <1>2, <2>3, <2>4, <2>6, <2>7, GoingOn
  <1>3. ASSUME NEW valid \in BOOLEAN, Welcome(valid)
        PROVE  IInv'
    <2>1. /\ pc = "welcome" /\ clock < deadline /\ ~Over
          /\ UNCHANGED <<probe_case, clock, attempt, deadline, connected, consumed, progress>>
      BY <1>3 DEF Welcome, Over
    <2>2. CASE valid
      <3>1. pc' = AfterWelcome /\ Arm /\ UNCHANGED last
        BY <1>3, <2>2 DEF Welcome
      <3>2. pc' \in Exchanging /\ connected /\ connected \in BOOLEAN
        BY <2>1, <3>1 DEF AfterWelcome, Exchanging, IInv, AttemptInv, TypeOK
      <3>3. give_up' \in Nat /\ give_up' + Second > deadline
        BY <2>1, <3>1, ArmIsEnough DEF IInv
      <3> QED
        BY <2>1, <3>1, <3>2, <3>3, GoingOn
    <2>3. CASE ~valid
      <3>1. EndAttempt("welcome", "welcome_contract_mismatch") /\ UNCHANGED give_up
        BY <1>3, <2>3 DEF Welcome
      <3> QED
        BY <2>1, <3>1, GivingUp
    <2> QED
      BY <2>2, <2>3
  <1>4. CASE Subscribe
    BY <1>4, GoingOn
       DEF Subscribe, Over, Exchanging, progress, IInv, TypeOK, AttemptInv, TimeInv
  <1>5. ASSUME NEW error \in {"timeout", "capacity_exceeded", "transport"}, OperationFails(error)
        PROVE  IInv'
    <2>1. ~Over /\ EndAttempt(stage, error)
          /\ UNCHANGED <<probe_case, clock, attempt, deadline, give_up, connected, progress, consumed>>
      BY <1>5 DEF OperationFails, OperationFailed, Over
    <2>2. error = "timeout" => clock + Second > deadline
      <3>1. error = "timeout" => clock >= deadline \/ clock >= give_up
        BY <1>5 DEF OperationFails
      <3>2. give_up + Second > deadline
        BY <2>1 DEF IInv, TimeInv
      <3> QED
        BY <3>1, <3>2, ProbeAssumption DEF IInv, TypeOK
    <2>3. PICK where : where = stage
      OBVIOUS
    <2>4. EndAttempt(where, error)
      BY <2>1, <2>3
    <2> QED
      BY <1>5, <2>1, <2>2, <2>4, GivingUp
  <1>6. CASE LoopRead
    <2>1. give_up' \in Nat /\ give_up' + Second > deadline
      BY <1>6, ArmIsEnough DEF IInv, LoopRead
    <2>2. ~Over /\ connected /\ connected \in BOOLEAN /\ connected' = connected
          /\ UNCHANGED <<probe_case, clock, attempt, deadline, progress, last, consumed>>
          /\ pc' \in Exchanging
      BY <1>6 DEF LoopRead, Over, Exchanging, IInv, TypeOK, AttemptInv
    <2> QED
      BY <2>1, <2>2, GoingOn
  <1>7. CASE LoopExpires
    <2>1. ~Over /\ EndAttempt(stage, "none") /\ clock >= deadline
          /\ UNCHANGED <<probe_case, clock, attempt, deadline, give_up, connected, progress, consumed>>
      BY <1>7 DEF LoopExpires, Over
    <2>2. clock + Second > deadline
      BY <2>1, ProbeAssumption DEF IInv, TypeOK
    <2>3. PICK where : where = stage
      OBVIOUS
    <2>4. EndAttempt(where, "none")
      BY <2>1, <2>3
    <2> QED
      BY <2>1, <2>2, <2>4, GivingUp
  <1>8. CASE ReadPing
    <2>1. give_up' \in Nat /\ give_up' + Second > deadline
      BY <1>8, ArmIsEnough DEF IInv, ReadPing, ReadSucceeds
    <2>2. ~Over /\ connected /\ connected \in BOOLEAN /\ connected' = connected
          /\ UNCHANGED <<probe_case, clock, attempt, deadline, progress, last, consumed>>
          /\ pc' \in Exchanging
      BY <1>8 DEF ReadPing, ReadSucceeds, Over, Exchanging, IInv, TypeOK, AttemptInv
    <2> QED
      BY <2>1, <2>2, GoingOn
  <1>9. CASE WritePong
    BY <1>9, GoingOn
       DEF WritePong, Over, Exchanging, progress, IInv, TypeOK, AttemptInv, TimeInv
  <1>10. ASSUME NEW m \in Messages, ReadBroken(m)
         PROVE  IInv'
    <2>1. ~Over /\ UNCHANGED <<probe_case, clock, attempt, deadline, give_up, connected, progress, consumed>>
      BY <1>10 DEF ReadBroken, ReadSucceeds, Over
    <2>2. PICK where : where = stage
      OBVIOUS
    <2>3. \/ EndAttempt(where, "htx_application_ping_invalid")
          \/ EndAttempt("decompression", "gzip_invalid")
          \/ EndAttempt("decompression", "capacity_exceeded")
      BY <1>10, <2>2 DEF ReadBroken
    <2> QED
      BY <2>1, <2>3, GivingUp
  <1>11. ASSUME NEW m \in Messages, ReadText(m)
         PROVE  IInv'
    BY <1>11, ReadTextKeeps
  <1>12. CASE SetupSucceeds
    BY <1>2, <1>12 DEF SetupSucceeds
  <1>13. CASE Read
    BY <1>8, <1>10, <1>11, <1>13 DEF Read
  <1> QED
    BY <1>1, <1>3, <1>4, <1>5, <1>6, <1>7, <1>9, <1>12, <1>13 DEF Step

LEMMA NextKeepsIInv == IInv /\ [Next]_vars => IInv'
  <1> SUFFICES ASSUME IInv, [Next]_vars PROVE IInv'
    OBVIOUS
  <1>1. CASE Step
    BY <1>1, StepKeepsIInv
  <1>2. CASE Tick
    <2>1. /\ ~Over /\ clock' = clock + 1
          /\ UNCHANGED <<probe_case, attempt, pc, deadline, give_up, connected, progress, last, consumed>>
      BY <1>2 DEF Tick, Over
    <2>2. TypeOK'
      BY <2>1 DEF IInv, TypeOK, progress
    <2>3. ProgressInv'
      BY <2>1, ProgressStays DEF IInv
    <2>4. AttemptInv' /\ TimeInv' /\ TimeoutHadItsTime'
      BY <2>1 DEF IInv, AttemptInv, TimeInv, TimeoutHadItsTime, Over, progress
    <2> QED
      BY <2>2, <2>3, <2>4 DEF IInv
  <1>3. CASE UNCHANGED vars
    <2>1. UNCHANGED <<probe_case, clock, attempt, pc, deadline, give_up, connected, progress,
                      last, consumed>>
      BY <1>3 DEF vars
    <2>2. TypeOK'
      BY <2>1 DEF IInv, TypeOK, progress
    <2>3. ProgressInv'
      BY <2>1, ProgressStays DEF IInv
    <2>4. AttemptInv' /\ TimeInv' /\ TimeoutHadItsTime'
      BY <2>1 DEF IInv, AttemptInv, TimeInv, TimeoutHadItsTime, Over, progress
    <2> QED
      BY <2>2, <2>3, <2>4 DEF IInv
  <1> QED
    BY <1>1, <1>2, <1>3 DEF Next, Done

-----------------------------------------------------------------------------
(* The theorems *)

\* The invariant of a probe, whatever the server sends and however its
\* attempts end (observe_ws, run_public_ws).
THEOREM ProbeInvariant == Spec => []IInv
  <1>1. Init => IInv
    BY InitIInv
  <1>2. IInv /\ [Next]_vars => IInv'
    BY NextKeepsIInv
  <1> QED
    BY <1>1, <1>2, PTL DEF Spec

\* Every variable of a probe keeps its type.
THEOREM ProbeTypeCorrect == Spec => []TypeOK
  <1>1. IInv => TypeOK
    BY DEF IInv
  <1> QED
    BY <1>1, ProbeInvariant, PTL

\* An attempt is a success exactly when the messages it read prove the
\* subscription, for messages of any number (WsClient.cpp:385).
THEOREM SuccessIsAlwaysProved == Spec => []SuccessIsProved
  <1>1. IInv => SuccessIsProved
    BY DEF IInv, ProgressInv, AttemptInv, SuccessIsProved, Over
  <1> QED
    BY <1>1, ProbeInvariant, PTL

\* An attempt reported as a timeout had its time but for a second, whatever
\* the deadline and the clock's unit (WsClient.cpp:39).
THEOREM TimeoutsHadTheirTime == Spec => []TimeoutHadItsTime
  <1>1. IInv => TimeoutHadItsTime
    BY DEF IInv
  <1> QED
    BY <1>1, ProbeInvariant, PTL

-----------------------------------------------------------------------------
(* The calls a probe makes *)

\* What WsDeadline says of one call, for any order of its two handlers.

\* The results of the helpers are handlers, and neither makes one appear.
LEMMA HandlerType ==
  /\ None \in Handler /\ Waiting \in Handler
  /\ None.phase = "none" /\ Waiting.phase = "waiting"
  /\ \A error \in OpError :
       /\ Ready(error) \in Handler
       /\ Ready(error).phase = "ready"
  /\ \A handler \in Handler :
       /\ Closed(handler) \in Handler
       /\ Cancelled(handler) \in Handler
       /\ Closed(handler).phase = "none" <=> handler.phase = "none"
       /\ Cancelled(handler).phase = "none" <=> handler.phase = "none"
       /\ handler.error \in OpError
  BY DEF None, Waiting, Ready, Closed, Cancelled, Handler, OpError

LEMMA TimeToSpare ==
  /\ 0 \in 0 .. MaxLeft
  /\ \A d \in 1 .. MaxLeft : d \in 0 .. MaxLeft
  /\ \A d \in 0 .. MaxLeft : d > 0 => d - 1 \in 0 .. MaxLeft
  BY MaxLeftAssumption

LEMMA CallInitially == CallInit => CallInv
  <1> SUFFICES ASSUME CallInit PROVE CallInv
    OBVIOUS
  <1>1. CallTypeOK
    BY HandlerType, TimeToSpare DEF CallInit, CallTypeOK, OpError
  <1>2. IdleInv /\ ArmedInv /\ LoopingInv /\ UnwindingInv
    BY HandlerType
       DEF CallInit, IdleInv, ArmedInv, LoopingInv, UnwindingInv,
           NothingOutlivesTheCall, OutcomeIsTrue
  <1> QED
    BY <1>1, <1>2 DEF CallInv

LEMMA CallTypes ==
  ASSUME CallTypeOK, [CallNext]_call_vars
  PROVE  CallTypeOK'
  <1> USE HandlerType, TimeToSpare DEF CallTypeOK, flags
  <1>1. CASE CallExpired
    BY <1>1 DEF CallExpired
  <1>2. ASSUME NEW d \in 1 .. MaxLeft, Call(d) PROVE CallTypeOK'
    BY <1>2 DEF Call, OpError
  <1>3. CASE StartOperation
    BY <1>3 DEF StartOperation
  <1>4. CASE StartThrows
    BY <1>4 DEF StartThrows
  <1>5. CASE CallTick
    BY <1>5 DEF CallTick
  <1>6. CASE TimerExpires
    BY <1>6 DEF TimerExpires, OpError
  <1>7. ASSUME NEW error \in OpError \ {"aborted"}, OperationEnds(error)
       PROVE CallTypeOK'
    BY <1>7 DEF OperationEnds
  <1>8. CASE RunOperation
    BY <1>8 DEF RunOperation
  <1>9. CASE RunTimer
    BY <1>9 DEF RunTimer
  <1>10. CASE Return
    <2>1. outcome' \in OpError \cup {"timed_out", "exception"}
      BY <1>10 DEF Return
    <2> QED
      BY <1>10, <2>1 DEF Return
  <1>11. CASE Rethrow
    BY <1>11 DEF Rethrow
  <1>12. CASE Reopen
    BY <1>12 DEF Reopen, OpError
  <1>13. CASE UNCHANGED call_vars
    BY <1>13 DEF call_vars
  <1> QED
    BY <1>1, <1>2, <1>3, <1>4, <1>5, <1>6, <1>7, <1>8, <1>9, <1>10, <1>11, <1>12, <1>13
       DEF CallNext

LEMMA CallKeeps == CallInv /\ [CallNext]_call_vars => CallInv'
  <1> SUFFICES ASSUME CallInv, [CallNext]_call_vars PROVE CallInv'
    OBVIOUS
  <1> DEFINE Places == IdleInv /\ ArmedInv /\ LoopingInv /\ UnwindingInv
  <1> SUFFICES Places'
    BY CallTypes DEF CallInv
  <1> USE HandlerType
     DEF CallInv, CallTypeOK, IdleInv, ArmedInv, LoopingInv, UnwindingInv,
         NothingOutlivesTheCall, OutcomeIsTrue, flags
  <1>1. CASE CallExpired
    BY <1>1 DEF CallExpired
  <1>2. ASSUME NEW d \in 1 .. MaxLeft, Call(d) PROVE Places'
    BY <1>2 DEF Call
  <1>3. CASE StartOperation
    BY <1>3 DEF StartOperation
  <1>4. CASE StartThrows
    BY <1>4 DEF StartThrows
  <1>5. CASE CallTick
    BY <1>5 DEF CallTick
  <1>6. CASE TimerExpires
    BY <1>6 DEF TimerExpires, OpError
  <1>7. ASSUME NEW error \in OpError \ {"aborted"}, OperationEnds(error)
       PROVE Places'
    BY <1>7 DEF OperationEnds
  <1>8. CASE RunOperation
    <2>1. /\ call' = "looping" /\ operation_complete' = TRUE
          /\ op'.phase = "none"
      BY <1>8 DEF RunOperation
    <2>2. timed_out' <=> ~socket_open'
      BY <1>8 DEF RunOperation
    <2>3. ~timed_out' => finished_left' > 0
      <3>1. ~timed_out' => left # 0 /\ finished_left' = left
        BY <1>8 DEF RunOperation, Late
      <3>2. left \in Nat
        OBVIOUS
      <3> QED
        BY <3>1, <3>2
    <2>4. timer_complete' <=> timer'.phase = "none"
      BY <1>8 DEF RunOperation
    <2>5. LoopingInv'
      BY ONLY <2>1, <2>2, <2>3, <2>4 DEF LoopingInv
    <2> QED
      BY ONLY <2>1, <2>5 DEF IdleInv, ArmedInv, UnwindingInv
  <1>9. CASE RunTimer
    BY <1>9 DEF RunTimer, TimerFires
  <1>10. CASE Return
    BY <1>10 DEF Return, Drained, OpError
  <1>11. CASE Rethrow
    BY <1>11 DEF Rethrow
  <1>12. CASE Reopen
    BY <1>12 DEF Reopen
  <1>13. CASE UNCHANGED call_vars
    BY <1>13 DEF call_vars
  <1> QED
    BY <1>1, <1>2, <1>3, <1>4, <1>5, <1>6, <1>7, <1>8, <1>9, <1>10, <1>11, <1>12, <1>13
       DEF CallNext

\* The invariant of the call holds in every behaviour.
THEOREM DeadlineInvariant == CallSpec => []CallInv
  BY CallInitially, CallKeeps, PTL DEF CallSpec

\* Type correctness: time does not run below the deadline.
THEOREM DeadlineTypeCorrect == CallSpec => []CallTypeOK
  <1>1. CallInv => CallTypeOK
    BY DEF CallInv
  <1> QED
    BY <1>1, DeadlineInvariant, PTL

\* No handler of a call is left to run after it.
THEOREM HandlersAreDrained == CallSpec => []NothingOutlivesTheCall
  <1>1. CallInv => NothingOutlivesTheCall
    BY DEF CallInv, IdleInv, NothingOutlivesTheCall
  <1> QED
    BY <1>1, DeadlineInvariant, PTL

\* A call that reports success ended in time, with its stream usable; one that
\* reports a timeout or throws has closed its socket.
THEOREM OutcomesAreTrue == CallSpec => []OutcomeIsTrue
  <1>1. CallInv => OutcomeIsTrue
    BY DEF CallInv, IdleInv, OutcomeIsTrue
  <1> QED
    BY <1>1, DeadlineInvariant, PTL
=============================================================================
