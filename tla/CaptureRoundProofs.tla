-------------------------- MODULE CaptureRoundProofs --------------------------
(***************************************************************************)
(* Proofs about CaptureRound, for any channels, rounds, attempts and       *)
(* times.                                                                  *)
(***************************************************************************)
EXTENDS CaptureRound, FiniteSetTheorems, TLAPS

-----------------------------------------------------------------------------
(* The channels and their order *)

LEMMA Size ==
  /\ IsFiniteSet(Channel) /\ Cardinality(Channel) \in Nat /\ Cardinality(Channel) > 0
  /\ \A S \in SUBSET Channel :
       /\ IsFiniteSet(S) /\ Cardinality(S) \in Nat /\ Cardinality(S) <= Cardinality(Channel)
  <1>1. IsFiniteSet(Channel) /\ Channel # {}
    BY CaptureAssumption
  <1>2. Cardinality(Channel) \in Nat
    BY <1>1, FS_CardinalityType
  <1>3. Cardinality(Channel) # 0
    BY <1>1, FS_EmptySet
  <1>4. ASSUME NEW S \in SUBSET Channel
        PROVE  /\ IsFiniteSet(S) /\ Cardinality(S) \in Nat
               /\ Cardinality(S) <= Cardinality(Channel)
    BY <1>1, FS_Subset, FS_CardinalityType
  <1> QED
    BY <1>1, <1>2, <1>3, <1>4

LEMMA OrderIsOneToOne ==
  \A i, j \in 1 .. Cardinality(Channel) : Order[i] = Order[j] => i = j
  <1> DEFINE N == Cardinality(Channel)
  <1>1. N \in Nat
    BY Size
  <1>2. IsFiniteSet(1 .. N) /\ Cardinality(1 .. N) = N
    BY <1>1, FS_Interval
  <1>3. Order \in Surjection(1 .. N, Channel)
    BY CaptureAssumption DEF Surjection
  <1>4. Order \in Injection(1 .. N, Channel)
    BY <1>2, <1>3, FS_SurjSameCardinalityImpliesInj
  <1> QED
    BY <1>4 DEF Injection, IsInjective

\* Every channel has its turn in a round, and only one.

LEMMA StartingIsAPermutation ==
  /\ \A i \in 1 .. Cardinality(Channel) : Starting(i) \in Channel
  /\ \A i, j \in 1 .. Cardinality(Channel) : Starting(i) = Starting(j) => i = j
  /\ \A c \in Channel : \E i \in 1 .. Cardinality(Channel) : Starting(i) = c
  <1> DEFINE N == Cardinality(Channel)
  <1>1. /\ N \in Nat /\ Order \in [1 .. N -> Channel]
        /\ \A c \in Channel : \E i \in 1 .. N : Order[i] = c
    BY Size, CaptureAssumption
  <1>2. \A i, j \in 1 .. N : Order[i] = Order[j] => i = j
    BY OrderIsOneToOne
  <1>3. \A i \in 1 .. N : N + 1 - i \in 1 .. N /\ N + 1 - (N + 1 - i) = i
    BY <1>1
  <1>4. CASE round % 2 = 0
    <2>1. \A i : Starting(i) = Order[N + 1 - i]
      BY <1>4 DEF Starting
    <2> HIDE DEF N
    <2>2. \A i, j \in 1 .. N : N + 1 - i = N + 1 - j => i = j
      BY <1>1
    <2>3. ASSUME NEW c \in Channel PROVE \E i \in 1 .. N : Starting(i) = c
      <3>1. PICK i \in 1 .. N : Order[i] = c
        BY <1>1
      <3> QED
        BY <1>3, <2>1, <3>1
    <2>4. \A i \in 1 .. N : Starting(i) \in Channel
      BY <1>1, <1>3, <2>1
    <2>5. \A i, j \in 1 .. N : Starting(i) = Starting(j) => i = j
      <3> SUFFICES ASSUME NEW i \in 1 .. N, NEW j \in 1 .. N, Starting(i) = Starting(j)
                   PROVE  i = j
        OBVIOUS
      <3>1. N + 1 - i = N + 1 - j
        BY <1>2, <1>3, <2>1
      <3> QED
        BY <2>2, <3>1
    <2> QED
      BY <2>3, <2>4, <2>5 DEF N
  <1>5. CASE ~(round % 2 = 0)
    BY <1>1, <1>2, <1>5 DEF Starting
  <1> QED
    BY <1>4, <1>5

-----------------------------------------------------------------------------
(* The barrier *)

\* An arrival, of a worker or of the supervisor for one.

LEMMA OneArrives ==
  ASSUME NEW b \in [left : Nat, expected : Nat, phase : Nat], NEW n \in Nat,
         NEW dropped \in {0, 1}, Fits(b, n), b.phase = 0
  PROVE  /\ Arrived(b, dropped) \in [left : Nat, expected : Nat, phase : Nat]
         /\ Arrived(b, dropped).expected = b.expected - dropped
         /\ Fits(Arrived(b, dropped), n + 1 - dropped)
  <1>1. b.left \in Nat /\ b.left > 0 /\ b.expected = b.left + n
    BY DEF Fits
  <1>2. CASE b.left = 1
    BY <1>1, <1>2 DEF Arrived, Fits
  <1>3. CASE b.left # 1
    BY <1>1, <1>3 DEF Arrived, Fits
  <1> QED
    BY <1>2, <1>3

\* A step that neither starts a worker nor brings one to the barrier.

LEMMA BarrierStays ==
  ASSUME BarrierInv, UNCHANGED <<main, next, start_failed, barrier, round>>,
         any_failure => any_failure', Started' = Started, AtBarrier' = AtBarrier,
         \A c \in Channel : barrier_arrived'[c] => barrier.phase = 1
  PROVE  BarrierInv'
  <1>1. \A i : Starting(i)' = Starting(i)
    BY DEF Starting
  <1> QED
    BY <1>1 DEF BarrierInv

\* Only a worker that was started arrives.

LEMMA ArrivedAreStarted ==
  ASSUME \A c \in Channel : WorkerInv(c)
  PROVE  AtBarrier \subseteq Started
  BY DEF AtBarrier, Started, WorkerInv

\* A worker goes on, from before the barrier or from behind it.
Goes(c, p) ==
  /\ pc[c] \notin {"unstarted", "barrier"}
  /\ p \notin {"unstarted", "barrier"}
  /\ pc' = [pc EXCEPT ![c] = p]
  /\ UNCHANGED <<supervisor, barrier, arrival, barrier_arrived, then>>

LEMMA GoesKeepsBarrier ==
  ASSUME TypeOK, BarrierInv, NEW c \in Channel, NEW p, Goes(c, p), any_failure => any_failure'
  PROVE  BarrierInv'
  <1>1. \A d \in Channel : pc'[d] = IF d = c THEN p ELSE pc[d]
    BY DEF Goes, TypeOK
  <1>2. Started' = Started
    BY <1>1 DEF Started, Goes
  <1>3. barrier_arrived' = barrier_arrived
    BY DEF Goes
  <1>4. AtBarrier' = AtBarrier
    BY <1>1, <1>3 DEF AtBarrier, Goes
  <1>5. \A d \in Channel : barrier_arrived'[d] => barrier.phase = 1
    BY <1>3 DEF BarrierInv
  <1>6. UNCHANGED <<main, next, start_failed, barrier, round>>
    BY DEF Goes, supervisor
  <1> QED
    BY <1>2, <1>4, <1>5, <1>6, BarrierStays

\* A worker arrives at the barrier.
Arrives(c, p) ==
  /\ pc[c] \notin {"unstarted", "barrier"}
  /\ ~barrier_arrived[c]
  /\ pc' = [pc EXCEPT ![c] = "barrier"]
  /\ then' = [then EXCEPT ![c] = p]
  /\ arrival' = [arrival EXCEPT ![c] = barrier.phase]
  /\ barrier' = Arrived(barrier, 0)
  /\ UNCHANGED <<supervisor, barrier_arrived>>

LEMMA ArrivesKeepsBarrier ==
  ASSUME TypeOK, BarrierInv, \A d \in Channel : WorkerInv(d),
         NEW c \in Channel, NEW p, Arrives(c, p), any_failure => any_failure'
  PROVE  /\ BarrierInv' /\ barrier.phase = 0
         /\ barrier' \in [left : Nat, expected : Nat, phase : Nat]
  <1> DEFINE k == Cardinality(AtBarrier)
             N == Cardinality(Channel)
  <1>1. \A d \in Channel : pc'[d] = IF d = c THEN "barrier" ELSE pc[d]
    BY DEF Arrives, TypeOK
  <1>2. barrier_arrived' = barrier_arrived
    BY DEF Arrives
  <1>3. Started' = Started
    BY <1>1 DEF Started, Arrives
  <1>4. AtBarrier' = AtBarrier \cup {c} /\ c \notin AtBarrier
    BY <1>1, <1>2 DEF AtBarrier, Arrives
  <1>5. IsFiniteSet(AtBarrier) /\ k \in Nat /\ Cardinality(Started) \in Nat /\ N \in Nat
        /\ IsFiniteSet(Started)
    BY Size DEF AtBarrier, Started
  <1>6. Cardinality(AtBarrier') = k + 1
    BY <1>4, <1>5, FS_AddElement
  <1>7. AtBarrier \subseteq Started
    BY ArrivedAreStarted
  <1>8. k + 1 <= Cardinality(Started)
    <2>1. AtBarrier' \in SUBSET Started
      BY <1>4, <1>7 DEF Started, Arrives
    <2> QED
      BY <1>5, <1>6, <2>1, FS_Subset
  <1>9. /\ barrier \in [left : Nat, expected : Nat, phase : Nat]
        /\ next \in 1 .. N + 1 /\ barrier.expected + next = Cardinality(Started) + N + 1
        /\ Fits(barrier, k)
    BY DEF TypeOK, BarrierInv
  <1> HIDE DEF k, N
  <1>10. barrier.phase = 0
    BY <1>5, <1>8, <1>9 DEF Fits
  <1>11. /\ barrier' \in [left : Nat, expected : Nat, phase : Nat]
         /\ barrier'.expected = barrier.expected
         /\ Fits(barrier', k + 1)
    <2>1. PICK b1 : b1 = Arrived(barrier, 0)
      OBVIOUS
    <2>2. /\ b1 \in [left : Nat, expected : Nat, phase : Nat]
          /\ b1.expected = barrier.expected - 0
          /\ Fits(b1, k + 1 - 0)
      BY <1>5, <1>9, <1>10, <2>1, OneArrives
    <2>3. barrier' = b1
      BY <2>1 DEF Arrives
    <2> QED
      BY <1>5, <1>9, <2>2, <2>3
  <1>12. UNCHANGED <<main, next, start_failed, round>>
    BY DEF Arrives, supervisor
  <1>13. \A i : Starting(i)' = Starting(i)
    BY <1>12 DEF Starting
  <1>14. \A d \in Channel : ~barrier_arrived'[d]
    BY <1>2, <1>10 DEF BarrierInv
  <1>15. barrier'.expected + next' = Cardinality(Started') + N + 1
    BY <1>3, <1>9, <1>11, <1>12
  <1>16. Fits(barrier', Cardinality(AtBarrier'))
    BY <1>6, <1>11
  <1> QED
    BY <1>3, <1>10, <1>11, <1>12, <1>13, <1>14, <1>15, <1>16 DEF BarrierInv, N

\* The barrier lets a worker pass.

LEMMA PassKeepsBarrier ==
  ASSUME TypeOK, BarrierInv, NEW c \in Channel, WorkerInv(c), PassBarrier(c)
  PROVE  BarrierInv' /\ barrier.phase = 1
  <1>1. then[c] \in Continuations /\ pc[c] = "barrier"
    BY DEF TypeOK, PassBarrier
  <1>2. \A d \in Channel : pc'[d] = IF d = c THEN then[c] ELSE pc[d]
    BY DEF PassBarrier, TypeOK
  <1>3. \A d \in Channel : barrier_arrived'[d] = IF d = c THEN TRUE ELSE barrier_arrived[d]
    BY DEF PassBarrier, TypeOK
  <1>4. then[c] \notin {"unstarted", "barrier"}
    BY <1>1 DEF Continuations
  <1>5. Started' = Started
    BY <1>1, <1>2, <1>4 DEF Started
  <1>6. AtBarrier' = AtBarrier
    BY <1>1, <1>2, <1>3, <1>4, Zenon DEF AtBarrier
  <1>7. barrier.phase = 1
    <2>1. arrival[c] = 0
      BY <1>1 DEF WorkerInv
    <2>2. Fits(barrier, Cardinality(AtBarrier)) /\ barrier.phase > arrival[c]
      BY DEF BarrierInv, PassBarrier
    <2> QED
      BY <2>1, <2>2 DEF Fits
  <1>8. UNCHANGED <<main, next, start_failed, barrier, round, any_failure>>
    BY DEF PassBarrier, supervisor
  <1> QED
    BY <1>5, <1>6, <1>7, <1>8, BarrierStays

-----------------------------------------------------------------------------
(* Rows *)

\* u is s with further rows.
Extension(u, s) ==
  /\ Len(s) \in Nat /\ Len(u) \in Nat /\ Len(s) <= Len(u)
  /\ DOMAIN s = 1 .. Len(s) /\ DOMAIN u = 1 .. Len(u)
  /\ \A i \in DOMAIN s : u[i] = s[i]

LEMMA RowsAppended ==
  ASSUME NEW s \in Seq(RowType), NEW t \in Seq(RowType)
  PROVE  /\ s \o t \in Seq(RowType)
         /\ Extension(s \o t, s)
         /\ \A i \in DOMAIN (s \o t) :
              i \notin DOMAIN s => \E j \in DOMAIN t : (s \o t)[i] = t[j] /\ i = Len(s) + j
  <1> DEFINE u == s \o t
  <1>1. /\ u \in Seq(RowType) /\ Len(s) \in Nat /\ Len(t) \in Nat
        /\ Len(u) = Len(s) + Len(t)
        /\ DOMAIN s = 1 .. Len(s) /\ DOMAIN t = 1 .. Len(t) /\ DOMAIN u = 1 .. Len(u)
        /\ \A i \in 1 .. Len(s) + Len(t) : u[i] = IF i <= Len(s) THEN s[i] ELSE t[i - Len(s)]
    OBVIOUS
  <1> HIDE DEF u
  <1>2. Extension(u, s)
    BY <1>1 DEF Extension
  <1>3. ASSUME NEW i \in DOMAIN u, i \notin DOMAIN s
        PROVE  \E j \in DOMAIN t : u[i] = t[j] /\ i = Len(s) + j
    <2>1. i - Len(s) \in DOMAIN t /\ u[i] = t[i - Len(s)] /\ i = Len(s) + (i - Len(s))
      BY <1>1, <1>3
    <2> QED
      BY <2>1
  <1> QED
    BY <1>1, <1>2, <1>3 DEF u

\* The rows that tell the reader nothing of a session that comes up.
QuietRow(row) ==
  /\ row.stage # "connected" /\ row.duration = 0 /\ row.generation \in 1 .. 3
  /\ row.stage = "disconnected" => ~row.ok

LEMMA QuietRowsAreReadable ==
  ASSUME NEW s, NEW u, Extension(u, s),
         \A i \in DOMAIN u : i \notin DOMAIN s => QuietRow(u[i]),
         LifecycleAccepts(s)
  PROVE  LifecycleAccepts(u)
  <1>1. ASSUME NEW i \in DOMAIN u
        PROVE  /\ u[i].generation \in 1 .. 3
               /\ u[i].stage = "connected" =>
                    u[i].ok /\ (u[i].generation > 1 <=> u[i].duration # 0)
               /\ u[i].stage # "connected" => u[i].duration = 0
               /\ u[i].stage = "disconnected" => ~u[i].ok
    <2>1. CASE i \in DOMAIN s
      BY <2>1 DEF Extension, LifecycleAccepts
    <2>2. CASE i \notin DOMAIN s
      BY <2>2 DEF QuietRow
    <2> QED
      BY <2>1, <2>2
  <1>2. ASSUME NEW i \in DOMAIN u, NEW j \in DOMAIN u, i # j,
               u[i].stage = "connected", u[j].stage = "connected"
        PROVE  u[i].round # u[j].round \/ u[i].generation # u[j].generation
    <2>1. i \in DOMAIN s /\ j \in DOMAIN s
      BY <1>2 DEF QuietRow
    <2> QED
      BY <1>2, <2>1 DEF Extension, LifecycleAccepts
  <1> QED
    BY <1>1, <1>2 DEF LifecycleAccepts

LEMMA ConnectedBeforeStays ==
  ASSUME NEW s, NEW u, Extension(u, s), NEW i \in DOMAIN s
  PROVE  ConnectedBefore(u, i) = ConnectedBefore(s, i)
  <1>1. \A k \in 1 .. i - 1 : k \in DOMAIN s /\ u[k] = s[k]
    BY DEF Extension
  <1>2. u[i] = s[i]
    BY DEF Extension
  <1> QED
    BY <1>1, <1>2 DEF ConnectedBefore

LEMMA QuietRowsAreMeasured ==
  ASSUME NEW s, NEW u, Extension(u, s),
         \A i \in DOMAIN u : i \notin DOMAIN s => QuietRow(u[i]),
         MeasuredWhole(s)
  PROVE  MeasuredWhole(u)
  <1> SUFFICES ASSUME NEW i \in DOMAIN u, u[i].stage = "connected", u[i].duration # 0
               PROVE  /\ u[i].duration \in IF ConnectedBefore(u, i) = {} THEN {1}
                                                                       ELSE ConnectedBefore(u, i)
                      /\ \A g \in ConnectedBefore(u, i) : g <= u[i].duration
    BY DEF MeasuredWhole
  <1>1. i \in DOMAIN s
    BY DEF QuietRow
  <1>2. u[i] = s[i] /\ ConnectedBefore(u, i) = ConnectedBefore(s, i)
    BY <1>1, ConnectedBeforeStays DEF Extension
  <1> QED
    BY <1>1, <1>2 DEF MeasuredWhole

\* Rows of a later round change nothing in what an earlier one has earned.

LEMMA EarnedStays ==
  ASSUME NEW s, NEW u, Extension(u, s), NEW r,
         \A i \in DOMAIN u : i \notin DOMAIN s => u[i].round # r,
         Earned(s, r)
  PROVE  Earned(u, r)
  <1> DEFINE mine(w) == {i \in DOMAIN w : w[i].round = r}
  <1>1. mine(u) = mine(s) /\ \A i \in mine(s) : u[i] = s[i]
    BY DEF Extension
  <1>2. PICK i \in mine(s) : s[i].stage = "complete" /\ s[i].ok /\ \A j \in mine(s) : j <= i
    BY DEF Earned
  <1>3. PICK k \in mine(s) :
          s[k].stage = "connected" /\ \A j \in mine(s) : s[j].stage = "disconnected" => j < k
    BY DEF Earned
  <1> HIDE DEF mine
  <1>4. \E a \in mine(u) : u[a].stage = "complete" /\ u[a].ok /\ \A j \in mine(u) : j <= a
    BY <1>1, <1>2
  <1>5. \E a \in mine(u) :
          u[a].stage = "connected" /\ \A j \in mine(u) : u[j].stage = "disconnected" => j < a
    BY <1>1, <1>3
  <1> QED
    BY <1>4, <1>5 DEF Earned, mine

LEMMA CameUpStays ==
  ASSUME NEW s, NEW u, Extension(u, s), NEW r,
         \A i \in DOMAIN u : i \notin DOMAIN s => u[i].stage # "disconnected",
         CameUp(s, r)
  PROVE  CameUp(u, r)
  <1>1. PICK i \in DOMAIN s :
          /\ s[i].round = r /\ s[i].stage = "connected"
          /\ \A j \in DOMAIN s : s[j].round = r /\ s[j].stage = "disconnected" => j < i
    BY DEF CameUp
  <1>2. i \in DOMAIN u /\ u[i] = s[i]
    BY DEF Extension
  <1>3. \A j \in DOMAIN u : u[j].round = r /\ u[j].stage = "disconnected" => j < i
    BY <1>1 DEF Extension
  <1> QED
    BY <1>1, <1>2, <1>3 DEF CameUp

\* What the writing of quiet rows leaves as it is.
Writes(c, t) ==
  /\ t \in Seq(RowType)
  /\ \A j \in DOMAIN t : t[j].round = round /\ QuietRow(t[j])
  /\ sessions' = [sessions EXCEPT ![c] = @ \o t]
  /\ round' = round

LEMMA WritesKeepsRows ==
  ASSUME TypeOK, SessionsAreReadable, OutageIsMeasuredWhole,
         \A d \in Channel : \A j \in DOMAIN sessions[d] : sessions[d][j].round <= round,
         NEW c \in Channel, NEW t, Writes(c, t)
  PROVE  /\ sessions' \in [Channel -> Seq(RowType)]
         /\ SessionsAreReadable' /\ OutageIsMeasuredWhole'
         /\ \A d \in Channel : \A j \in DOMAIN sessions'[d] : sessions'[d][j].round <= round
         /\ \A d \in Channel : \A g : Up(d, g)' <=> Up(d, g)
         /\ \A d \in Channel : \A r \in 1 .. round - 1 :
              Earned(sessions[d], r) => Earned(sessions'[d], r)
         /\ (\A j \in DOMAIN t : t[j].stage # "disconnected") =>
              \A d \in Channel : CameUp(sessions[d], round) => CameUp(sessions'[d], round)
  <1>1. \A d \in Channel : sessions'[d] = IF d = c THEN sessions[c] \o t ELSE sessions[d]
    BY DEF TypeOK, Writes
  <1>2. sessions[c] \in Seq(RowType) /\ t \in Seq(RowType) /\ round \in Nat
    BY CaptureAssumption DEF TypeOK, Writes
  <1> DEFINE s == sessions[c]
             u == s \o t
  <1>3. /\ u \in Seq(RowType) /\ Extension(u, s)
        /\ \A i \in DOMAIN u : i \notin DOMAIN s => \E j \in DOMAIN t : u[i] = t[j]
    BY <1>2, RowsAppended
  <1> HIDE DEF u, s
  <1>4. \A i \in DOMAIN u : i \notin DOMAIN s => u[i].round = round /\ QuietRow(u[i])
    BY <1>3 DEF Writes
  <1>5. \A d \in Channel : sessions'[d] = IF d = c THEN u ELSE sessions[d]
    BY <1>1 DEF u, s
  <1>6. sessions' \in [Channel -> Seq(RowType)]
    BY <1>3, <1>5 DEF TypeOK, Writes
  <1>7. SessionsAreReadable'
    <2>1. LifecycleAccepts(u)
      BY <1>3, <1>4, QuietRowsAreReadable DEF SessionsAreReadable, s
    <2> QED
      BY <1>5, <2>1 DEF SessionsAreReadable
  <1>8. OutageIsMeasuredWhole'
    <2>1. MeasuredWhole(u)
      BY <1>3, <1>4, QuietRowsAreMeasured DEF OutageIsMeasuredWhole, s
    <2> QED
      BY <1>5, <2>1 DEF OutageIsMeasuredWhole
  <1>9. \A j \in DOMAIN u : u[j].round <= round
    <2> SUFFICES ASSUME NEW j \in DOMAIN u PROVE u[j].round <= round
      OBVIOUS
    <2>1. CASE j \in DOMAIN s
      BY <1>3, <2>1 DEF Extension, s
    <2>2. CASE j \notin DOMAIN s
      BY <1>2, <1>4, <2>2
    <2> QED
      BY <2>1, <2>2
  <1>10. \A d \in Channel : \A g : Up(d, g)' <=> Up(d, g)
    <2> SUFFICES ASSUME NEW d \in Channel, NEW g PROVE Up(d, g)' <=> Up(d, g)
      OBVIOUS
    <2>1. CASE d = c
      <3>1. ASSUME NEW j \in DOMAIN u, u[j].stage = "connected"
            PROVE  j \in DOMAIN s /\ u[j] = s[j]
        BY <1>3, <1>4, <3>1 DEF QuietRow, Extension
      <3>2. \A j \in DOMAIN s : j \in DOMAIN u /\ u[j] = s[j]
        BY <1>3 DEF Extension
      <3>3. sessions'[d] = u /\ sessions[d] = s /\ round' = round
        BY <1>5, <2>1 DEF s, Writes
      <3> QED
        BY <3>1, <3>2, <3>3 DEF Up
    <2>2. CASE d # c
      BY <1>5, <2>2 DEF Up, Writes
    <2> QED
      BY <2>1, <2>2
  <1>11. ASSUME NEW r \in 1 .. round - 1, Earned(s, r) PROVE Earned(u, r)
    <2>1. \A i \in DOMAIN u : i \notin DOMAIN s => u[i].round # r
      BY <1>2, <1>4
    <2> QED
      BY <1>3, <1>11, <2>1, EarnedStays
  <1>12. ASSUME \A j \in DOMAIN t : t[j].stage # "disconnected", CameUp(s, round)
         PROVE  CameUp(u, round)
    <2>1. \A i \in DOMAIN u : i \notin DOMAIN s => u[i].stage # "disconnected"
      BY <1>3, <1>12
    <2> QED
      BY <1>3, <1>12, <2>1, CameUpStays
  <1> QED
    BY <1>5, <1>6, <1>7, <1>8, <1>9, <1>10, <1>11, <1>12 DEF s

LEMMA WritesNothing ==
  ASSUME TypeOK, NEW c \in Channel, UNCHANGED <<sessions, round>>
  PROVE  Writes(c, << >>)
  <1>1. sessions[c] \in Seq(RowType)
    BY DEF TypeOK
  <1>2. sessions[c] \o << >> = sessions[c] /\ << >> \in Seq(RowType)
    BY <1>1
  <1>3. [sessions EXCEPT ![c] = @ \o << >>] = sessions
    BY <1>2 DEF TypeOK
  <1> QED
    BY <1>2, <1>3 DEF Writes

LEMMA WritesOne ==
  ASSUME TypeOK, NEW c \in Channel, UNCHANGED round,
         NEW stage \in {"error", "reconnect_wait", "complete"}, NEW ok \in BOOLEAN,
         Record(c, << Plain(c, stage, ok) >>)
  PROVE  /\ Writes(c, << Plain(c, stage, ok) >>)
         /\ \A j \in DOMAIN << Plain(c, stage, ok) >> :
              << Plain(c, stage, ok) >>[j].stage # "disconnected"
  <1>1. /\ Plain(c, stage, ok) \in RowType /\ QuietRow(Plain(c, stage, ok))
        /\ Plain(c, stage, ok).round = round
        /\ Plain(c, stage, ok).stage # "disconnected"
    <2>1. round \in 1 .. Rounds /\ attempt[c] \in 1 .. Attempts /\ Attempts \in 1 .. 3
      BY CaptureAssumption DEF TypeOK
    <2>2. Plain(c, stage, ok) \in RowType
      BY <2>1 DEF Plain, Row, RowType
    <2> QED
      BY <2>1, <2>2 DEF Plain, Row, QuietRow
  <1> HIDE DEF Plain
  <1> DEFINE t == << Plain(c, stage, ok) >>
  <1>2. t \in Seq(RowType) /\ DOMAIN t = {1} /\ t[1] = Plain(c, stage, ok)
    BY <1>1
  <1>3. sessions' = [sessions EXCEPT ![c] = @ \o t]
    BY DEF Record
  <1> HIDE DEF t
  <1> QED
    BY <1>1, <1>2, <1>3 DEF Writes, t

-----------------------------------------------------------------------------
(* Steps of a worker *)

\* The steps that say nothing new of the worker's session.
Quietly(c, t) ==
  /\ Writes(c, t)
  /\ \A j \in DOMAIN t : t[j].stage # "disconnected"
  /\ UNCHANGED <<attempt, reconnect_started>>
  /\ round_started' \in BOOLEAN /\ remaining' \in Nat
  /\ any_failure' \in BOOLEAN /\ (any_failure => any_failure')
  /\ left' \in [Channel -> Nat]

Running == {"top", "reading", "frame", "ponging"}

LEMMA QuietStep ==
  ASSUME IInv, NEW c \in Channel, NEW p, NEW t, Quietly(c, t),
         pc[c] \notin {"unstarted", "done"}, pc' = [pc EXCEPT ![c] = p],
         UNCHANGED supervisor,
         \A d \in Channel \ {c} :
           /\ arrival'[d] = arrival[d] /\ barrier_arrived'[d] = barrier_arrived[d]
           /\ frames_read'[d] = frames_read[d] /\ then'[d] = then[d],
         p = "barrier" /\ then'[c] = "done" => any_failure',
         TypeOK', BarrierInv', WorkerInv(c)',
         p \in BeforeUp => pc[c] \in BeforeUp,
         p \in Running \/ frames_read'[c] => pc[c] \in Running \/ frames_read[c]
                                               \/ \E g \in 1 .. Attempts : Up(c, g),
         ~any_failure' /\ p = "done" => Earned(sessions'[c], round) /\ frames_read'[c]
  PROVE  IInv'
  <1>1. /\ TypeOK /\ SessionsAreReadable /\ OutageIsMeasuredWhole /\ StatusInv
        /\ \A d \in Channel : WorkerInv(d) /\ RowsInv(d)
    BY DEF IInv
  <1>2. /\ Writes(c, t) /\ attempt' = attempt /\ reconnect_started' = reconnect_started
        /\ round' = round /\ main' = main /\ exit' = exit
    BY DEF Quietly, Writes, supervisor
  <1>3. /\ SessionsAreReadable' /\ OutageIsMeasuredWhole'
        /\ \A d \in Channel : \A j \in DOMAIN sessions'[d] : sessions'[d][j].round <= round
        /\ \A d \in Channel : \A g : Up(d, g)' <=> Up(d, g)
        /\ \A d \in Channel : \A r \in 1 .. round - 1 :
             Earned(sessions[d], r) => Earned(sessions'[d], r)
        /\ \A d \in Channel : CameUp(sessions[d], round) => CameUp(sessions'[d], round)
    BY <1>1, <1>2, WritesKeepsRows DEF RowsInv, Quietly
  <1>4. \A d \in Channel : pc'[d] = IF d = c THEN p ELSE pc[d]
    BY <1>1 DEF TypeOK
  <1>5. ASSUME NEW d \in Channel PROVE WorkerInv(d)'
    <2>1. CASE d = c
      BY <2>1
    <2>2. CASE d # c
      <3>1. pc'[d] = pc[d] /\ arrival'[d] = arrival[d] /\ frames_read'[d] = frames_read[d]
            /\ barrier_arrived'[d] = barrier_arrived[d]
        BY <1>4, <2>2
      <3> QED
        BY <1>1, <1>2, <3>1 DEF WorkerInv
    <2> QED
      BY <2>1, <2>2
  <1>6. ASSUME NEW d \in Channel PROVE RowsInv(d)'
    <2>1. \A h : OutageBegan(d, h)' <=> OutageBegan(d, h)
      BY <1>3 DEF OutageBegan
    <2>2. pc'[d] \in BeforeUp => pc[d] \in BeforeUp
      BY <1>4
    <2>3. \A a : Up(d, a)' <=> Up(d, a)
      BY <1>3
    <2>4. Up(d, attempt[d])' <=> Up(d, attempt[d])
      BY <1>2, <2>3 DEF Up
    <2>5. OutageBegan(d, reconnect_started[d])' <=> OutageBegan(d, reconnect_started[d])
      <3>1. Up(d, reconnect_started[d])' <=> Up(d, reconnect_started[d])
        BY <1>2, <2>3 DEF Up
      <3> QED
        BY <1>2, <2>3, <3>1 DEF OutageBegan
    <2> QED
      BY <1>1, <1>2, <1>3, <2>2, <2>3, <2>4, <2>5 DEF RowsInv
  <1>7. StatusInv'
    <2>1. ASSUME NEW d \in Channel, pc'[d] \in Running \/ frames_read'[d]
          PROVE  \E g \in 1 .. Attempts : Up(d, g)'
      <3>1. \E g \in 1 .. Attempts : Up(d, g)
        <4>1. CASE d = c
          BY <1>1, <1>4, <2>1, <4>1 DEF StatusInv, ChannelStatus, Running
        <4>2. CASE d # c
          BY <1>1, <1>4, <2>1, <4>2 DEF StatusInv, ChannelStatus, Running
        <4> QED
          BY <4>1, <4>2
      <3> QED
        BY <1>3, <3>1
    <2>2. ASSUME NEW d \in Channel, reconnect_started'[d] = 0, \E g \in 1 .. Attempts : Up(d, g)'
          PROVE  CameUp(sessions'[d], round')
      <3>1. \E g \in 1 .. Attempts : Up(d, g)
        BY <1>3, <2>2
      <3> QED
        BY <1>1, <1>2, <1>3, <2>2, <3>1 DEF StatusInv, ChannelStatus
    <2>3. ASSUME ~any_failure', NEW d \in Channel
          PROVE  /\ \A r \in 1 .. round' - 1 : Earned(sessions'[d], r)
                 /\ pc'[d] = "done" => Earned(sessions'[d], round') /\ frames_read'[d]
      <3>1. ~any_failure
        BY <2>3 DEF Quietly
      <3>2. \A r \in 1 .. round' - 1 : Earned(sessions'[d], r)
        BY <1>1, <1>2, <1>3, <3>1 DEF StatusInv, ChannelStatus
      <3>3. CASE d = c
        BY <1>2, <1>4, <2>3, <3>2, <3>3
      <3>4. CASE d # c
        <4>1. sessions'[d] = sessions[d]
          BY <1>1, <3>4 DEF Quietly, Writes, TypeOK
        <4> QED
          BY <1>1, <1>2, <1>4, <3>1, <3>2, <3>4, <4>1 DEF StatusInv, ChannelStatus
      <3> QED
        BY <3>3, <3>4
    <2>4. exit' # "0"
      BY <1>1, <1>2 DEF StatusInv, ChannelStatus
    <2>5. ASSUME NEW d \in Channel, pc'[d] = "barrier", then'[d] = "done"
          PROVE  any_failure'
      <3>1. CASE d = c
        BY <1>4, <2>5, <3>1
      <3>2. CASE d # c
        BY <1>1, <1>4, <2>5, <3>2 DEF StatusInv, ChannelStatus, Quietly
      <3> QED
        BY <3>1, <3>2
    <2>6. main' # "exited"
      BY <1>1, <1>2 DEF StatusInv
    <2> QED
      BY <2>1, <2>2, <2>3, <2>4, <2>5, <2>6 DEF StatusInv, ChannelStatus, Running
  <1> QED
    BY <1>3, <1>5, <1>6, <1>7 DEF IInv
\* A worker goes on quietly.

LEMMA GoesQuietly ==
  ASSUME IInv, NEW c \in Channel, NEW p \in Connecting \cup Passed, NEW t,
         Quietly(c, t), Goes(c, p), pc[c] # "done",
         frames_read' \in [Channel -> BOOLEAN],
         \A d \in Channel \ {c} : frames_read'[d] = frames_read[d],
         frames_read'[c] => frames_read[c] \/ pc[c] \in Running,
         p \in Passed => barrier_arrived[c],
         p \in BeforeUp => pc[c] \in BeforeUp,
         p \in Running => pc[c] \in Running \/ \E g \in 1 .. Attempts : Up(c, g),
         p \in {"dropped", "sleeping"} => reconnect_started[c] # 0,
         p = "sleeping" => attempt[c] < Attempts,
         ~any_failure' /\ p = "done" => Earned(sessions'[c], round) /\ frames_read'[c]
  PROVE  IInv'
  <1>1. TypeOK /\ BarrierInv /\ WorkerInv(c) /\ SessionsAreReadable /\ OutageIsMeasuredWhole
        /\ \A d \in Channel : \A j \in DOMAIN sessions[d] : sessions[d][j].round <= round
    BY DEF IInv, RowsInv
  <1>2. BarrierInv'
    BY <1>1, GoesKeepsBarrier DEF Quietly
  <1>3. /\ pc' = [pc EXCEPT ![c] = p] /\ pc[c] \notin {"unstarted", "barrier"}
        /\ UNCHANGED <<supervisor, barrier, arrival, barrier_arrived, then>>
        /\ UNCHANGED <<attempt, reconnect_started>>
        /\ p \notin {"unstarted", "barrier"}
    BY DEF Goes, Quietly
  <1>4. pc'[c] = p
    BY <1>1, <1>3 DEF TypeOK
  <1>5. TypeOK'
    <2>1. sessions' \in [Channel -> Seq(RowType)]
      BY <1>1, WritesKeepsRows DEF Quietly
    <2>2. pc' \in [Channel -> {"unstarted", "barrier"} \cup Connecting \cup Passed]
      BY <1>1, <1>3 DEF TypeOK
    <2> QED
      BY <1>1, <1>3, <2>1, <2>2 DEF TypeOK, supervisor, Quietly
  <1>6. WorkerInv(c)'
    <2>1. Running \subseteq Passed
      BY DEF Running, Passed, Capturing
    <2>2. /\ attempt'[c] = attempt[c] /\ reconnect_started'[c] = reconnect_started[c]
          /\ barrier_arrived'[c] = barrier_arrived[c]
      BY <1>3
    <2>3. frames_read'[c] => frames_read[c] \/ barrier_arrived[c]
      BY <1>1, <2>1 DEF WorkerInv
    <2>4. p = "sleeping" => attempt'[c] < Attempts
      BY <2>2
    <2> QED
      BY <1>1, <1>3, <1>4, <2>2, <2>3, <2>4 DEF WorkerInv
  <1>7. \A d \in Channel \ {c} :
          /\ arrival'[d] = arrival[d] /\ barrier_arrived'[d] = barrier_arrived[d]
          /\ then'[d] = then[d]
    BY <1>3
  <1>8. p # "barrier"
    BY <1>3
  <1> QED
    BY <1>2, <1>3, <1>5, <1>6, <1>7, <1>8, QuietStep

\* A worker arrives at the barrier.

LEMMA ArrivesQuietly ==
  ASSUME IInv, NEW c \in Channel, NEW p \in Continuations, NEW t,
         Quietly(c, t), Arrives(c, p), pc[c] # "done", frames_read' = frames_read,
         p = "done" => any_failure'
  PROVE  IInv'
  <1>1. TypeOK /\ BarrierInv /\ WorkerInv(c) /\ SessionsAreReadable /\ OutageIsMeasuredWhole
        /\ (\A d \in Channel : WorkerInv(d))
        /\ \A d \in Channel : \A j \in DOMAIN sessions[d] : sessions[d][j].round <= round
    BY DEF IInv, RowsInv
  <1>2. /\ BarrierInv' /\ barrier.phase = 0
        /\ barrier' \in [left : Nat, expected : Nat, phase : Nat]
    BY <1>1, ArrivesKeepsBarrier DEF Quietly
  <1>3. /\ pc' = [pc EXCEPT ![c] = "barrier"] /\ pc[c] \notin {"unstarted", "barrier"}
        /\ then' = [then EXCEPT ![c] = p] /\ arrival' = [arrival EXCEPT ![c] = barrier.phase]
        /\ UNCHANGED <<supervisor, barrier_arrived>> /\ ~barrier_arrived[c]
        /\ UNCHANGED <<attempt, reconnect_started>>
    BY DEF Arrives, Quietly
  <1>4. pc'[c] = "barrier" /\ arrival'[c] = 0
    BY <1>1, <1>2, <1>3 DEF TypeOK
  <1>5. TypeOK'
    <2>1. sessions' \in [Channel -> Seq(RowType)]
      BY <1>1, WritesKeepsRows DEF Quietly
    <2>2. /\ pc' \in [Channel -> {"unstarted", "barrier"} \cup Connecting \cup Passed]
          /\ then' \in [Channel -> Continuations] /\ arrival' \in [Channel -> Nat]
      BY <1>1, <1>2, <1>3 DEF TypeOK
    <2> QED
      BY <1>1, <1>2, <1>3, <2>1, <2>2 DEF TypeOK, supervisor, Quietly
  <1>6. WorkerInv(c)'
    <2>1. /\ attempt'[c] = 1 /\ reconnect_started'[c] = 0 /\ ~frames_read'[c]
          /\ ~barrier_arrived'[c]
      BY <1>1, <1>3 DEF WorkerInv
    <2>2. "barrier" \notin Passed
      BY DEF Passed, Capturing, Continuations
    <2> QED
      BY <1>4, <2>1, <2>2 DEF WorkerInv
  <1>7. \A d \in Channel \ {c} :
          /\ arrival'[d] = arrival[d] /\ barrier_arrived'[d] = barrier_arrived[d]
          /\ frames_read'[d] = frames_read[d] /\ then'[d] = then[d]
    BY <1>1, <1>3 DEF TypeOK
  <1>8. pc[c] \in BeforeUp /\ ~frames_read'[c]
    <2>1. pc[c] \in Connecting
      BY <1>1, <1>3 DEF WorkerInv, TypeOK
    <2> QED
      BY <1>1, <1>3, <2>1 DEF BeforeUp, WorkerInv
  <1>9. "barrier" \notin Running
    BY DEF Running
  <1>11. then'[c] = "done" => any_failure'
    BY <1>1, <1>3 DEF TypeOK
  <1> DEFINE q == "barrier"
  <1>10. pc' = [pc EXCEPT ![c] = q] /\ q \notin Running /\ q # "done"
    BY <1>3, <1>9
  <1> HIDE DEF q
  <1> QED
    BY <1>2, <1>3, <1>5, <1>6, <1>7, <1>8, <1>10, <1>11, QuietStep

\* synchronize_start is one or the other.

LEMMA SynchronizeSplits ==
  ASSUME TypeOK, NEW c \in Channel, NEW k \in Continuations, Synchronize(c, k),
         pc[c] \notin {"unstarted", "barrier"}, UNCHANGED supervisor
  PROVE  /\ left' \in [Channel -> Nat]
         /\ UNCHANGED <<round_started, remaining>>
         /\ \/ barrier_arrived[c] /\ Goes(c, k)
            \/ Arrives(c, k)
  <1>1. left' \in [Channel -> Nat]
    BY DEF Synchronize, TypeOK
  <1>2. k \notin {"unstarted", "barrier"}
    BY DEF Continuations
  <1>3. CASE barrier_arrived[c]
    BY <1>1, <1>2, <1>3 DEF Synchronize, Goes, meeting
  <1>4. CASE ~barrier_arrived[c]
    BY <1>1, <1>4 DEF Synchronize, Arrives
  <1> QED
    BY <1>3, <1>4

LEMMA SynchronizesQuietly ==
  ASSUME IInv, NEW c \in Channel, NEW k \in Continuations, NEW t, Synchronize(c, k),
         pc[c] \notin {"unstarted", "barrier", "done"}, UNCHANGED supervisor,
         Writes(c, t), \A j \in DOMAIN t : t[j].stage # "disconnected",
         UNCHANGED <<attempt, reconnect_started, frames_read>>,
         any_failure' \in BOOLEAN, any_failure => any_failure',
         k = "done" => any_failure',
         k = "open" => pc[c] \in BeforeUp
  PROVE  IInv'
  <1>1. TypeOK
    BY DEF IInv
  <1>2. /\ left' \in [Channel -> Nat]
        /\ UNCHANGED <<round_started, remaining>>
        /\ \/ barrier_arrived[c] /\ Goes(c, k)
           \/ Arrives(c, k)
    BY <1>1, SynchronizeSplits
  <1>3. Quietly(c, t)
    BY <1>1, <1>2 DEF Quietly, TypeOK
  <1>4. CASE barrier_arrived[c] /\ Goes(c, k)
    <2>1. /\ k \in Passed /\ k \notin Running /\ k \notin {"dropped", "sleeping"}
          /\ k \in BeforeUp => k = "open"
      BY DEF Continuations, Passed, Running, BeforeUp, Connecting
    <2>2. /\ frames_read' \in [Channel -> BOOLEAN]
          /\ \A d \in Channel : frames_read'[d] = frames_read[d]
      BY <1>1 DEF TypeOK
    <2>3. k # "sleeping"
      BY <2>1
    <2> QED
      BY <1>3, <1>4, <2>1, <2>2, <2>3, GoesQuietly
  <1>5. CASE Arrives(c, k)
    BY <1>3, <1>5, ArrivesQuietly
  <1> QED
    BY <1>2, <1>4, <1>5

LEMMA PassBarrierKeeps ==
  ASSUME IInv, NEW c \in Channel, PassBarrier(c)
  PROVE  IInv'
  <1>1. TypeOK /\ BarrierInv /\ WorkerInv(c) /\ StatusInv
    BY DEF IInv
  <1>2. BarrierInv'
    BY <1>1, PassKeepsBarrier
  <1>3. PICK p : p = then[c]
    OBVIOUS
  <1>4. /\ p \in Continuations /\ pc[c] = "barrier" /\ pc' = [pc EXCEPT ![c] = p]
        /\ barrier_arrived' = [barrier_arrived EXCEPT ![c] = TRUE]
        /\ then' = [then EXCEPT ![c] = "done"]
        /\ UNCHANGED <<supervisor, barrier, any_failure, attempt, arrival, left,
                       reconnect_started, frames_read, sessions>>
    BY <1>1, <1>3 DEF PassBarrier, TypeOK
  <1>5. round_started' \in BOOLEAN /\ remaining' \in Nat
    BY <1>1, CaptureAssumption DEF PassBarrier, TypeOK
  <1>6. TypeOK'
    <2>1. /\ pc' \in [Channel -> {"unstarted", "barrier"} \cup Connecting \cup Passed]
          /\ then' \in [Channel -> Continuations]
          /\ barrier_arrived' \in [Channel -> BOOLEAN]
      BY <1>1, <1>4 DEF TypeOK, Passed, Continuations
    <2> QED
      BY <1>1, <1>4, <1>5, <2>1 DEF TypeOK, supervisor
  <1>7. p \notin {"unstarted", "barrier", "dropped", "sleeping"} /\ p \notin Running
        /\ "barrier" \in BeforeUp
    BY <1>4 DEF Continuations, Running, BeforeUp
  <1>8. WorkerInv(c)'
    <2>1. pc'[c] = p /\ barrier_arrived'[c] = TRUE
      BY <1>1, <1>4 DEF TypeOK
    <2>2. attempt'[c] = 1 /\ reconnect_started'[c] = 0
      BY <1>1, <1>4 DEF WorkerInv
    <2> QED
      BY <1>7, <2>1, <2>2 DEF WorkerInv
  <1>9. \A d \in Channel \ {c} :
          /\ arrival'[d] = arrival[d] /\ barrier_arrived'[d] = barrier_arrived[d]
          /\ frames_read'[d] = frames_read[d] /\ then'[d] = then[d]
    BY <1>1, <1>4 DEF TypeOK
  <1>10. p = "done" => any_failure'
    BY <1>1, <1>3, <1>4 DEF StatusInv, ChannelStatus
  <1>11. Quietly(c, << >>)
    BY <1>1, <1>4, <1>5, WritesNothing DEF Quietly, supervisor, TypeOK
  <1> QED
    BY <1>2, <1>4, <1>6, <1>7, <1>8, <1>9, <1>10, <1>11, QuietStep

-----------------------------------------------------------------------------
(* Steps that only move a worker *)

LEMMA MovesQuietly ==
  ASSUME IInv, NEW c \in Channel, NEW p \in Connecting \cup Passed,
         Goto(c, p), pc[c] \notin {"unstarted", "barrier", "done"}, p # "done",
         UNCHANGED <<supervisor, barrier, round_started, remaining, attempt, arrival,
                     barrier_arrived, then, reconnect_started, sessions>>,
         any_failure' = any_failure, left' \in [Channel -> Nat],
         frames_read' \in [Channel -> BOOLEAN],
         \A d \in Channel \ {c} : frames_read'[d] = frames_read[d],
         frames_read'[c] => frames_read[c] \/ pc[c] \in Running,
         p \in Passed => pc[c] \in Passed \/ barrier_arrived[c],
         p \in BeforeUp => pc[c] \in BeforeUp,
         p \in Running => pc[c] \in Running,
         p \notin {"dropped", "sleeping"}
  PROVE  IInv'
  <1>1. TypeOK /\ WorkerInv(c)
    BY DEF IInv
  <1>2. Quietly(c, << >>)
    <2>1. UNCHANGED <<sessions, round>>
      BY DEF supervisor
    <2>2. Writes(c, << >>)
      BY <1>1, <2>1, WritesNothing
    <2> QED
      BY <1>1, <2>2 DEF Quietly, supervisor, TypeOK
  <1>3. p \notin {"unstarted", "barrier"}
    BY DEF Connecting, Passed, Capturing, Continuations
  <1>4. Goes(c, p)
    BY <1>3 DEF Goes, Goto
  <1>5. p \in Passed => barrier_arrived[c]
    BY <1>1 DEF WorkerInv
  <1>6. p # "sleeping"
    OBVIOUS
  <1> QED
    BY <1>2, <1>4, <1>5, <1>6, GoesQuietly

LEMMA SmallerIsNat ==
  ASSUME NEW m \in Nat, NEW n \in Nat
  PROVE  Smaller(m, n) \in Nat
  BY DEF Smaller

LEMMA BlockIsTyped ==
  ASSUME TypeOK, NEW c \in Channel, NEW where, NEW time \in Nat, Block(c, where, time)
  PROVE  left' \in [Channel -> Nat]
  BY DEF TypeOK, Block

LEMMA TimesAreTyped ==
  ASSUME TypeOK, NEW c \in Channel
  PROVE  /\ Smaller(remaining, Timeout) \in Nat /\ Smaller(remaining, ReadLimit) \in Nat
         /\ ConnectTime(c) \in Nat
  <1>1. remaining \in Nat /\ Timeout \in Nat /\ ReadLimit \in Nat
    BY CaptureAssumption DEF TypeOK
  <1>2. Smaller(remaining, Timeout) \in Nat /\ Smaller(remaining, ReadLimit) \in Nat
    BY <1>1, SmallerIsNat
  <1> QED
    BY <1>1, <1>2 DEF ConnectTime

LEMMA BeginAttemptKeeps ==
  ASSUME IInv, NEW c \in Channel, BeginAttempt(c)
  PROVE  IInv'
  <1>1. TypeOK
    BY DEF IInv
  <1>2. /\ pc[c] = "attempt" /\ left' \in [Channel -> Nat] /\ frames_read' = frames_read
        /\ frames_read' \in [Channel -> BOOLEAN]
    <2>1. left' \in [Channel -> Nat]
      BY <1>1, BlockIsTyped, TimesAreTyped DEF BeginAttempt, TypeOK
    <2> QED
      BY <1>1, <2>1 DEF BeginAttempt, TypeOK
  <1>3. UNCHANGED <<supervisor, barrier, round_started, remaining, attempt, arrival, any_failure,
                    barrier_arrived, then, reconnect_started, sessions>>
    BY DEF BeginAttempt, common
  <1>4. PICK p \in {"deadline", "setup"} :
          Goto(c, p) /\ (p = "deadline" => barrier_arrived[c])
    BY DEF BeginAttempt, Block
  <1>5. /\ p \in Connecting \cup Passed
        /\ p \in Passed => p = "deadline"
        /\ pc[c] \notin {"unstarted", "barrier", "done"}
        /\ p \in BeforeUp => pc[c] \in BeforeUp
        /\ p \notin Running /\ p \notin {"dropped", "sleeping", "done"}
    BY <1>2 DEF Connecting, Passed, BeforeUp, Running, Capturing, Continuations
  <1> QED
    BY <1>2, <1>3, <1>4, <1>5, MovesQuietly

LEMMA SetupSucceedsKeeps ==
  ASSUME IInv, NEW c \in Channel, SetupSucceeds(c)
  PROVE  IInv'
  <1>1. TypeOK
    BY DEF IInv
  <1>2. PICK p \in {"handshake"} : Goto(c, p)
    BY DEF SetupSucceeds
  <1>3. /\ pc[c] = "setup" /\ left' \in [Channel -> Nat] /\ frames_read' \in [Channel -> BOOLEAN]
        /\ frames_read' = frames_read
        /\ UNCHANGED <<supervisor, barrier, round_started, remaining, attempt, arrival,
                       any_failure, barrier_arrived, then, reconnect_started, sessions>>
    BY <1>1 DEF SetupSucceeds, TypeOK, common
  <1>4. /\ p \in Connecting \cup Passed /\ p \notin Passed
        /\ p \in BeforeUp => pc[c] \in BeforeUp
        /\ p \notin Running /\ p \notin {"dropped", "sleeping", "done"}
    BY <1>3 DEF Connecting, Passed, BeforeUp, Running, Capturing, Continuations
  <1> QED
    BY <1>2, <1>3, <1>4, MovesQuietly

LEMMA BeginSubscribeKeeps ==
  ASSUME IInv, NEW c \in Channel, BeginSubscribe(c)
  PROVE  IInv'
  <1>1. TypeOK
    BY DEF IInv
  <1>2. PICK p \in {"subscribing", "connected"} : Goto(c, p)
    BY DEF BeginSubscribe, Block
  <1>3. /\ pc[c] = "open" /\ left' \in [Channel -> Nat] /\ frames_read' \in [Channel -> BOOLEAN]
        /\ frames_read' = frames_read
    <2>1. left' \in [Channel -> Nat]
      BY <1>1, BlockIsTyped, TimesAreTyped DEF BeginSubscribe, TypeOK
    <2> QED
      BY <1>1, <2>1 DEF BeginSubscribe, TypeOK
  <1>4. UNCHANGED <<supervisor, barrier, round_started, remaining, attempt, arrival,
                    any_failure, barrier_arrived, then, reconnect_started, sessions>>
    BY DEF BeginSubscribe, common
  <1>5. /\ p \in Passed /\ pc[c] \in Passed /\ pc[c] \in BeforeUp
        /\ p \notin Running /\ p \notin {"dropped", "sleeping", "done"}
    BY <1>3 DEF Connecting, Passed, BeforeUp, Running, Capturing, Continuations
  <1> QED
    BY <1>2, <1>3, <1>4, <1>5, MovesQuietly

LEMMA SessionOperationKeeps ==
  ASSUME IInv, NEW c \in Channel, NEW where \in {"subscribing"} \cup Running,
         NEW after \in {"connected"} \cup Running, where = "subscribing" <=> after = "connected",
         SessionOperationEnds(c, where, after), UNCHANGED frames_read
  PROVE  IInv'
  <1>1. TypeOK
    BY DEF IInv
  <1>2. PICK p \in {after, "deadline", "drops", "fails"} : Goto(c, p)
    BY DEF SessionOperationEnds, Outcomes
  <1>3. /\ pc[c] = where /\ left' \in [Channel -> Nat] /\ frames_read' \in [Channel -> BOOLEAN]
        /\ frames_read' = frames_read
    BY <1>1 DEF SessionOperationEnds, TypeOK
  <1>4. UNCHANGED <<supervisor, barrier, round_started, remaining, attempt, arrival,
                    any_failure, barrier_arrived, then, reconnect_started, sessions>>
    BY DEF SessionOperationEnds, common
  <1>5. /\ p \in Passed /\ pc[c] \in Passed /\ pc[c] \notin {"unstarted", "barrier", "done"}
        /\ p \in BeforeUp => pc[c] \in BeforeUp
        /\ p \in Running => pc[c] \in Running
        /\ p \notin {"dropped", "sleeping", "done"}
    BY <1>3 DEF Connecting, Passed, BeforeUp, Running, Capturing, Continuations
  <1> QED
    BY <1>2, <1>3, <1>4, <1>5, MovesQuietly

LEMMA BeginReadKeeps ==
  ASSUME IInv, NEW c \in Channel, BeginRead(c)
  PROVE  IInv'
  <1>1. TypeOK
    BY DEF IInv
  <1>2. PICK p \in {"reading", "deadline"} : Goto(c, p)
    BY DEF BeginRead, Block
  <1>3. /\ pc[c] = "top" /\ left' \in [Channel -> Nat] /\ frames_read' \in [Channel -> BOOLEAN]
        /\ frames_read' = frames_read
    <2>1. left' \in [Channel -> Nat]
      BY <1>1, BlockIsTyped, TimesAreTyped DEF BeginRead, TypeOK
    <2> QED
      BY <1>1, <2>1 DEF BeginRead, TypeOK
  <1>4. UNCHANGED <<supervisor, barrier, round_started, remaining, attempt, arrival,
                    any_failure, barrier_arrived, then, reconnect_started, sessions>>
    BY DEF BeginRead, common
  <1>5. /\ p \in Passed /\ pc[c] \in Passed /\ pc[c] \in Running
        /\ p \notin BeforeUp /\ p \notin {"dropped", "sleeping", "done"}
    BY <1>3 DEF Connecting, Passed, BeforeUp, Running, Capturing, Continuations
  <1> QED
    BY <1>2, <1>3, <1>4, <1>5, MovesQuietly

LEMMA TakeFrameKeeps ==
  ASSUME IInv, NEW c \in Channel, TakeFrame(c)
  PROVE  IInv'
  <1>1. TypeOK
    BY DEF IInv
  <1>2. PICK p \in {"top", "fails", "ponging"} : Goto(c, p)
    BY DEF TakeFrame, Block
  <1>3. /\ pc[c] = "frame" /\ left' \in [Channel -> Nat]
        /\ frames_read' \in [Channel -> BOOLEAN]
        /\ \A d \in Channel \ {c} : frames_read'[d] = frames_read[d]
    <2>1. left' \in [Channel -> Nat]
      BY <1>1, BlockIsTyped, TimesAreTyped DEF TakeFrame, TypeOK
    <2> QED
      BY <1>1, <2>1 DEF TakeFrame, TypeOK
  <1>4. UNCHANGED <<supervisor, barrier, round_started, remaining, attempt, arrival,
                    any_failure, barrier_arrived, then, reconnect_started, sessions>>
    BY DEF TakeFrame, common
  <1>5. /\ p \in Passed /\ pc[c] \in Passed /\ pc[c] \in Running
        /\ p \notin BeforeUp /\ p \notin {"dropped", "sleeping", "done"}
    BY <1>3 DEF Connecting, Passed, BeforeUp, Running, Capturing, Continuations
  <1> QED
    BY <1>2, <1>3, <1>4, <1>5, MovesQuietly

-----------------------------------------------------------------------------
(* Steps that write a row *)

LEMMA RefuseAttemptKeeps ==
  ASSUME IInv, NEW c \in Channel, RefuseAttempt(c)
  PROVE  IInv'
  <1>1. TypeOK /\ pc[c] = "attempt" /\ UNCHANGED supervisor
        /\ UNCHANGED <<any_failure, attempt, reconnect_started, frames_read>>
    BY DEF IInv, RefuseAttempt
  <1>2. PICK t : t = << Plain(c, "error", FALSE) >>
    OBVIOUS
  <1>3. Writes(c, t) /\ \A j \in DOMAIN t : t[j].stage # "disconnected"
    <2>1. Record(c, << Plain(c, "error", FALSE) >>) /\ UNCHANGED round
      BY <1>1 DEF RefuseAttempt, supervisor
    <2> QED
      BY ONLY <1>1, <1>2, <2>1, WritesOne
  <1>4. PICK k \in {"fatal"} : Synchronize(c, k)
    BY DEF RefuseAttempt
  <1>5. k \in Continuations /\ k # "done" /\ k # "open" /\ any_failure' \in BOOLEAN
    BY <1>1 DEF Continuations, TypeOK
  <1> QED
    BY <1>1, <1>3, <1>4, <1>5, SynchronizesQuietly

LEMMA SetupOrHandshakeKeeps ==
  ASSUME IInv, NEW c \in Channel, SetupFails(c) \/ HandshakeEnds(c)
  PROVE  IInv'
  <1>1. TypeOK /\ pc[c] \in {"setup", "handshake"} /\ UNCHANGED supervisor
        /\ UNCHANGED <<any_failure, attempt, reconnect_started, frames_read, sessions>>
    BY DEF IInv, SetupFails, HandshakeEnds
  <1>2. PICK t : t = << >>
    OBVIOUS
  <1>3. Writes(c, t) /\ \A j \in DOMAIN t : t[j].stage # "disconnected"
    BY <1>1, <1>2, WritesNothing DEF supervisor
  <1>4. PICK k \in {"open", "drops", "fails"} : Synchronize(c, k)
    BY DEF SetupFails, HandshakeEnds
  <1>5. /\ k \in Continuations /\ k # "done" /\ any_failure' \in BOOLEAN
        /\ pc[c] \in BeforeUp /\ pc[c] \notin {"unstarted", "barrier", "done"}
    BY <1>1 DEF Continuations, TypeOK, BeforeUp, Connecting
  <1> QED
    BY <1>1, <1>3, <1>4, <1>5, SynchronizesQuietly

LEMMA ThrowKeeps ==
  ASSUME IInv, NEW c \in Channel, Throw(c)
  PROVE  IInv'
  <1>1. TypeOK /\ pc[c] \notin {"unstarted", "barrier", "done"} /\ UNCHANGED supervisor
        /\ UNCHANGED <<attempt, reconnect_started, frames_read>> /\ any_failure' = TRUE
    BY DEF IInv, Throw
  <1>2. PICK t : t = << Plain(c, "error", FALSE) >>
    OBVIOUS
  <1>3. Writes(c, t) /\ \A j \in DOMAIN t : t[j].stage # "disconnected"
    <2>1. Record(c, << Plain(c, "error", FALSE) >>) /\ UNCHANGED round
      BY <1>1 DEF Throw, supervisor
    <2> QED
      BY ONLY <1>1, <1>2, <2>1, WritesOne
  <1>4. PICK k \in {"done"} : Synchronize(c, k)
    BY DEF Throw
  <1>5. k \in Continuations /\ k # "open"
    BY DEF Continuations
  <1>6. any_failure' \in BOOLEAN /\ any_failure'
    BY <1>1
  <1> QED
    BY <1>1, <1>3, <1>4, <1>5, <1>6, SynchronizesQuietly

LEMMA FailAttemptKeeps ==
  ASSUME IInv, NEW c \in Channel, FailAttempt(c)
  PROVE  IInv'
  <1>1. TypeOK /\ WorkerInv(c) /\ pc[c] = "fails"
        /\ UNCHANGED <<supervisor, common, attempt, arrival, barrier_arrived, then, left,
                       reconnect_started, frames_read>>
    BY DEF IInv, FailAttempt
  <1>2. PICK t : t = << Plain(c, "error", FALSE) >>
    OBVIOUS
  <1>3. Writes(c, t) /\ \A j \in DOMAIN t : t[j].stage # "disconnected"
    <2>1. Record(c, << Plain(c, "error", FALSE) >>) /\ UNCHANGED round
      BY <1>1 DEF FailAttempt, supervisor
    <2> QED
      BY ONLY <1>1, <1>2, <2>1, WritesOne
  <1>4. PICK p \in {"fatal"} : Goto(c, p)
    BY DEF FailAttempt
  <1>5. /\ p \in Passed /\ pc[c] \in Passed /\ p \notin BeforeUp /\ p \notin Running
        /\ p \notin {"unstarted", "barrier", "dropped", "sleeping", "done"}
    BY <1>1 DEF Passed, BeforeUp, Running, Capturing, Continuations, Connecting
  <1>6. Goes(c, p) /\ Quietly(c, t)
    BY <1>1, <1>3, <1>4, <1>5 DEF Goes, Goto, Quietly, TypeOK, common
  <1>7. barrier_arrived[c] /\ frames_read' = frames_read /\ frames_read' \in [Channel -> BOOLEAN]
    BY <1>1, <1>5 DEF WorkerInv, TypeOK
  <1>8. p # "sleeping" /\ p # "done"
    BY <1>5
  <1> QED
    BY <1>1, <1>3, <1>5, <1>6, <1>7, <1>8, GoesQuietly

LEMMA AttemptFatalKeeps ==
  ASSUME IInv, NEW c \in Channel, AttemptFatal(c)
  PROVE  IInv'
  <1>1. TypeOK /\ WorkerInv(c) /\ pc[c] = "fatal" /\ any_failure' = TRUE
        /\ UNCHANGED <<supervisor, barrier, round_started, remaining, attempt, arrival,
                       barrier_arrived, then, left, reconnect_started, frames_read, sessions>>
    BY DEF IInv, AttemptFatal
  <1>2. Quietly(c, << >>)
    BY <1>1, WritesNothing DEF Quietly, supervisor, TypeOK
  <1>3. PICK p \in {"done"} : Goto(c, p)
    BY DEF AttemptFatal
  <1>4. /\ p \in Passed /\ pc[c] \in Passed /\ p \notin BeforeUp /\ p \notin Running
        /\ p \notin {"unstarted", "barrier", "dropped", "sleeping"}
    BY <1>1 DEF Passed, BeforeUp, Running, Capturing, Continuations, Connecting
  <1>5. Goes(c, p)
    BY <1>1, <1>3, <1>4 DEF Goes, Goto
  <1>6. barrier_arrived[c] /\ frames_read' = frames_read /\ frames_read' \in [Channel -> BOOLEAN]
    BY <1>1, <1>4 DEF WorkerInv, TypeOK
  <1>7. p # "sleeping" /\ any_failure' /\ pc[c] # "done"
    BY <1>1, <1>4
  <1> QED
    BY <1>2, <1>4, <1>5, <1>6, <1>7, GoesQuietly

\* The row of completion earns the round, if its last session stayed up.

LEMMA CompletionEarns ==
  ASSUME NEW s \in Seq(RowType), NEW r, NEW row \in RowType, CameUp(s, r),
         row.round = r, row.stage = "complete", row.ok
  PROVE  Earned(s \o << row >>, r)
  <1> DEFINE u == s \o << row >>
             n == Len(s) + 1
  <1>1. /\ Len(s) \in Nat /\ DOMAIN s = 1 .. Len(s) /\ DOMAIN u = 1 .. n
        /\ u[n] = row /\ \A i \in 1 .. Len(s) : u[i] = s[i]
    OBVIOUS
  <1>2. PICK k \in DOMAIN s :
          /\ s[k].round = r /\ s[k].stage = "connected"
          /\ \A j \in DOMAIN s : s[j].round = r /\ s[j].stage = "disconnected" => j < k
    BY DEF CameUp
  <1> HIDE DEF u
  <1> DEFINE mine == {i \in DOMAIN u : u[i].round = r}
  <1>3. n \in mine /\ \A j \in mine : j <= n
    BY <1>1
  <1>4. \E i \in mine : u[i].stage = "complete" /\ u[i].ok /\ \A j \in mine : j <= i
    BY <1>1, <1>3
  <1>5. k \in mine /\ u[k].stage = "connected"
    BY <1>1, <1>2
  <1>6. \A j \in mine : u[j].stage = "disconnected" => j < k
    <2> SUFFICES ASSUME NEW j \in mine, u[j].stage = "disconnected" PROVE j < k
      OBVIOUS
    <2>1. j # n
      BY <1>1
    <2>2. j \in DOMAIN s /\ u[j] = s[j]
      BY <1>1, <2>1
    <2> QED
      BY <1>2, <2>2
  <1>7. \E i \in mine :
          u[i].stage = "connected" /\ \A j \in mine : u[j].stage = "disconnected" => j < i
    BY <1>5, <1>6
  <1> QED
    BY <1>4, <1>7 DEF Earned, u

LEMMA AttemptDeadlineKeeps ==
  ASSUME IInv, NEW c \in Channel, AttemptDeadline(c)
  PROVE  IInv'
  <1>1. TypeOK /\ WorkerInv(c) /\ ChannelStatus(c) /\ pc[c] = "deadline"
        /\ UNCHANGED <<supervisor, barrier, round_started, remaining, attempt, arrival,
                       barrier_arrived, then, left, reconnect_started, frames_read>>
    BY DEF IInv, AttemptDeadline, StatusInv
  <1>2. PICK completed \in BOOLEAN : completed = (frames_read[c] /\ reconnect_started[c] = 0)
    OBVIOUS
  <1>3. /\ Record(c, << Plain(c, "complete", completed) >>)
        /\ any_failure' = (any_failure \/ ~completed)
    BY <1>2, Zenon DEF AttemptDeadline
  <1>4. PICK t : t = << Plain(c, "complete", completed) >>
    OBVIOUS
  <1>5. Writes(c, t) /\ \A j \in DOMAIN t : t[j].stage # "disconnected"
    <2>1. UNCHANGED round
      BY <1>1 DEF supervisor
    <2> QED
      BY ONLY <1>1, <1>2, <1>3, <1>4, <2>1, WritesOne
  <1>6. PICK p \in {"done"} : Goto(c, p)
    BY DEF AttemptDeadline
  <1>7. /\ p \in Passed /\ pc[c] \in Passed /\ p \notin BeforeUp /\ p \notin Running
        /\ p \notin {"unstarted", "barrier", "dropped", "sleeping"}
    BY <1>1 DEF Passed, BeforeUp, Running, Capturing, Continuations, Connecting
  <1>8. any_failure' \in BOOLEAN /\ (any_failure => any_failure') /\ (~any_failure' => completed)
    BY <1>1, <1>2, <1>3, Zenon DEF TypeOK
  <1>9. Goes(c, p) /\ Quietly(c, t)
    BY <1>1, <1>5, <1>6, <1>7, <1>8 DEF Goes, Goto, Quietly, TypeOK
  <1>10. barrier_arrived[c] /\ frames_read' = frames_read /\ frames_read' \in [Channel -> BOOLEAN]
    BY <1>1, <1>7 DEF WorkerInv, TypeOK
  <1>11. ASSUME ~any_failure' PROVE Earned(sessions'[c], round) /\ frames_read'[c]
    <2>1. completed /\ frames_read[c] /\ reconnect_started[c] = 0
      BY <1>2, <1>8, <1>11
    <2>2. CameUp(sessions[c], round)
      BY <1>1, <2>1 DEF ChannelStatus
    <2>3. PICK row : row = Plain(c, "complete", completed)
      OBVIOUS
    <2>4. /\ row \in RowType /\ row.round = round /\ row.stage = "complete"
      <3>1. round \in 1 .. Rounds /\ attempt[c] \in 1 .. Attempts /\ Attempts \in 1 .. 3
        BY <1>1, CaptureAssumption DEF TypeOK
      <3>2. completed \in BOOLEAN
        OBVIOUS
      <3> QED
        BY ONLY <2>3, <3>1, <3>2 DEF Plain, Row, RowType
    <2>5. row.ok
      BY <2>1, <2>3, Zenon DEF Plain, Row
    <2>6. sessions'[c] = sessions[c] \o << row >>
      BY <1>1, <1>3, <2>3 DEF Record, TypeOK
    <2>7. sessions[c] \in Seq(RowType)
      BY <1>1 DEF TypeOK
    <2>8. Earned(sessions'[c], round)
      BY <2>2, <2>4, <2>5, <2>6, <2>7, CompletionEarns
    <2> QED
      BY <1>10, <2>1, <2>8
  <1>12. p # "sleeping" /\ pc[c] # "done"
    BY <1>1, <1>7
  <1> QED
    BY <1>7, <1>9, <1>10, <1>11, <1>12, GoesQuietly

LEMMA AttemptDisconnectedKeeps ==
  ASSUME IInv, NEW c \in Channel, AttemptDisconnected(c)
  PROVE  IInv'
  <1>1. TypeOK /\ WorkerInv(c) /\ pc[c] = "dropped"
        /\ UNCHANGED <<supervisor, barrier, round_started, remaining, attempt, arrival,
                       barrier_arrived, then, reconnect_started, frames_read>>
    BY DEF IInv, AttemptDisconnected
  <1>2. PICK delay \in Delay :
          IF ReconnectWait(c, delay)
            THEN /\ Record(c, << Plain(c, "reconnect_wait", TRUE) >>)
                 /\ Block(c, "sleeping", delay)
                 /\ UNCHANGED any_failure
            ELSE /\ Record(c, << Plain(c, "error", FALSE) >>)
                 /\ any_failure' = TRUE
                 /\ Goto(c, "done")
                 /\ UNCHANGED left
    BY DEF AttemptDisconnected
  <1>3. barrier_arrived[c] /\ reconnect_started[c] # 0
        /\ frames_read' = frames_read /\ frames_read' \in [Channel -> BOOLEAN]
    BY <1>1 DEF WorkerInv, Passed, TypeOK
  <1>4. UNCHANGED round
    BY <1>1 DEF supervisor
  <1>5. CASE ReconnectWait(c, delay)
    <2>1. /\ Record(c, << Plain(c, "reconnect_wait", TRUE) >>)
          /\ Block(c, "sleeping", delay) /\ UNCHANGED any_failure
      BY <1>2, <1>5
    <2>2. PICK t : t = << Plain(c, "reconnect_wait", TRUE) >>
      OBVIOUS
    <2>3. Writes(c, t) /\ \A j \in DOMAIN t : t[j].stage # "disconnected"
      BY ONLY <1>1, <1>4, <2>1, <2>2, WritesOne
    <2>4. PICK p \in {"sleeping"} : Goto(c, p)
      BY <2>1 DEF Block
    <2>5. left' \in [Channel -> Nat]
      BY <1>1, <2>1, BlockIsTyped, CaptureAssumption
    <2>6. attempt[c] < Attempts
      BY <1>5 DEF ReconnectWait
    <2>7. /\ p \in Passed /\ p \notin BeforeUp /\ p \notin Running
          /\ p \notin {"unstarted", "barrier", "done"} /\ p # "done" /\ pc[c] # "done"
      BY <1>1 DEF Passed, BeforeUp, Running, Connecting
    <2>8. Goes(c, p) /\ Quietly(c, t)
      BY <1>1, <2>1, <2>3, <2>4, <2>5, <2>7 DEF Goes, Goto, Quietly, TypeOK
    <2> QED
      BY <1>3, <2>6, <2>7, <2>8, GoesQuietly
  <1>6. CASE ~ReconnectWait(c, delay)
    <2>1. /\ Record(c, << Plain(c, "error", FALSE) >>)
          /\ any_failure' = TRUE /\ Goto(c, "done") /\ UNCHANGED left
      BY <1>2, <1>6
    <2>2. PICK t : t = << Plain(c, "error", FALSE) >>
      OBVIOUS
    <2>3. Writes(c, t) /\ \A j \in DOMAIN t : t[j].stage # "disconnected"
      BY ONLY <1>1, <1>4, <2>1, <2>2, WritesOne
    <2>4. PICK p \in {"done"} : Goto(c, p)
      BY <2>1
    <2>5. /\ p \in Passed /\ p \notin BeforeUp /\ p \notin Running
          /\ p \notin {"unstarted", "barrier", "dropped", "sleeping"} /\ pc[c] # "done"
      BY <1>1 DEF Passed, BeforeUp, Running, Connecting, Continuations
    <2>6. Goes(c, p) /\ Quietly(c, t)
      BY <1>1, <2>1, <2>3, <2>4, <2>5 DEF Goes, Goto, Quietly, TypeOK
    <2>7. any_failure' /\ p # "sleeping"
      BY <2>1, <2>5
    <2> QED
      BY <1>3, <2>5, <2>6, <2>7, GoesQuietly
  <1> QED
    BY <1>5, <1>6

-----------------------------------------------------------------------------
(* Steps that begin and end an outage *)

\* What a step of one worker leaves to be shown: the worker's own part.

LEMMA OneWorkerSteps ==
  ASSUME IInv, NEW c \in Channel, UNCHANGED supervisor, any_failure' = any_failure,
         pc[c] \notin {"unstarted", "done"},
         \A d \in Channel \ {c} :
           /\ pc'[d] = pc[d] /\ attempt'[d] = attempt[d] /\ arrival'[d] = arrival[d]
           /\ barrier_arrived'[d] = barrier_arrived[d] /\ then'[d] = then[d]
           /\ reconnect_started'[d] = reconnect_started[d]
           /\ frames_read'[d] = frames_read[d] /\ sessions'[d] = sessions[d],
         TypeOK', BarrierInv', WorkerInv(c)', RowsInv(c)', ChannelStatus(c)',
         LifecycleAccepts(sessions'[c]), MeasuredWhole(sessions'[c])
  PROVE  IInv'
  <1>1. round' = round /\ main' = main /\ exit' = exit
    BY DEF supervisor
  <1>2. ASSUME NEW d \in Channel, d # c
        PROVE  WorkerInv(d)' /\ RowsInv(d)' /\ ChannelStatus(d)'
    <2>1. /\ pc'[d] = pc[d] /\ attempt'[d] = attempt[d] /\ arrival'[d] = arrival[d]
          /\ barrier_arrived'[d] = barrier_arrived[d] /\ then'[d] = then[d]
          /\ reconnect_started'[d] = reconnect_started[d]
          /\ frames_read'[d] = frames_read[d] /\ sessions'[d] = sessions[d]
      BY <1>2
    <2>2. WorkerInv(d) /\ RowsInv(d) /\ ChannelStatus(d)
      BY DEF IInv, StatusInv
    <2>3. WorkerInv(d)'
      BY <2>1, <2>2 DEF WorkerInv
    <2>4. \A g : Up(d, g)' <=> Up(d, g)
      BY <1>1, <2>1 DEF Up
    <2>5. Up(d, attempt[d])' <=> Up(d, attempt[d])
      BY <1>1, <2>1 DEF Up
    <2>6. OutageBegan(d, reconnect_started[d])' <=> OutageBegan(d, reconnect_started[d])
      <3>1. Up(d, reconnect_started[d])' <=> Up(d, reconnect_started[d])
        BY <1>1, <2>1 DEF Up
      <3> QED
        BY <2>1, <2>4, <3>1 DEF OutageBegan
    <2>7. RowsInv(d)'
      BY <1>1, <2>1, <2>2, <2>4, <2>5, <2>6 DEF RowsInv
    <2>8. ChannelStatus(d)'
      BY <1>1, <2>1, <2>2, <2>4 DEF ChannelStatus
    <2> QED
      BY <2>3, <2>7, <2>8
  <1>3. SessionsAreReadable' /\ OutageIsMeasuredWhole'
    BY DEF IInv, SessionsAreReadable, OutageIsMeasuredWhole
  <1>4. exit' # "0" /\ main' # "exited"
    BY <1>1 DEF IInv, StatusInv
  <1>5. StatusInv'
    BY <1>2, <1>4 DEF StatusInv
  <1> QED
    BY <1>2, <1>3, <1>5 DEF IInv

LEMMA WakeKeeps ==
  ASSUME IInv, NEW c \in Channel, Wake(c)
  PROVE  IInv'
  <1>1. /\ TypeOK /\ BarrierInv /\ WorkerInv(c) /\ RowsInv(c) /\ ChannelStatus(c)
        /\ LifecycleAccepts(sessions[c]) /\ MeasuredWhole(sessions[c])
    BY DEF IInv, StatusInv, SessionsAreReadable, OutageIsMeasuredWhole
  <1>2. /\ pc[c] = "sleeping" /\ attempt' = [attempt EXCEPT ![c] = @ + 1]
        /\ pc' = [pc EXCEPT ![c] = "attempt"]
        /\ UNCHANGED <<supervisor, common, arrival, barrier_arrived, then, left,
                       reconnect_started, frames_read, sessions>>
    BY DEF Wake, Goto
  <1>3. /\ attempt[c] \in 1 .. Attempts /\ attempt[c] < Attempts /\ Attempts \in Nat
        /\ reconnect_started[c] # 0 /\ barrier_arrived[c]
    BY <1>1, <1>2, CaptureAssumption DEF TypeOK, WorkerInv, Passed
  <1>4. /\ pc'[c] = "attempt" /\ attempt'[c] = attempt[c] + 1
        /\ \A d \in Channel \ {c} : pc'[d] = pc[d] /\ attempt'[d] = attempt[d]
    BY <1>1, <1>2 DEF TypeOK
  <1>5. UNCHANGED <<arrival, barrier_arrived, then, reconnect_started, frames_read, sessions,
                    round, any_failure, supervisor>>
    BY <1>2 DEF common, supervisor
  <1>6. TypeOK'
    <2>1. attempt' \in [Channel -> 1 .. Attempts]
      BY <1>1, <1>2, <1>3 DEF TypeOK
    <2>2. pc' \in [Channel -> {"unstarted", "barrier"} \cup Connecting \cup Passed]
      BY <1>1, <1>2 DEF TypeOK, Connecting
    <2> QED
      BY <1>1, <1>2, <2>1, <2>2 DEF TypeOK, common, supervisor
  <1>7. BarrierInv'
    <2>1. PICK p \in {"attempt"} : pc' = [pc EXCEPT ![c] = p]
      BY <1>2
    <2>2. Goes(c, p)
      BY <1>2, <2>1 DEF Goes, common
    <2> QED
      BY <1>1, <1>5, <2>2, GoesKeepsBarrier
  <1>8. WorkerInv(c)'
    <2>1. "attempt" \notin Passed
      BY DEF Passed, Capturing, Continuations
    <2> QED
      BY <1>3, <1>4, <1>5, <2>1 DEF WorkerInv
  <1>9. \A g : Up(c, g)' <=> Up(c, g)
    BY <1>5 DEF Up
  <1>10. RowsInv(c)'
    <2>1. \A g \in 1 .. Attempts : Up(c, g)' => g <= attempt'[c] /\ g # attempt'[c]
      BY <1>1, <1>3, <1>4, <1>9 DEF RowsInv
    <2>2. PICK g1 : g1 = attempt'[c]
      OBVIOUS
    <2>3. g1 \in 1 .. Attempts
      BY <1>3, <1>4, <2>2
    <2>4. ~Up(c, g1)'
      BY <2>1, <2>2, <2>3
    <2>5. ~Up(c, attempt[c])'
      BY <2>2, <2>4 DEF Up
    <2>6. OutageBegan(c, reconnect_started[c])' <=> OutageBegan(c, reconnect_started[c])
      <3>1. Up(c, reconnect_started[c])' <=> Up(c, reconnect_started[c])
        BY <1>5 DEF Up
      <3> QED
        BY <1>5, <1>9, <3>1 DEF OutageBegan
    <2> QED
      BY <1>1, <1>3, <1>5, <2>1, <2>5, <2>6 DEF RowsInv
  <1>11. ChannelStatus(c)'
    BY <1>1, <1>4, <1>5, <1>9 DEF ChannelStatus
  <1>12. LifecycleAccepts(sessions'[c]) /\ MeasuredWhole(sessions'[c])
    BY <1>1, <1>5
  <1> QED
    BY <1>2, <1>4, <1>5, <1>6, <1>7, <1>8, <1>10, <1>11, <1>12, OneWorkerSteps

LEMMA DropAttemptKeeps ==
  ASSUME IInv, NEW c \in Channel, DropAttempt(c)
  PROVE  IInv'
  <1>1. /\ TypeOK /\ BarrierInv /\ WorkerInv(c) /\ RowsInv(c) /\ ChannelStatus(c)
        /\ SessionsAreReadable /\ OutageIsMeasuredWhole
        /\ \A d \in Channel : \A j \in DOMAIN sessions[d] : sessions[d][j].round <= round
    BY DEF IInv, StatusInv, RowsInv
  <1>2. /\ pc[c] = "drops" /\ pc' = [pc EXCEPT ![c] = "dropped"]
        /\ UNCHANGED <<supervisor, common, attempt, arrival, barrier_arrived, then, left,
                       frames_read>>
    BY DEF DropAttempt, Goto
  <1>3. PICK t : t = << Plain(c, "error", FALSE), Plain(c, "disconnected", FALSE) >>
    OBVIOUS
  <1>4. /\ attempt[c] \in 1 .. Attempts /\ Attempts \in 1 .. 3 /\ round \in 1 .. Rounds
        /\ reconnect_started[c] \in 0 .. Attempts
    BY <1>1, CaptureAssumption DEF TypeOK
  <1>5. Writes(c, t)
    <2>1. \A stage \in {"error", "disconnected"} :
            /\ Plain(c, stage, FALSE) \in RowType /\ QuietRow(Plain(c, stage, FALSE))
            /\ Plain(c, stage, FALSE).round = round
      BY <1>4 DEF Plain, Row, RowType, QuietRow
    <2>2. PICK e \in RowType : e = Plain(c, "error", FALSE)
      BY <2>1
    <2>3. PICK o \in RowType : o = Plain(c, "disconnected", FALSE)
      BY <2>1
    <2>4. QuietRow(e) /\ e.round = round /\ QuietRow(o) /\ o.round = round
      BY <2>1, <2>2, <2>3
    <2>5. t = << e, o >>
      BY <1>3, <2>2, <2>3
    <2>6. t \in Seq(RowType) /\ DOMAIN t = {1, 2} /\ t[1] = e /\ t[2] = o
      BY <2>5
    <2>7. sessions' = [sessions EXCEPT ![c] = @ \o t] /\ round' = round
      BY <1>2, <1>3 DEF DropAttempt, Record, supervisor
    <2> QED
      BY <2>4, <2>6, <2>7 DEF Writes
  <1>6. /\ sessions' \in [Channel -> Seq(RowType)]
        /\ SessionsAreReadable' /\ OutageIsMeasuredWhole'
        /\ \A d \in Channel : \A j \in DOMAIN sessions'[d] : sessions'[d][j].round <= round
        /\ \A d \in Channel : \A g : Up(d, g)' <=> Up(d, g)
        /\ \A d \in Channel : \A r \in 1 .. round - 1 :
             Earned(sessions[d], r) => Earned(sessions'[d], r)
    BY <1>1, <1>5, WritesKeepsRows
  <1>7. reconnect_started' =
          [reconnect_started EXCEPT ![c] = IF @ = 0 THEN attempt[c] ELSE @]
    BY DEF DropAttempt
  <1>8. /\ pc'[c] = "dropped" /\ barrier_arrived[c]
        /\ reconnect_started'[c] =
             IF reconnect_started[c] = 0 THEN attempt[c] ELSE reconnect_started[c]
        /\ reconnect_started' \in [Channel -> 0 .. Attempts]
        /\ \A d \in Channel \ {c} : /\ pc'[d] = pc[d] /\ sessions'[d] = sessions[d]
                                    /\ reconnect_started'[d] = reconnect_started[d]
    BY <1>1, <1>2, <1>4, <1>5, <1>7 DEF TypeOK, WorkerInv, Passed, Continuations, Writes
  <1>9. UNCHANGED <<arrival, barrier_arrived, then, attempt, frames_read, round, any_failure,
                    supervisor>>
    BY <1>2 DEF common, supervisor
  <1>10. TypeOK'
    <2>1. pc' \in [Channel -> {"unstarted", "barrier"} \cup Connecting \cup Passed]
      BY <1>1, <1>2 DEF TypeOK, Passed
    <2> QED
      BY <1>1, <1>2, <1>6, <1>8, <2>1 DEF TypeOK, common, supervisor
  <1>11. BarrierInv'
    <2>1. PICK p \in {"dropped"} : pc' = [pc EXCEPT ![c] = p]
      BY <1>2
    <2>2. Goes(c, p)
      BY <1>2, <2>1 DEF Goes, common
    <2> QED
      BY <1>1, <1>9, <2>2, GoesKeepsBarrier
  <1>12. reconnect_started'[c] # 0
    BY <1>4, <1>8
  <1>13. WorkerInv(c)'
    BY <1>8, <1>9, <1>12 DEF WorkerInv, BeforeUp, Connecting
  <1>14. RowsInv(c)'
    <2>1. PICK g1 : g1 = reconnect_started'[c]
      OBVIOUS
    <2>2. OutageBegan(c, g1)
      <3>1. CASE reconnect_started[c] # 0
        BY <1>1, <1>8, <2>1, <3>1 DEF RowsInv
      <3>2. CASE reconnect_started[c] = 0
        <4>1. g1 = attempt[c]
          BY <1>8, <2>1, <3>2
        <4>2. \A h \in 1 .. Attempts : Up(c, h) => h <= g1
          BY <1>1, <4>1 DEF RowsInv
        <4>3. g1 > 1 => Up(c, g1)
          BY <1>1, <3>2, <4>1 DEF RowsInv
        <4>4. g1 \in 1 .. Attempts
          BY <1>4, <4>1
        <4>5. CASE \E h \in 1 .. Attempts : Up(c, h)
          <5>1. Up(c, g1)
            <6>1. CASE g1 = 1
              <7>1. PICK h \in 1 .. Attempts : Up(c, h)
                BY <4>5
              <7>2. h = g1
                BY <4>2, <6>1, <7>1
              <7> QED
                BY <7>1, <7>2
            <6>2. CASE g1 # 1
              BY <4>3, <4>4, <6>2
            <6> QED
              BY <6>1, <6>2
          <5> QED
            BY <4>2, <4>5, <5>1 DEF OutageBegan
        <4>6. CASE ~\E h \in 1 .. Attempts : Up(c, h)
          BY <4>3, <4>4, <4>6 DEF OutageBegan
        <4> QED
          BY <4>5, <4>6
      <3> QED
        BY <3>1, <3>2
    <2>3. OutageBegan(c, reconnect_started[c])'
      <3>1. Up(c, reconnect_started[c])' <=> Up(c, g1)
        <4>1. Up(c, g1)' <=> Up(c, g1)
          BY <1>6
        <4> QED
          BY <2>1, <4>1 DEF Up
      <3> QED
        BY <1>6, <2>1, <2>2, <3>1 DEF OutageBegan
    <2>4. pc'[c] \notin BeforeUp
      BY <1>8 DEF BeforeUp, Connecting
    <2> QED
      BY <1>1, <1>6, <1>9, <1>12, <2>3, <2>4 DEF RowsInv
  <1>15. ChannelStatus(c)'
    BY <1>1, <1>6, <1>8, <1>9, <1>12 DEF ChannelStatus
  <1>16. LifecycleAccepts(sessions'[c]) /\ MeasuredWhole(sessions'[c])
    BY <1>6 DEF SessionsAreReadable, OutageIsMeasuredWhole
  <1>17. pc[c] \notin {"unstarted", "done"}
    BY <1>2
  <1> QED
    BY <1>8, <1>9, <1>10, <1>11, <1>13, <1>14, <1>15, <1>16, <1>17, OneWorkerSteps

LEMMA ConnectedKeeps ==
  ASSUME IInv, NEW c \in Channel, Connected(c)
  PROVE  IInv'
  <1>1. /\ TypeOK /\ BarrierInv /\ WorkerInv(c) /\ RowsInv(c) /\ ChannelStatus(c)
        /\ LifecycleAccepts(sessions[c]) /\ MeasuredWhole(sessions[c])
    BY DEF IInv, StatusInv, SessionsAreReadable, OutageIsMeasuredWhole
  <1>2. /\ pc[c] = "connected" /\ pc' = [pc EXCEPT ![c] = "top"]
        /\ reconnect_started' = [reconnect_started EXCEPT ![c] = 0]
        /\ UNCHANGED <<supervisor, common, attempt, arrival, barrier_arrived, then, left,
                       frames_read>>
    BY DEF Connected, Goto
  <1>3. /\ attempt[c] \in 1 .. Attempts /\ Attempts \in 1 .. 3 /\ round \in 1 .. Rounds
        /\ reconnect_started[c] \in 0 .. Attempts /\ round \in Nat
    BY <1>1, CaptureAssumption DEF TypeOK
  <1>4. attempt[c] > 1 <=> reconnect_started[c] # 0
    BY <1>1, <1>2 DEF WorkerInv, BeforeUp
  <1>5. (IF c \in Subscribing THEN reconnect_started[c] ELSE 0) = reconnect_started[c]
    <2>1. c \notin Subscribing => ~(Attempts > 1)
      BY CaptureAssumption
    <2> QED
      BY <1>3, <1>4, <2>1
  <1>6. PICK row : row = Row(c, "connected", TRUE, reconnect_started[c])
    OBVIOUS
  <1>7. /\ row \in RowType /\ row.round = round /\ row.stage = "connected"
        /\ row.generation = attempt[c] /\ row.duration = reconnect_started[c]
    BY <1>3, <1>6 DEF Row, RowType
  <1>8. row.ok
    BY <1>6, Zenon DEF Row
  <1> DEFINE s == sessions[c]
             u == s \o << row >>
             n == Len(s) + 1
  <1>9. s \in Seq(RowType) /\ << row >> \in Seq(RowType)
    BY <1>1, <1>7 DEF TypeOK
  <1>10. /\ Len(s) \in Nat /\ DOMAIN s = 1 .. Len(s) /\ DOMAIN u = 1 .. n /\ u[n] = row
         /\ \A i \in 1 .. Len(s) : u[i] = s[i]
         /\ u \in Seq(RowType)
    BY <1>7, <1>9
  <1>11. Extension(u, s)
    BY <1>9, RowsAppended
  <1>12. sessions' = [sessions EXCEPT ![c] = u]
    BY <1>5, <1>6 DEF Connected, Record
  <1> HIDE DEF u, s
  <1>13. /\ sessions'[c] = u /\ sessions[c] = s /\ pc'[c] = "top" /\ reconnect_started'[c] = 0
         /\ \A d \in Channel \ {c} : /\ pc'[d] = pc[d] /\ sessions'[d] = sessions[d]
                                     /\ reconnect_started'[d] = reconnect_started[d]
    BY <1>1, <1>2, <1>12 DEF TypeOK, s
  <1>14. UNCHANGED <<arrival, barrier_arrived, then, attempt, frames_read, round, any_failure,
                     supervisor>>
    BY <1>2 DEF common, supervisor
  <1>15. \A i \in DOMAIN u : (i \in DOMAIN s /\ u[i] = s[i]) \/ (i = n /\ i \notin DOMAIN s)
    <2> SUFFICES ASSUME NEW i \in DOMAIN u
                 PROVE  (i \in DOMAIN s /\ u[i] = s[i]) \/ (i = n /\ i \notin DOMAIN s)
      OBVIOUS
    <2>1. CASE i = n
      BY <1>10, <2>1
    <2>2. CASE i # n
      <3>1. i \in DOMAIN s
        BY <1>10, <2>2
      <3> QED
        BY <1>10, <3>1
    <2> QED
      BY <2>1, <2>2
  <1>16. \A g : Up(c, g) <=>
           \E j \in DOMAIN s : s[j].stage = "connected" /\ s[j].round = round /\ s[j].generation = g
    BY <1>13 DEF Up
  <1>17. \A g : Up(c, g)' <=> Up(c, g) \/ g = attempt[c]
    <2> SUFFICES ASSUME NEW g PROVE Up(c, g)' <=> Up(c, g) \/ g = attempt[c]
      OBVIOUS
    <2>1. Up(c, g)' <=> \E j \in DOMAIN u : /\ u[j].stage = "connected" /\ u[j].round = round
                                            /\ u[j].generation = g
      BY <1>13, <1>14 DEF Up
    <2>2. ASSUME Up(c, g)' PROVE Up(c, g) \/ g = attempt[c]
      <3>1. PICK j \in DOMAIN u : /\ u[j].stage = "connected" /\ u[j].round = round
                                  /\ u[j].generation = g
        BY <2>1, <2>2
      <3> QED
        BY <1>7, <1>10, <1>15, <1>16, <3>1
    <2>3. ASSUME Up(c, g) PROVE Up(c, g)'
      <3>1. PICK j \in DOMAIN s : /\ s[j].stage = "connected" /\ s[j].round = round
                                  /\ s[j].generation = g
        BY <1>16, <2>3
      <3>2. j \in DOMAIN u /\ u[j] = s[j]
        BY <1>10
      <3> QED
        BY <2>1, <3>1, <3>2
    <2>4. ASSUME g = attempt[c] PROVE Up(c, g)'
      <3>1. n \in DOMAIN u
        BY <1>10
      <3> QED
        BY <1>7, <1>10, <2>1, <2>4, <3>1
    <2> QED
      BY <2>2, <2>3, <2>4
  <1>18. ~Up(c, attempt[c])
    BY <1>1, <1>2 DEF RowsInv, BeforeUp
  <1>19. LifecycleAccepts(u)
    <2>1. ASSUME NEW i \in DOMAIN u
          PROVE  /\ u[i].generation \in 1 .. 3
                 /\ u[i].stage = "connected" =>
                      u[i].ok /\ (u[i].generation > 1 <=> u[i].duration # 0)
                 /\ u[i].stage # "connected" => u[i].duration = 0
                 /\ u[i].stage = "disconnected" => ~u[i].ok
      <3>1. CASE i \in DOMAIN s /\ u[i] = s[i]
        BY <1>1, <1>13, <3>1 DEF LifecycleAccepts
      <3>2. CASE i = n
        BY <1>3, <1>4, <1>7, <1>8, <1>10, <3>2
      <3> QED
        BY <1>15, <3>1, <3>2
    <2>2. \A j \in DOMAIN s : ~(/\ s[j].stage = "connected" /\ s[j].round = round
                                /\ s[j].generation = attempt[c])
      BY <1>16, <1>18
    <2>3. ASSUME NEW i \in DOMAIN u, NEW j \in DOMAIN u, i # j,
                 u[i].stage = "connected", u[j].stage = "connected"
          PROVE  u[i].round # u[j].round \/ u[i].generation # u[j].generation
      <3>1. CASE i \in DOMAIN s /\ j \in DOMAIN s
        BY <1>1, <1>13, <1>15, <2>3, <3>1 DEF LifecycleAccepts
      <3>2. CASE i = n
        <4>1. j \in DOMAIN s /\ u[j] = s[j]
          BY <1>15, <2>3, <3>2
        <4> QED
          BY <1>7, <1>10, <2>2, <2>3, <3>2, <4>1
      <3>3. CASE j = n
        <4>1. i \in DOMAIN s /\ u[i] = s[i]
          BY <1>15, <2>3, <3>3
        <4> QED
          BY <1>7, <1>10, <2>2, <2>3, <3>3, <4>1
      <3> QED
        BY <1>15, <3>1, <3>2, <3>3
    <2> QED
      BY <2>1, <2>3 DEF LifecycleAccepts
  <1>20. MeasuredWhole(u)
    <2> SUFFICES ASSUME NEW i \in DOMAIN u, u[i].stage = "connected", u[i].duration # 0
                 PROVE  /\ u[i].duration \in IF ConnectedBefore(u, i) = {} THEN {1}
                                                                         ELSE ConnectedBefore(u, i)
                        /\ \A g \in ConnectedBefore(u, i) : g <= u[i].duration
      BY DEF MeasuredWhole
    <2>1. CASE i \in DOMAIN s
      <3>1. u[i] = s[i] /\ ConnectedBefore(u, i) = ConnectedBefore(s, i)
        BY <1>11, <2>1, ConnectedBeforeStays DEF Extension
      <3> QED
        BY <1>1, <1>13, <2>1, <3>1 DEF MeasuredWhole
    <2>2. CASE i = n
      <3>1. u[i] = row /\ u[i].round = round /\ u[i].duration = reconnect_started[c]
        BY <1>7, <1>10, <2>2
      <3>2. 1 .. i - 1 = DOMAIN s
        BY <1>10, <2>2
      <3>3. \A k \in DOMAIN s : u[k] = s[k]
        BY <1>10
      <3>4. ConnectedBefore(u, i) =
              {s[j].generation : j \in {k \in DOMAIN s : s[k].stage = "connected"
                                                         /\ s[k].round = round}}
        BY <3>1, <3>2, <3>3 DEF ConnectedBefore
      <3>5. \A g : g \in ConnectedBefore(u, i) <=> Up(c, g)
        BY <1>16, <3>4
      <3>6. \A g \in ConnectedBefore(u, i) : g \in 1 .. Attempts
        <4>1. \A j \in DOMAIN s : s[j] \in RowType
          BY <1>9
        <4>2. \A j \in DOMAIN s : s[j].generation \in 1 .. Attempts
          BY <4>1 DEF RowType
        <4> QED
          BY <3>4, <4>2
      <3>7. OutageBegan(c, reconnect_started[c])
        BY <1>1, <2>2, <3>1 DEF RowsInv
      <3>8. CASE ConnectedBefore(u, i) = {}
        <4>1. ~\E h \in 1 .. Attempts : Up(c, h)
          BY <3>5, <3>8
        <4> QED
          BY <3>1, <3>7, <3>8, <4>1 DEF OutageBegan
      <3>9. CASE ConnectedBefore(u, i) # {}
        <4>1. \E h \in 1 .. Attempts : Up(c, h)
          BY <3>5, <3>6, <3>9
        <4>2. /\ Up(c, reconnect_started[c])
              /\ \A h \in 1 .. Attempts : Up(c, h) => h <= reconnect_started[c]
          BY <3>7, <4>1 DEF OutageBegan
        <4> QED
          BY <3>1, <3>5, <3>6, <3>9, <4>2
      <3> QED
        BY <3>8, <3>9
    <2> QED
      BY <1>15, <2>1, <2>2
  <1>21. TypeOK'
    <2>1. /\ pc' \in [Channel -> {"unstarted", "barrier"} \cup Connecting \cup Passed]
          /\ reconnect_started' \in [Channel -> 0 .. Attempts]
          /\ sessions' \in [Channel -> Seq(RowType)]
      BY <1>1, <1>2, <1>3, <1>10, <1>12 DEF TypeOK, Passed, Capturing
    <2> QED
      BY <1>1, <1>2, <2>1 DEF TypeOK, common, supervisor
  <1>22. BarrierInv'
    <2>1. PICK p \in {"top"} : pc' = [pc EXCEPT ![c] = p]
      BY <1>2
    <2>2. Goes(c, p)
      BY <1>2, <2>1 DEF Goes, common
    <2> QED
      BY <1>1, <1>14, <2>2, GoesKeepsBarrier
  <1>23. WorkerInv(c)'
    <2>1. barrier_arrived[c]
      BY <1>1, <1>2 DEF WorkerInv, Passed, Capturing
    <2> QED
      BY <1>13, <1>14, <2>1 DEF WorkerInv, BeforeUp, Connecting
  <1>24. RowsInv(c)'
    <2>1. \A j \in DOMAIN u : u[j].round <= round
      <3> SUFFICES ASSUME NEW j \in DOMAIN u PROVE u[j].round <= round
        OBVIOUS
      <3>1. CASE j \in DOMAIN s /\ u[j] = s[j]
        BY <1>1, <1>13, <3>1 DEF RowsInv
      <3>2. CASE j = n
        BY <1>3, <1>7, <1>10, <3>2
      <3> QED
        BY <1>15, <3>1, <3>2
    <2>2. \A g \in 1 .. Attempts : Up(c, g)' => g <= attempt[c]
      BY <1>1, <1>3, <1>17 DEF RowsInv
    <2>3. Up(c, attempt[c])'
      <3>1. PICK g1 : g1 = attempt[c]
        OBVIOUS
      <3>2. Up(c, g1)'
        BY <1>17, <3>1
      <3> QED
        BY <1>14, <3>1, <3>2 DEF Up
    <2>4. pc'[c] \notin BeforeUp
      BY <1>13 DEF BeforeUp, Connecting
    <2> QED
      BY <1>13, <1>14, <2>1, <2>2, <2>3, <2>4 DEF RowsInv
  <1>25. ChannelStatus(c)'
    <2>1. \E g \in 1 .. Attempts : Up(c, g)'
      BY <1>3, <1>17
    <2>2. CameUp(u, round)
      <3>1. n \in DOMAIN u /\ u[n].round = round /\ u[n].stage = "connected"
        BY <1>7, <1>10
      <3>2. \A j \in DOMAIN u : u[j].round = round /\ u[j].stage = "disconnected" => j < n
        BY <1>7, <1>10
      <3> QED
        BY <3>1, <3>2 DEF CameUp
    <2>3. ASSUME NEW r \in 1 .. round - 1, Earned(s, r) PROVE Earned(u, r)
      <3>1. \A i \in DOMAIN u : i \notin DOMAIN s => u[i].round # r
        BY <1>3, <1>7, <1>10, <1>15
      <3> QED
        BY <1>11, <2>3, <3>1, EarnedStays
    <2>4. ~any_failure' => \A r \in 1 .. round' - 1 : Earned(sessions'[c], r)
      BY <1>1, <1>13, <1>14, <2>3 DEF ChannelStatus
    <2> QED
      BY <1>13, <1>14, <2>1, <2>2, <2>4 DEF ChannelStatus
  <1>26. LifecycleAccepts(sessions'[c]) /\ MeasuredWhole(sessions'[c])
    BY <1>13, <1>19, <1>20
  <1>27. pc[c] \notin {"unstarted", "done"}
    BY <1>2
  <1> QED
    BY <1>13, <1>14, <1>21, <1>22, <1>23, <1>24, <1>25, <1>26, <1>27, OneWorkerSteps

-----------------------------------------------------------------------------
(* Steps of the supervisor *)

\* A step that at most starts a worker.

LEMMA WorkersStay ==
  ASSUME IInv, UNCHANGED <<attempt, arrival, barrier_arrived, then, reconnect_started,
                           frames_read, sessions, round>>,
         any_failure => any_failure',
         \A d \in Channel : pc'[d] = pc[d] \/ (pc[d] = "unstarted" /\ pc'[d] = "attempt"),
         TypeOK', BarrierInv',
         main' = "exited" => \A d \in Channel : pc'[d] \in {"unstarted", "done"},
         exit' = "0" => /\ main' = "exited" /\ ~any_failure' /\ round = Rounds
                        /\ \A d \in Channel : pc'[d] = "done"
  PROVE  IInv'
  <1>1. \A d : \A g : Up(d, g)' <=> Up(d, g)
    BY DEF Up
  <1>2. ASSUME NEW d \in Channel
        PROVE  WorkerInv(d)' /\ RowsInv(d)' /\ ChannelStatus(d)'
    <2>1. WorkerInv(d) /\ RowsInv(d) /\ ChannelStatus(d)
      BY DEF IInv, StatusInv
    <2>2. pc'[d] = pc[d] \/ (pc[d] = "unstarted" /\ pc'[d] = "attempt")
      OBVIOUS
    <2>3. WorkerInv(d)'
      BY <2>1, <2>2 DEF WorkerInv, Passed, Capturing, Continuations, BeforeUp, Connecting
    <2>4. Up(d, attempt[d])' <=> Up(d, attempt[d])
      BY DEF Up
    <2>5. OutageBegan(d, reconnect_started[d])' <=> OutageBegan(d, reconnect_started[d])
      <3>1. Up(d, reconnect_started[d])' <=> Up(d, reconnect_started[d])
        BY DEF Up
      <3> QED
        BY <1>1, <3>1 DEF OutageBegan
    <2>6. pc'[d] \in BeforeUp => pc[d] \in BeforeUp
      BY <2>2 DEF BeforeUp
    <2>7. RowsInv(d)'
      BY <1>1, <2>1, <2>4, <2>5, <2>6 DEF RowsInv
    <2>8. ChannelStatus(d)'
      BY <1>1, <2>1, <2>2 DEF ChannelStatus
    <2> QED
      BY <2>3, <2>7, <2>8
  <1>3. SessionsAreReadable' /\ OutageIsMeasuredWhole'
    BY DEF IInv, SessionsAreReadable, OutageIsMeasuredWhole
  <1>4. StatusInv'
    BY <1>2 DEF StatusInv
  <1> QED
    BY <1>2, <1>3, <1>4 DEF IInv

LEMMA SameWorkers ==
  ASSUME UNCHANGED workers
  PROVE  /\ UNCHANGED <<pc, attempt, arrival, barrier_arrived, then, left, reconnect_started,
                        frames_read>>
         /\ Started' = Started /\ AtBarrier' = AtBarrier
  BY DEF workers, Started, AtBarrier

LEMMA StartPcapKeeps ==
  ASSUME IInv, StartPcap
  PROVE  IInv'
  <1>1. /\ TypeOK /\ BarrierInv /\ StatusInv
        /\ main = "pcap" /\ main' \in {"starting", "exited"} /\ exit' \in {exit, "2"}
        /\ UNCHANGED <<round, next, start_failed, common, workers, sessions>>
    BY DEF IInv, StartPcap
  <1>2. /\ UNCHANGED <<pc, attempt, arrival, barrier_arrived, then, left, reconnect_started,
                       frames_read, barrier, round_started, remaining, any_failure>>
        /\ Started' = Started /\ AtBarrier' = AtBarrier
    BY <1>1, SameWorkers DEF common
  <1>3. TypeOK'
    BY <1>1, <1>2 DEF TypeOK
  <1>4. Started = {} /\ next = 1
    BY <1>1 DEF BarrierInv
  <1>5. BarrierInv'
    <2>1. \A i : Starting(i)' = Starting(i)
      BY <1>1 DEF Starting
    <2> QED
      BY <1>1, <1>2, <2>1 DEF BarrierInv
  <1>6. \A d \in Channel : pc'[d] = "unstarted"
    BY <1>2, <1>4 DEF Started
  <1>7. exit' # "0"
    BY <1>1 DEF StatusInv
  <1> QED
    BY <1>1, <1>2, <1>3, <1>5, <1>6, <1>7, WorkersStay

LEMMA StartWorkerKeeps ==
  ASSUME IInv, StartWorker
  PROVE  IInv'
  <1> DEFINE N == Cardinality(Channel)
             c == Starting(next)
  <1>1. /\ TypeOK /\ BarrierInv /\ StatusInv
        /\ main = "starting" /\ next \in 1 .. N /\ N \in Nat
        /\ pc' = [pc EXCEPT ![c] = "attempt"] /\ next' = next + 1
        /\ UNCHANGED <<main, round, start_failed, exit, common, attempt, arrival,
                       barrier_arrived, then, left, reconnect_started, frames_read, sessions>>
    BY Size DEF IInv, StartWorker, TypeOK
  <1>2. c \in Channel
    BY <1>1, StartingIsAPermutation
  <1>3. pc[c] = "unstarted"
    <2>1. Started = {Starting(i) : i \in 1 .. next - 1}
      BY <1>1 DEF BarrierInv
    <2>2. ASSUME NEW i \in 1 .. next - 1 PROVE Starting(i) # c
      <3>1. i \in 1 .. N /\ i # next
        BY <1>1
      <3> QED
        BY <1>1, <3>1, StartingIsAPermutation
    <2> HIDE DEF c
    <2>3. c \notin Started
      BY <2>1, <2>2
    <2> QED
      BY <1>2, <2>3 DEF Started
  <1>4. UNCHANGED <<barrier, round_started, remaining, any_failure>>
    BY <1>1 DEF common
  <1>5. \A i : Starting(i)' = Starting(i)
    BY <1>1 DEF Starting
  <1>6. {Starting(i) : i \in 1 .. next} = {Starting(i) : i \in 1 .. next - 1} \cup {c}
    <2>1. 1 .. next = (1 .. next - 1) \cup {next}
      BY <1>1
    <2> QED
      BY <2>1
  <1> HIDE DEF c
  <1>7. \A d \in Channel : pc'[d] = IF d = c THEN "attempt" ELSE pc[d]
    BY <1>1, <1>2 DEF TypeOK
  <1>8. Started' = Started \cup {c} /\ c \notin Started
    BY <1>2, <1>3, <1>7 DEF Started
  <1>9. AtBarrier' = AtBarrier
    <2>1. barrier_arrived' = barrier_arrived
      BY <1>1
    <2>2. \A d \in Channel : pc'[d] = "barrier" <=> pc[d] = "barrier"
      BY <1>3, <1>7
    <2> QED
      BY <2>1, <2>2, Zenon DEF AtBarrier
  <1>10. Cardinality(Started') = Cardinality(Started) + 1 /\ Cardinality(Started) \in Nat
    <2>1. IsFiniteSet(Started) /\ Cardinality(Started) \in Nat
      BY Size DEF Started
    <2> QED
      BY <1>8, <2>1, FS_AddElement
  <1>11. TypeOK'
    <2>1. pc' \in [Channel -> {"unstarted", "barrier"} \cup Connecting \cup Passed]
      <3>1. pc \in [Channel -> {"unstarted", "barrier"} \cup Connecting \cup Passed]
        BY <1>1 DEF TypeOK
      <3> QED
        BY <1>1, <1>2, <3>1 DEF Connecting
    <2>2. next' \in 1 .. Cardinality(Channel) + 1
      BY <1>1
    <2> QED
      BY <1>1, <1>4, <2>1, <2>2 DEF TypeOK
  <1>12. BarrierInv'
    <2>1. barrier'.expected + next' = Cardinality(Started') + N + 1
      BY <1>1, <1>4, <1>10 DEF BarrierInv, TypeOK
    <2>2. Fits(barrier', Cardinality(AtBarrier'))
      BY <1>1, <1>4, <1>9 DEF BarrierInv
    <2>3. next' - 1 = next
      BY <1>1
    <2>4. Started' = {Starting(i)' : i \in 1 .. next' - 1}
      BY <1>1, <1>5, <1>6, <1>8, <2>3 DEF BarrierInv
    <2>5. \A d \in Channel : barrier_arrived'[d] => barrier'.phase = 1
      BY <1>1, <1>4 DEF BarrierInv
    <2>6. ~start_failed' /\ main' = "starting"
      BY <1>1 DEF BarrierInv
    <2> QED
      BY <2>1, <2>2, <2>4, <2>5, <2>6 DEF BarrierInv
  <1>13. exit' # "0" /\ main' # "exited"
    BY <1>1 DEF StatusInv
  <1>14. \A d \in Channel : pc'[d] = pc[d] \/ (pc[d] = "unstarted" /\ pc'[d] = "attempt")
    BY <1>3, <1>7
  <1> QED
    BY <1>1, <1>4, <1>11, <1>12, <1>13, <1>14, WorkersStay

LEMMA StartWorkerFailsKeeps ==
  ASSUME IInv, StartWorkerFails
  PROVE  IInv'
  <1>1. /\ TypeOK /\ BarrierInv /\ StatusInv /\ main = "starting" /\ main' = "dropping"
        /\ UNCHANGED <<round, next, start_failed, exit, common, workers, sessions>>
    BY DEF IInv, StartWorkerFails
  <1>2. /\ UNCHANGED <<pc, attempt, arrival, barrier_arrived, then, left, reconnect_started,
                       frames_read, barrier, round_started, remaining, any_failure>>
        /\ Started' = Started /\ AtBarrier' = AtBarrier
    BY <1>1, SameWorkers DEF common
  <1>3. TypeOK'
    BY <1>1, <1>2 DEF TypeOK
  <1>4. BarrierInv'
    BY <1>1, <1>2 DEF BarrierInv
  <1>5. exit' # "0"
    BY <1>1 DEF StatusInv
  <1> QED
    BY <1>1, <1>2, <1>3, <1>4, <1>5, WorkersStay

LEMMA DropWorkerKeeps ==
  ASSUME IInv, DropWorker
  PROVE  IInv'
  <1> DEFINE N == Cardinality(Channel)
             k == Cardinality(AtBarrier)
  <1>1. /\ TypeOK /\ BarrierInv /\ StatusInv /\ main = "dropping"
        /\ next \in 1 .. N /\ N \in Nat /\ next' = next + 1
        /\ barrier' = Arrived(barrier, 1)
        /\ UNCHANGED <<main, round, start_failed, exit, round_started, remaining, any_failure,
                       workers, sessions>>
        /\ \A c \in Channel : WorkerInv(c)
    BY Size DEF IInv, DropWorker, TypeOK
  <1>2. /\ UNCHANGED <<pc, attempt, arrival, barrier_arrived, then, left, reconnect_started,
                       frames_read>>
        /\ Started' = Started /\ AtBarrier' = AtBarrier
    BY <1>1, SameWorkers
  <1>3. k \in Nat /\ Cardinality(Started) \in Nat /\ k <= Cardinality(Started)
    <2>1. IsFiniteSet(Started) /\ Cardinality(Started) \in Nat /\ k \in Nat
      BY Size DEF Started, AtBarrier
    <2>2. AtBarrier \in SUBSET Started
      BY <1>1, ArrivedAreStarted
    <2> QED
      BY <2>1, <2>2, FS_Subset
  <1>4. /\ barrier \in [left : Nat, expected : Nat, phase : Nat]
        /\ barrier.expected + next = Cardinality(Started) + N + 1
        /\ Fits(barrier, k)
    BY <1>1 DEF TypeOK, BarrierInv
  <1> HIDE DEF k, N
  <1>5. barrier.phase = 0
    BY <1>1, <1>3, <1>4 DEF Fits
  <1>6. PICK b1 : b1 = Arrived(barrier, 1)
    OBVIOUS
  <1>7. /\ b1 \in [left : Nat, expected : Nat, phase : Nat]
        /\ b1.expected = barrier.expected - 1
        /\ Fits(b1, k + 1 - 1)
    BY <1>3, <1>4, <1>5, <1>6, OneArrives
  <1>8. /\ barrier' = b1 /\ k + 1 - 1 = k
        /\ b1.expected + next' = Cardinality(Started) + N + 1
    BY <1>1, <1>3, <1>4, <1>6, <1>7
  <1>9. TypeOK'
    <2>1. next' \in 1 .. Cardinality(Channel) + 1
      BY <1>1 DEF N
    <2> QED
      BY <1>1, <1>2, <1>7, <1>8, <2>1 DEF TypeOK
  <1>10. BarrierInv'
    <2>1. Fits(barrier', Cardinality(AtBarrier'))
      BY <1>2, <1>7, <1>8 DEF k
    <2>2. \A d \in Channel : ~barrier_arrived'[d]
      BY <1>1, <1>2, <1>5 DEF BarrierInv
    <2>3. barrier'.expected + next' = Cardinality(Started') + Cardinality(Channel) + 1
      BY <1>2, <1>8 DEF N
    <2>4. main' = "dropping" /\ ~start_failed'
      BY <1>1 DEF BarrierInv
    <2> QED
      BY <2>1, <2>2, <2>3, <2>4 DEF BarrierInv
  <1>11. exit' # "0" /\ main' # "exited"
    BY <1>1 DEF StatusInv
  <1> QED
    BY <1>1, <1>2, <1>9, <1>10, <1>11, WorkersStay

LEMMA DroppedAllKeeps ==
  ASSUME IInv, DroppedAll
  PROVE  IInv'
  <1>1. /\ TypeOK /\ BarrierInv /\ StatusInv /\ main = "dropping" /\ main' = "joining"
        /\ any_failure' = TRUE /\ start_failed' = TRUE
        /\ UNCHANGED <<round, next, exit, barrier, round_started, remaining, workers, sessions>>
    BY DEF IInv, DroppedAll
  <1>2. /\ UNCHANGED <<pc, attempt, arrival, barrier_arrived, then, left, reconnect_started,
                       frames_read>>
        /\ Started' = Started /\ AtBarrier' = AtBarrier
    BY <1>1, SameWorkers
  <1>3. TypeOK'
    BY <1>1, <1>2 DEF TypeOK
  <1>4. any_failure' /\ start_failed'
    BY <1>1
  <1>5. BarrierInv'
    BY <1>1, <1>2, <1>4 DEF BarrierInv
  <1>6. exit' # "0"
    BY <1>1 DEF StatusInv
  <1> QED
    BY <1>1, <1>2, <1>3, <1>4, <1>5, <1>6, WorkersStay

LEMMA StartedAllKeeps ==
  ASSUME IInv, StartedAll
  PROVE  IInv'
  <1> DEFINE N == Cardinality(Channel)
  <1>1. /\ TypeOK /\ BarrierInv /\ StatusInv /\ main = "starting" /\ main' = "joining"
        /\ next = N + 1 /\ N \in Nat
        /\ UNCHANGED <<round, next, start_failed, exit, common, workers, sessions>>
    BY Size DEF IInv, StartedAll, TypeOK
  <1>2. /\ UNCHANGED <<pc, attempt, arrival, barrier_arrived, then, left, reconnect_started,
                       frames_read, barrier, round_started, remaining, any_failure>>
        /\ Started' = Started /\ AtBarrier' = AtBarrier
    BY <1>1, SameWorkers DEF common
  <1>3. TypeOK'
    BY <1>1, <1>2 DEF TypeOK
  <1>4. Started = Channel
    <2>1. Started = {Starting(i) : i \in 1 .. next - 1} /\ next - 1 = N
      BY <1>1 DEF BarrierInv
    <2> QED
      BY <2>1, StartingIsAPermutation DEF Started
  <1>5. BarrierInv'
    BY <1>1, <1>2, <1>4 DEF BarrierInv
  <1>6. exit' # "0"
    BY <1>1 DEF StatusInv
  <1> QED
    BY <1>1, <1>2, <1>3, <1>5, <1>6, WorkersStay

LEMMA FinishKeeps ==
  ASSUME IInv, Finish
  PROVE  IInv'
  <1>1. /\ TypeOK /\ BarrierInv /\ StatusInv /\ main = "joining" /\ main' = "exited" /\ Joined
        /\ start_failed \/ round = Rounds
        /\ UNCHANGED <<round, next, start_failed, barrier, round_started, remaining,
                       workers, sessions>>
    BY DEF IInv, Finish
  <1>2. /\ UNCHANGED <<pc, attempt, arrival, barrier_arrived, then, left, reconnect_started,
                       frames_read>>
        /\ Started' = Started /\ AtBarrier' = AtBarrier
    BY <1>1, SameWorkers
  <1>3. /\ any_failure' \in BOOLEAN /\ (any_failure => any_failure')
        /\ exit' \in {"0", "1"} /\ (exit' = "0" => ~any_failure')
    <2>1. any_failure' \in {any_failure, TRUE}
      BY DEF Finish
    <2>2. exit' \in IF ~any_failure' THEN {"0", "1"} ELSE {"1"}
      BY DEF Finish
    <2>3. any_failure' \in BOOLEAN /\ (any_failure => any_failure')
      BY <1>1, <2>1, Zenon DEF TypeOK
    <2>4. exit' \in {"0", "1"} /\ (exit' = "0" => ~any_failure')
      <3>1. CASE any_failure'
        BY <2>2, <3>1
      <3>2. CASE ~any_failure'
        BY <2>2, <3>2
      <3> QED
        BY <3>1, <3>2
    <2> QED
      BY <2>3, <2>4
  <1>4. TypeOK'
    BY <1>1, <1>2, <1>3 DEF TypeOK
  <1>5. BarrierInv'
    BY <1>1, <1>2, <1>3 DEF BarrierInv
  <1>6. \A d \in Channel : pc'[d] \in {"unstarted", "done"}
    BY <1>1, <1>2 DEF Joined
  <1>7. ASSUME exit' = "0"
        PROVE  /\ main' = "exited" /\ ~any_failure' /\ round = Rounds
               /\ \A d \in Channel : pc'[d] = "done"
    <2>1. ~any_failure' /\ ~any_failure
      BY <1>3, <1>7
    <2>2. ~start_failed /\ Started = Channel
      BY <1>1, <2>1 DEF BarrierInv
    <2>3. \A d \in Channel : pc'[d] = "done"
      BY <1>2, <1>6, <2>2 DEF Started
    <2> QED
      BY <1>1, <2>1, <2>2, <2>3
  <1> QED
    BY <1>1, <1>2, <1>3, <1>4, <1>5, <1>6, <1>7, WorkersStay

LEMMA TickKeeps ==
  ASSUME IInv, Tick
  PROVE  IInv'
  <1>1. /\ TypeOK /\ BarrierInv /\ StatusInv
        /\ UNCHANGED <<supervisor, barrier, round_started, any_failure, pc, attempt, arrival,
                       barrier_arrived, then, reconnect_started, frames_read, sessions>>
    BY DEF IInv, Tick
  <1>2. UNCHANGED <<main, round, next, start_failed, exit>>
    BY <1>1 DEF supervisor
  <1>3. remaining' \in Nat /\ left' \in [Channel -> Nat]
    BY <1>1 DEF Tick, TypeOK, Less
  <1>4. TypeOK'
    BY <1>1, <1>2, <1>3 DEF TypeOK
  <1>5. Started' = Started /\ AtBarrier' = AtBarrier
    BY <1>1 DEF Started, AtBarrier
  <1>6. BarrierInv'
    BY <1>1, <1>2, <1>5, BarrierStays DEF BarrierInv
  <1>7. exit' = "0" => /\ main' = "exited" /\ ~any_failure' /\ round = Rounds
                       /\ \A d \in Channel : pc'[d] = "done"
    BY <1>1, <1>2 DEF StatusInv
  <1>8. main' = "exited" => \A d \in Channel : pc'[d] \in {"unstarted", "done"}
    BY <1>1, <1>2 DEF StatusInv
  <1> QED
    BY <1>1, <1>2, <1>4, <1>6, <1>7, <1>8, WorkersStay

LEMMA NextRoundKeeps ==
  ASSUME IInv, NextRound
  PROVE  IInv'
  <1>1. /\ TypeOK /\ BarrierInv /\ StatusInv /\ SessionsAreReadable /\ OutageIsMeasuredWhole
        /\ main = "joining" /\ Joined /\ ~start_failed /\ round < Rounds
        /\ round' = round + 1 /\ next' = 1 /\ main' = "starting" /\ barrier' = FreshBarrier
        /\ round_started' = FALSE /\ remaining' = 0
        /\ pc' = [c \in Channel |-> "unstarted"] /\ attempt' = [c \in Channel |-> 1]
        /\ arrival' = [c \in Channel |-> 0] /\ barrier_arrived' = [c \in Channel |-> FALSE]
        /\ then' = [c \in Channel |-> "done"] /\ left' = [c \in Channel |-> 0]
        /\ reconnect_started' = [c \in Channel |-> 0]
        /\ frames_read' = [c \in Channel |-> FALSE]
        /\ UNCHANGED <<start_failed, exit, any_failure, sessions>>
    BY DEF IInv, NextRound
  <1>2. /\ round \in 1 .. Rounds /\ Rounds \in Nat /\ Attempts \in 1 .. 3
        /\ Cardinality(Channel) \in Nat
    BY <1>1, CaptureAssumption, Size DEF TypeOK
  <1>3. ASSUME NEW c \in Channel
        PROVE  /\ pc'[c] = "unstarted" /\ attempt'[c] = 1 /\ ~barrier_arrived'[c]
               /\ reconnect_started'[c] = 0 /\ ~frames_read'[c] /\ pc[c] = "done"
    <2>1. pc[c] = "done"
      BY <1>1 DEF BarrierInv, Started, Joined
    <2> QED
      BY <1>1, <2>1
  <1>4. FreshBarrier \in [left : Nat, expected : Nat, phase : Nat]
    BY <1>2 DEF FreshBarrier
  <1>5. TypeOK'
    <2>1. round' \in 1 .. Rounds /\ next' \in 1 .. Cardinality(Channel) + 1 /\ 1 \in 1 .. Attempts
      BY <1>1, <1>2
    <2>2. /\ round_started' \in BOOLEAN
          /\ barrier_arrived' \in [Channel -> BOOLEAN] /\ frames_read' \in [Channel -> BOOLEAN]
      BY <1>1, Zenon
    <2>3. /\ attempt' \in [Channel -> 1 .. Attempts]
          /\ reconnect_started' \in [Channel -> 0 .. Attempts]
          /\ remaining' \in Nat /\ left' \in [Channel -> Nat] /\ arrival' \in [Channel -> Nat]
          /\ then' \in [Channel -> Continuations]
          /\ pc' \in [Channel -> {"unstarted", "barrier"} \cup Connecting \cup Passed]
      BY <1>1, <1>2, <2>1 DEF Continuations
    <2>4. UNCHANGED <<start_failed, exit, any_failure, sessions>>
      BY <1>1
    <2> QED
      BY <1>1, <1>4, <2>1, <2>2, <2>3, <2>4 DEF TypeOK
  <1>6. BarrierInv'
    <2>1. Started' = {} /\ AtBarrier' = {}
      BY <1>3 DEF Started, AtBarrier
    <2>2. Cardinality(Started') = 0 /\ Cardinality(AtBarrier') = 0
      BY <2>1, FS_EmptySet
    <2>3. FreshBarrier.expected + next' = 0 + Cardinality(Channel) + 1 /\ Fits(FreshBarrier, 0)
      BY <1>1, <1>2, Size DEF FreshBarrier, Fits
    <2>4. Started' = {Starting(i)' : i \in 1 .. next' - 1}
      BY <1>1, <2>1
    <2>5. barrier'.expected + next' = Cardinality(Started') + Cardinality(Channel) + 1
      BY <1>1, <2>2, <2>3
    <2>6. Fits(barrier', Cardinality(AtBarrier'))
      BY <1>1, <2>2, <2>3
    <2>7. main' = "starting" /\ ~start_failed' /\ \A c \in Channel : ~barrier_arrived'[c]
      BY <1>1, <1>3
    <2> QED
      BY <2>4, <2>5, <2>6, <2>7 DEF BarrierInv
  <1>7. ASSUME NEW c \in Channel
        PROVE  WorkerInv(c)' /\ RowsInv(c)' /\ ChannelStatus(c)'
    <2>1. RowsInv(c) /\ ChannelStatus(c) /\ sessions' = sessions
      BY <1>1 DEF IInv, StatusInv
    <2>2. sessions[c] \in Seq(RowType)
      BY <1>1 DEF TypeOK
    <2>3. \A j \in DOMAIN sessions[c] :
            /\ sessions[c][j].round \in Nat /\ sessions[c][j].round <= round
      <3>1. \A j \in DOMAIN sessions[c] : sessions[c][j] \in RowType
        BY <2>2
      <3> QED
        BY <1>2, <2>1, <3>1 DEF RowsInv, RowType
    <2>4. \A j \in DOMAIN sessions[c] : sessions[c][j].round # round'
      BY <1>1, <1>2, <2>3
    <2>5. \A g : ~Up(c, g)'
      BY <2>1, <2>4 DEF Up
    <2>6. WorkerInv(c)'
      BY <1>3 DEF WorkerInv, BeforeUp, Passed, Capturing, Continuations
    <2>7. RowsInv(c)'
      <3>1. \A j \in DOMAIN sessions'[c] : sessions'[c][j].round <= round'
        BY <1>1, <1>2, <2>1, <2>3
      <3>2. ~Up(c, attempt[c])'
        BY <2>1, <2>4 DEF Up
      <3>3. reconnect_started'[c] = 0 /\ ~(attempt'[c] > 1)
        BY <1>3
      <3> QED
        BY <2>5, <3>1, <3>2, <3>3 DEF RowsInv
    <2>8. ChannelStatus(c)'
      <3>1. ASSUME ~any_failure'
            PROVE  \A r \in 1 .. round' - 1 : Earned(sessions'[c], r)
        <4>1. ~any_failure
          BY <1>1, <3>1
        <4>2. /\ \A r \in 1 .. round - 1 : Earned(sessions[c], r)
              /\ Earned(sessions[c], round)
          BY <1>3, <2>1, <4>1 DEF ChannelStatus
        <4>3. \A r \in 1 .. round' - 1 : r \in 1 .. round - 1 \/ r = round
          BY <1>1, <1>2
        <4> QED
          BY <2>1, <4>2, <4>3
      <3>2. pc'[c] = "unstarted" /\ ~frames_read'[c]
        BY <1>3
      <3> QED
        BY <2>5, <3>1, <3>2 DEF ChannelStatus
    <2> QED
      BY <2>6, <2>7, <2>8
  <1>8. SessionsAreReadable' /\ OutageIsMeasuredWhole'
    BY <1>1 DEF SessionsAreReadable, OutageIsMeasuredWhole
  <1>9. exit' # "0" /\ main' # "exited"
    BY <1>1 DEF StatusInv
  <1>10. StatusInv'
    BY <1>7, <1>9 DEF StatusInv
  <1> QED
    BY <1>5, <1>6, <1>7, <1>8, <1>10 DEF IInv

-----------------------------------------------------------------------------
(* The invariant *)

LEMMA InitIInv == Init => IInv
  <1> SUFFICES ASSUME Init PROVE IInv
    OBVIOUS
  <1>1. /\ Rounds \in Nat /\ Rounds > 0 /\ Attempts \in 1 .. 3
        /\ Cardinality(Channel) \in Nat /\ Cardinality(Channel) > 0
    BY CaptureAssumption, Size
  <1>2. TypeOK
    <2>1. 1 \in 1 .. Rounds /\ 1 \in 1 .. Cardinality(Channel) + 1 /\ 1 \in 1 .. Attempts
      BY <1>1
    <2>2. main \in {"pcap", "starting"}
      BY DEF Init
    <2>3. barrier \in [left : Nat, expected : Nat, phase : Nat]
      BY <1>1 DEF Init, FreshBarrier
    <2>4. sessions \in [Channel -> Seq(RowType)]
      <3>1. << >> \in Seq(RowType)
        OBVIOUS
      <3> QED
        BY <3>1 DEF Init
    <2>5. /\ start_failed \in BOOLEAN /\ round_started \in BOOLEAN /\ any_failure \in BOOLEAN
          /\ barrier_arrived \in [Channel -> BOOLEAN] /\ frames_read \in [Channel -> BOOLEAN]
      BY DEF Init
    <2> QED
      BY <1>1, <2>1, <2>2, <2>3, <2>4, <2>5 DEF Init, TypeOK, Continuations
  <1>3. \A c \in Channel :
          /\ pc[c] = "unstarted" /\ attempt[c] = 1 /\ ~barrier_arrived[c]
          /\ reconnect_started[c] = 0 /\ ~frames_read[c] /\ sessions[c] = << >>
    BY DEF Init
  <1>4. BarrierInv
    <2>1. Started = {} /\ AtBarrier = {}
      BY <1>3 DEF Started, AtBarrier
    <2>2. Cardinality(Started) = 0 /\ Cardinality(AtBarrier) = 0
      BY <2>1, FS_EmptySet
    <2>3. barrier.expected + next = Cardinality(Started) + Cardinality(Channel) + 1
      BY <1>1, <2>2 DEF Init, FreshBarrier
    <2>4. Fits(barrier, 0)
      BY <1>1 DEF Init, FreshBarrier, Fits
    <2>5. next = 1 /\ main \in {"pcap", "starting"} /\ ~start_failed
      BY DEF Init
    <2>6. Started = {Starting(i) : i \in 1 .. next - 1}
      BY <2>1, <2>5
    <2> QED
      BY <1>3, <2>2, <2>3, <2>4, <2>5, <2>6 DEF BarrierInv
  <1>5. ASSUME NEW c \in Channel
        PROVE  /\ WorkerInv(c) /\ RowsInv(c) /\ ChannelStatus(c)
               /\ LifecycleAccepts(sessions[c]) /\ MeasuredWhole(sessions[c])
    <2>1. DOMAIN sessions[c] = {}
      BY <1>3
    <2>2. \A g : ~Up(c, g)
      BY <2>1 DEF Up
    <2>3. WorkerInv(c)
      BY <1>3 DEF WorkerInv, BeforeUp, Passed, Capturing, Continuations
    <2>4. RowsInv(c)
      BY <1>3, <2>1, <2>2 DEF RowsInv
    <2>5. ChannelStatus(c)
      <3>1. 1 .. round - 1 = {}
        BY DEF Init
      <3> QED
        BY <1>3, <2>2, <3>1 DEF ChannelStatus
    <2>6. LifecycleAccepts(sessions[c]) /\ MeasuredWhole(sessions[c])
      BY <2>1 DEF LifecycleAccepts, MeasuredWhole
    <2> QED
      BY <2>3, <2>4, <2>5, <2>6
  <1>6. exit = "none" /\ main # "exited"
    BY <1>2 DEF Init
  <1>7. StatusInv
    BY <1>5, <1>6 DEF StatusInv
  <1> QED
    BY <1>2, <1>4, <1>5, <1>7 DEF IInv, SessionsAreReadable, OutageIsMeasuredWhole

LEMMA NetworkOperationKeeps ==
  ASSUME IInv, NEW c \in Channel, NetworkOperation(c)
  PROVE  IInv'
  <1>1. CASE SetupSucceeds(c)
    BY <1>1, SetupSucceedsKeeps
  <1>2. CASE SetupFails(c) \/ HandshakeEnds(c)
    BY <1>2, SetupOrHandshakeKeeps
  <1>3. CASE SubscribeEnds(c)
    <2>1. PICK where \in {"subscribing"}, after \in {"connected"} :
            SessionOperationEnds(c, where, after)
      BY <1>3 DEF SubscribeEnds
    <2>2. UNCHANGED frames_read
      BY <1>3 DEF SubscribeEnds
    <2> QED
      BY <2>1, <2>2, SessionOperationKeeps
  <1>4. CASE ReadEnds(c)
    <2>1. PICK where \in {"reading"}, after \in {"frame"} :
            SessionOperationEnds(c, where, after)
      BY <1>4 DEF ReadEnds
    <2>2. UNCHANGED frames_read /\ where \in Running /\ after \in Running
          /\ where # "subscribing" /\ after # "connected"
      BY <1>4, <2>1 DEF ReadEnds, Running
    <2> QED
      BY <2>1, <2>2, SessionOperationKeeps
  <1>5. CASE PongEnds(c)
    <2>1. PICK where \in {"ponging"}, after \in {"top"} :
            SessionOperationEnds(c, where, after)
      BY <1>5 DEF PongEnds
    <2>2. UNCHANGED frames_read /\ where \in Running /\ after \in Running
          /\ where # "subscribing" /\ after # "connected"
      BY <1>5, <2>1 DEF PongEnds, Running
    <2> QED
      BY <2>1, <2>2, SessionOperationKeeps
  <1> QED
    BY <1>1, <1>2, <1>3, <1>4, <1>5 DEF NetworkOperation

LEMMA LocalStepKeeps ==
  ASSUME IInv, NEW c \in Channel, LocalStep(c)
  PROVE  IInv'
  <1>1. CASE PassBarrier(c)
    BY <1>1, PassBarrierKeeps
  <1>2. CASE BeginAttempt(c)
    BY <1>2, BeginAttemptKeeps
  <1>3. CASE RefuseAttempt(c)
    BY <1>3, RefuseAttemptKeeps
  <1>4. CASE FailAttempt(c)
    BY <1>4, FailAttemptKeeps
  <1>5. CASE DropAttempt(c)
    BY <1>5, DropAttemptKeeps
  <1>6. CASE BeginSubscribe(c)
    BY <1>6, BeginSubscribeKeeps
  <1>7. CASE Connected(c)
    BY <1>7, ConnectedKeeps
  <1>8. CASE BeginRead(c)
    BY <1>8, BeginReadKeeps
  <1>9. CASE TakeFrame(c)
    BY <1>9, TakeFrameKeeps
  <1>10. CASE AttemptDeadline(c)
    BY <1>10, AttemptDeadlineKeeps
  <1>11. CASE AttemptFatal(c)
    BY <1>11, AttemptFatalKeeps
  <1>12. CASE AttemptDisconnected(c)
    BY <1>12, AttemptDisconnectedKeeps
  <1>13. CASE Wake(c)
    BY <1>13, WakeKeeps
  <1> QED
    BY <1>1, <1>2, <1>3, <1>4, <1>5, <1>6, <1>7, <1>8, <1>9, <1>10, <1>11, <1>12, <1>13
       DEF LocalStep

LEMMA SupervisorStepKeeps ==
  ASSUME IInv, SupervisorStep
  PROVE  IInv'
  <1>1. CASE StartPcap
    BY <1>1, StartPcapKeeps
  <1>2. CASE StartWorker
    BY <1>2, StartWorkerKeeps
  <1>3. CASE StartWorkerFails
    BY <1>3, StartWorkerFailsKeeps
  <1>4. CASE DropWorker
    BY <1>4, DropWorkerKeeps
  <1>5. CASE DroppedAll
    BY <1>5, DroppedAllKeeps
  <1>6. CASE StartedAll
    BY <1>6, StartedAllKeeps
  <1>7. CASE NextRound
    BY <1>7, NextRoundKeeps
  <1>8. CASE Finish
    BY <1>8, FinishKeeps
  <1> QED
    BY <1>1, <1>2, <1>3, <1>4, <1>5, <1>6, <1>7, <1>8 DEF SupervisorStep

LEMMA NothingChanges == IInv /\ UNCHANGED vars => IInv'
  <1> SUFFICES ASSUME IInv, UNCHANGED vars PROVE IInv'
    OBVIOUS
  <1>1. /\ UNCHANGED <<main, round, next, start_failed, exit>>
        /\ UNCHANGED <<barrier, round_started, remaining, any_failure>>
        /\ UNCHANGED <<pc, attempt, arrival, barrier_arrived, then, left, reconnect_started,
                       frames_read, sessions>>
    BY DEF vars, supervisor, common
  <1>2. TypeOK'
    BY <1>1 DEF IInv, TypeOK
  <1>3. Started' = Started /\ AtBarrier' = AtBarrier
    BY <1>1 DEF Started, AtBarrier
  <1>4. BarrierInv'
    BY <1>1, <1>3, BarrierStays DEF IInv, BarrierInv
  <1>5. exit' = "0" => /\ main' = "exited" /\ ~any_failure' /\ round = Rounds
                       /\ \A d \in Channel : pc'[d] = "done"
    BY <1>1 DEF IInv, StatusInv
  <1>6. main' = "exited" => \A d \in Channel : pc'[d] \in {"unstarted", "done"}
    BY <1>1 DEF IInv, StatusInv
  <1> QED
    BY <1>1, <1>2, <1>4, <1>5, <1>6, WorkersStay

LEMMA NextKeepsIInv == IInv /\ [Next]_vars => IInv'
  <1> SUFFICES ASSUME IInv, [Next]_vars PROVE IInv'
    OBVIOUS
  <1>1. CASE SupervisorStep
    BY <1>1, SupervisorStepKeeps
  <1>2. ASSUME NEW c \in Channel, NetworkOperation(c) PROVE IInv'
    BY <1>2, NetworkOperationKeeps
  <1>3. ASSUME NEW c \in Channel, LocalStep(c) PROVE IInv'
    BY <1>3, LocalStepKeeps
  <1>4. ASSUME NEW c \in Channel, Throw(c) PROVE IInv'
    BY <1>4, ThrowKeeps
  <1>5. CASE Tick
    BY <1>5, TickKeeps
  <1>6. CASE Exited \/ UNCHANGED vars
    BY <1>6, NothingChanges DEF Exited
  <1> QED
    BY <1>1, <1>2, <1>3, <1>4, <1>5, <1>6 DEF Next

-----------------------------------------------------------------------------
(* The theorems *)

\* The invariant of a capture: the barrier counts the workers that were started
\* and those that will not be, and a worker's rows agree with where it is.
THEOREM CaptureInvariant == Spec => []IInv
  BY InitIInv, NextKeepsIInv, PTL DEF Spec

\* No variable of the supervisor or of a worker leaves its type.
THEOREM CaptureTypeCorrect == Spec => []TypeOK
  <1>1. IInv => TypeOK
    BY DEF IInv
  <1> QED
    BY <1>1, CaptureInvariant, PTL

\* However attempts end and threads fail to start, start_barrier completes one
\* phase, and nobody is left waiting for, or counted into, a second one.
THEOREM BarrierIsAlwaysUsedOnce == Spec => []BarrierIsUsedOnce
  <1>1. IInv => BarrierIsUsedOnce
    <2> SUFFICES ASSUME IInv PROVE BarrierIsUsedOnce
      OBVIOUS
    <2>1. Fits(barrier, Cardinality(AtBarrier)) /\ Cardinality(AtBarrier) \in Nat
      BY Size DEF IInv, BarrierInv, AtBarrier
    <2>2. barrier.phase <= 1 /\ (barrier.phase = 1 => barrier.left = barrier.expected)
      BY <2>1 DEF Fits
    <2>3. ASSUME NEW c \in Channel
          PROVE  /\ pc[c] = "barrier" => arrival[c] = 0
                 /\ pc[c] = "done" => barrier_arrived[c]
      BY DEF IInv, WorkerInv, Passed, Continuations
    <2> QED
      BY <2>2, <2>3 DEF BarrierIsUsedOnce
  <1> QED
    BY <1>1, CaptureInvariant, PTL

\* No channel captures before every channel of the round has connected, failed
\* or been given up: a worker behind the barrier has all of them behind it.
THEOREM NobodyEverStartsEarly == Spec => []NobodyStartsEarly
  <1>1. IInv => NobodyStartsEarly
    <2> SUFFICES ASSUME IInv, NEW c \in Channel, pc[c] \in Capturing, NEW d \in Channel
                 PROVE  /\ pc[d] = "unstarted" => main = "dropping" \/ start_failed
                        /\ pc[d] \in Connecting => barrier_arrived[d]
      BY DEF NobodyStartsEarly, Connecting
    <2> DEFINE N == Cardinality(Channel)
               k == Cardinality(AtBarrier)
               m == Cardinality(Started)
    <2>1. TypeOK /\ BarrierInv /\ StatusInv /\ \A e \in Channel : WorkerInv(e)
      BY DEF IInv
    <2>2. barrier_arrived[c]
      BY <2>1 DEF WorkerInv, Passed
    <2>3. /\ barrier.phase = 1 /\ Fits(barrier, k) /\ barrier.expected + next = m + N + 1
          /\ next \in 1 .. N + 1
      BY <2>1, <2>2 DEF BarrierInv, TypeOK
    <2>4. /\ IsFiniteSet(Started) /\ m \in Nat /\ k \in Nat /\ N \in Nat /\ N > 0
      BY Size DEF Started, AtBarrier
    <2>5. AtBarrier \in SUBSET Started
      BY <2>1, ArrivedAreStarted
    <2>6. k <= m /\ (k = m => AtBarrier = Started)
      BY <2>4, <2>5, FS_Subset
    <2>7. next = N + 1 /\ AtBarrier = Started
      <3> HIDE DEF N, k, m
      <3>1. barrier.expected = k
        BY <2>3 DEF Fits
      <3>2. k = m /\ next = N + 1
        BY <2>3, <2>4, <2>6, <3>1
      <3> QED
        BY <2>6, <3>2
    <2>8. ASSUME pc[d] = "unstarted" PROVE main = "dropping" \/ start_failed
      <3>1. d \notin Started
        BY <2>8 DEF Started
      <3>2. CASE main = "pcap"
        <4>1. next = 1
          BY <2>1, <3>2 DEF BarrierInv
        <4> QED
          BY <2>4, <2>7, <4>1
      <3>3. CASE main = "starting"
        <4>1. Started = {Starting(i) : i \in 1 .. next - 1} /\ next - 1 = N
          BY <2>1, <2>4, <2>7, <3>3 DEF BarrierInv
        <4> QED
          BY <3>1, <4>1, StartingIsAPermutation
      <3>4. CASE main = "joining"
        BY <2>1, <3>1, <3>4 DEF BarrierInv
      <3>5. CASE main = "exited"
        <4>1. pc[c] \in {"unstarted", "done"}
          BY <2>1, <3>5 DEF StatusInv
        <4> QED
          BY <4>1 DEF Capturing
      <3> QED
        BY <2>1, <3>2, <3>3, <3>4, <3>5 DEF TypeOK
    <2>9. ASSUME pc[d] \in Connecting PROVE barrier_arrived[d]
      <3>1. d \in AtBarrier /\ pc[d] # "barrier"
        BY <2>7, <2>9 DEF Started, Connecting
      <3> QED
        BY <3>1 DEF AtBarrier
    <2> QED
      BY <2>8, <2>9
  <1> QED
    BY <1>1, CaptureInvariant, PTL

\* Round, stage, outcome, generation and reconnect duration of every row a worker
\* hands to the writer are such as read_lifecycle accepts, in every state.
THEOREM SessionsAreAlwaysReadable == Spec => []SessionsAreReadable
  <1>1. IInv => SessionsAreReadable
    BY DEF IInv
  <1> QED
    BY <1>1, CaptureInvariant, PTL

\* A recorded reconnect duration runs from the end of the last session that was
\* up, over all the attempts that failed in between.
THEOREM OutagesAreMeasured == Spec => []OutageIsMeasuredWhole
  <1>1. IInv => OutageIsMeasuredWhole
    BY DEF IInv
  <1> QED
    BY <1>1, CaptureInvariant, PTL

\* Status 0 means that every channel was up at the end of every round, and
\* delivered a frame.
THEOREM StatusZeroIsAlwaysEarned == Spec => []StatusZeroIsEarned
  <1>1. IInv => StatusZeroIsEarned
    <2> SUFFICES ASSUME IInv, exit = "0", NEW c \in Channel, NEW r \in 1 .. Rounds
                 PROVE  Earned(sessions[c], r) /\ (r = Rounds => frames_read[c])
      BY DEF StatusZeroIsEarned
    <2>1. ChannelStatus(c) /\ ~any_failure /\ round = Rounds /\ pc[c] = "done"
      BY DEF IInv, StatusInv
    <2>2. /\ \A q \in 1 .. round - 1 : Earned(sessions[c], q)
          /\ Earned(sessions[c], round) /\ frames_read[c]
      BY <2>1 DEF ChannelStatus
    <2>3. r \in 1 .. round - 1 \/ r = round
      BY <2>1, CaptureAssumption
    <2> QED
      BY <2>1, <2>2, <2>3
  <1> QED
    BY <1>1, CaptureInvariant, PTL

\* A worker's step moves that worker only.
LEMMA OneWorkerMoves ==
  ASSUME NEW d \in Channel, NetworkOperation(d) \/ LocalStep(d) \/ Throw(d)
  PROVE  \E where : pc' = [pc EXCEPT ![d] = where]
  <1>1. CASE Throw(d) \/ RefuseAttempt(d) \/ SetupFails(d)
    BY <1>1 DEF Throw, RefuseAttempt, SetupFails, Synchronize
  <1>2. CASE HandshakeEnds(d)
    BY <1>2 DEF HandshakeEnds, Synchronize
  <1>3. CASE SubscribeEnds(d) \/ ReadEnds(d) \/ PongEnds(d)
    BY <1>3 DEF SubscribeEnds, ReadEnds, PongEnds, SessionOperationEnds, Goto
  <1>4. CASE PassBarrier(d) \/ SetupSucceeds(d) \/ FailAttempt(d) \/ DropAttempt(d)
             \/ Connected(d) \/ AttemptDeadline(d) \/ AttemptFatal(d) \/ Wake(d)
    BY <1>4 DEF PassBarrier, SetupSucceeds, FailAttempt, DropAttempt, Connected,
       AttemptDeadline, AttemptFatal, Wake, Goto
  <1>5. CASE BeginAttempt(d) \/ BeginSubscribe(d) \/ BeginRead(d) \/ TakeFrame(d)
             \/ AttemptDisconnected(d)
    BY <1>5 DEF BeginAttempt, BeginSubscribe, BeginRead, TakeFrame, AttemptDisconnected,
       Block, Goto
  <1> QED
    BY <1>1, <1>2, <1>3, <1>4, <1>5 DEF NetworkOperation, LocalStep

\* When the deadline has come, an operation of an open session ends well or with
\* the round.
LEMMA EndsAtDeadline ==
  ASSUME NEW c \in Channel, NEW where, NEW after, SessionOperationEnds(c, where, after),
         remaining = 0, pc \in [Channel -> {"unstarted", "barrier"} \cup Connecting \cup Passed]
  PROVE  pc'[c] \in {after, "deadline"}
  <1>1. PICK where_to \in {after, "deadline"} : pc' = [pc EXCEPT ![c] = where_to]
    BY DEF SessionOperationEnds, Goto
  <1> QED
    BY <1>1

\* The other workers wait as before when one worker steps, and the time of the
\* round is set only while nobody has left the barrier.
LEMMA OthersWait ==
  ASSUME WaitInv, NEW d \in Channel,
         round_started => round_started' /\ remaining' = remaining,
         \A c \in Channel \ {d} :
           pc'[c] = pc[c] /\ left'[c] = left[c] /\ barrier_arrived'[c] = barrier_arrived[c],
         barrier_arrived'[d] =>
           round_started' /\ (pc'[d] \in TimedWaits => left'[d] <= remaining')
  PROVE  WaitInv'
  BY DEF WaitInv

\* A worker's step that leaves barrier and round alone and waits, if at all, no
\* longer than the round.
LEMMA ShortWaits ==
  ASSUME IInv, WaitInv, NEW d \in Channel, NEW where, NEW time \in Nat,
         pc' = [pc EXCEPT ![d] = where], left' = [left EXCEPT ![d] = time],
         UNCHANGED <<barrier_arrived, round_started, remaining>>,
         barrier_arrived[d] /\ where \in TimedWaits => time <= remaining
  PROVE  WaitInv'
  <1>1. pc \in [Channel -> {"unstarted", "barrier"} \cup Connecting \cup Passed]
        /\ left \in [Channel -> Nat]
    BY DEF IInv, TypeOK
  <1>2. /\ pc'[d] = where /\ left'[d] = time
        /\ \A c \in Channel \ {d} : pc'[c] = pc[c] /\ left'[c] = left[c]
    BY <1>1
  <1> QED
    BY <1>2 DEF WaitInv

\* The same for a step that leaves the operation's time as it is.
LEMMA NoNewWait ==
  ASSUME IInv, WaitInv, NEW d \in Channel, NEW where, UNCHANGED left,
         pc' = [pc EXCEPT ![d] = where],
         UNCHANGED <<barrier_arrived, round_started, remaining>>,
         where \in TimedWaits => pc[d] \in TimedWaits
  PROVE  WaitInv'
  <1>1. pc \in [Channel -> {"unstarted", "barrier"} \cup Connecting \cup Passed]
    BY DEF IInv, TypeOK
  <1>2. pc'[d] = where /\ \A c \in Channel \ {d} : pc'[c] = pc[c]
    BY <1>1
  <1> QED
    BY <1>2 DEF WaitInv

LEMMA SynchronizeKeepsWaits ==
  ASSUME IInv, WaitInv, NEW d \in Channel, NEW continuation \in Continuations,
         Synchronize(d, continuation)
  PROVE  WaitInv'
  <1>1. PICK where \in Continuations \cup {"barrier"} : pc' = [pc EXCEPT ![d] = where]
    BY DEF Synchronize
  <1>2. left' = [left EXCEPT ![d] = 0]
    BY DEF Synchronize
  <1>3. UNCHANGED <<barrier_arrived, round_started, remaining>>
    BY DEF Synchronize, meeting
  <1>4. where \notin TimedWaits
    BY DEF TimedWaits, SessionWaits, Continuations
  <1> QED
    BY <1>1, <1>2, <1>3, <1>4, ShortWaits

LEMMA NextKeepsWaits == IInv /\ WaitInv /\ [Next]_vars => WaitInv'
  <1> SUFFICES ASSUME IInv, WaitInv, [Next]_vars PROVE WaitInv'
    OBVIOUS
  <1>0. /\ pc \in [Channel -> {"unstarted", "barrier"} \cup Connecting \cup Passed]
        /\ left \in [Channel -> Nat] /\ remaining \in Nat
        /\ barrier_arrived \in [Channel -> BOOLEAN] /\ then \in [Channel -> Continuations]
        /\ Timeout \in Nat /\ ReadLimit \in Nat /\ Delay \subseteq Nat
    BY CaptureAssumption DEF IInv, TypeOK
  <1>1. ASSUME NEW d \in Channel, PassBarrier(d)
        PROVE  WaitInv'
    <2>1. then[d] \in Continuations /\ then[d] \notin TimedWaits
      BY <1>0 DEF TimedWaits, SessionWaits, Continuations
    <2>2. pc'[d] = then[d] /\ \A c \in Channel \ {d} : pc'[c] = pc[c]
      BY <1>0, <1>1 DEF PassBarrier
    <2>3. \A c \in Channel \ {d} : left'[c] = left[c] /\ barrier_arrived'[c] = barrier_arrived[c]
      BY <1>0, <1>1 DEF PassBarrier
    <2>4. round_started' /\ (round_started => remaining' = remaining)
      BY <1>1 DEF PassBarrier
    <2> QED
      BY <2>1, <2>2, <2>3, <2>4, OthersWait
  <1>2. ASSUME NEW d \in Channel, Throw(d) \/ RefuseAttempt(d) \/ SetupFails(d)
        PROVE  WaitInv'
    <2>1. \E continuation \in Continuations : Synchronize(d, continuation)
      BY <1>2 DEF Throw, RefuseAttempt, SetupFails, Continuations
    <2> QED
      BY <2>1, SynchronizeKeepsWaits
  <1>3. ASSUME NEW d \in Channel, HandshakeEnds(d)
        PROVE  WaitInv'
    <2>1. \E continuation \in Continuations : Synchronize(d, continuation)
      BY <1>3 DEF HandshakeEnds, Continuations
    <2> QED
      BY <2>1, SynchronizeKeepsWaits
  <1>4. ASSUME NEW d \in Channel, SubscribeEnds(d) \/ ReadEnds(d) \/ PongEnds(d)
        PROVE  WaitInv'
    <2>1. PICK where \in {"connected", "frame", "top", "deadline", "drops", "fails"} :
            pc' = [pc EXCEPT ![d] = where]
      BY <1>4 DEF SubscribeEnds, ReadEnds, PongEnds, SessionOperationEnds, Goto
    <2>2. left' = [left EXCEPT ![d] = 0]
      BY <1>4 DEF SubscribeEnds, ReadEnds, PongEnds, SessionOperationEnds
    <2>3. UNCHANGED <<barrier_arrived, round_started, remaining>>
      BY <1>4 DEF SubscribeEnds, ReadEnds, PongEnds, SessionOperationEnds, common
    <2>4. where \notin TimedWaits
      BY DEF TimedWaits, SessionWaits
    <2> QED
      BY <2>1, <2>2, <2>3, <2>4, ShortWaits
  <1>5. ASSUME NEW d \in Channel, BeginAttempt(d)
        PROVE  WaitInv'
    <2>1. UNCHANGED <<barrier_arrived, round_started, remaining>>
      BY <1>5 DEF BeginAttempt, common
    <2>2. CASE pc' = [pc EXCEPT ![d] = "deadline"] /\ UNCHANGED left
      BY <2>1, <2>2, NoNewWait DEF TimedWaits, SessionWaits
    <2>3. CASE /\ pc' = [pc EXCEPT ![d] = "setup"]
               /\ left' = [left EXCEPT ![d] = ConnectTime(d)]
      <3>1. ConnectTime(d) \in Nat /\ (barrier_arrived[d] => ConnectTime(d) <= remaining)
        BY <1>0 DEF ConnectTime, Smaller
      <3> QED
        BY <2>1, <2>3, <3>1, ShortWaits
    <2> QED
      BY <1>5, <2>2, <2>3 DEF BeginAttempt, Block, Goto
  <1>6. ASSUME NEW d \in Channel, BeginSubscribe(d) \/ BeginRead(d) \/ TakeFrame(d)
        PROVE  WaitInv'
    <2>1. UNCHANGED <<barrier_arrived, round_started, remaining>>
      BY <1>6 DEF BeginSubscribe, BeginRead, TakeFrame, common
    <2>2. \/ \E where \in {"connected", "deadline", "top", "fails"} :
               pc' = [pc EXCEPT ![d] = where] /\ UNCHANGED left
          \/ \E where \in {"subscribing", "reading", "ponging"}, time \in {Timeout, ReadLimit} :
               /\ pc' = [pc EXCEPT ![d] = where]
               /\ left' = [left EXCEPT ![d] = Smaller(remaining, time)]
      BY <1>6 DEF BeginSubscribe, BeginRead, TakeFrame, Block, Goto
    <2>3. ASSUME NEW where \in {"connected", "deadline", "top", "fails"},
                 pc' = [pc EXCEPT ![d] = where], UNCHANGED left
          PROVE  WaitInv'
      <3>1. where \notin TimedWaits
        BY DEF TimedWaits, SessionWaits
      <3> QED
        BY <2>1, <2>3, <3>1, NoNewWait
    <2>4. ASSUME NEW where, NEW time \in Nat, pc' = [pc EXCEPT ![d] = where],
                 left' = [left EXCEPT ![d] = Smaller(remaining, time)]
          PROVE  WaitInv'
      <3>1. Smaller(remaining, time) \in Nat /\ Smaller(remaining, time) <= remaining
        BY <1>0 DEF Smaller
      <3> QED
        BY <2>1, <2>4, <3>1, ShortWaits
    <2> QED
      BY <1>0, <2>2, <2>3, <2>4
  <1>7. ASSUME NEW d \in Channel,
               \/ SetupSucceeds(d) \/ FailAttempt(d) \/ DropAttempt(d) \/ Connected(d)
               \/ AttemptDeadline(d) \/ AttemptFatal(d) \/ Wake(d)
        PROVE  WaitInv'
    <2>1. UNCHANGED <<left, barrier_arrived, round_started, remaining>>
      BY <1>7 DEF SetupSucceeds, FailAttempt, DropAttempt, Connected, AttemptDeadline,
                  AttemptFatal, Wake, common
    <2>2. PICK where : /\ pc' = [pc EXCEPT ![d] = where]
                       /\ where \in TimedWaits => pc[d] \in TimedWaits
      BY <1>7 DEF SetupSucceeds, FailAttempt, DropAttempt, Connected, AttemptDeadline,
                  AttemptFatal, Wake, Goto, TimedWaits, SessionWaits
    <2> QED
      BY <2>1, <2>2, NoNewWait
  <1>8. ASSUME NEW d \in Channel, AttemptDisconnected(d)
        PROVE  WaitInv'
    <2>1. UNCHANGED <<barrier_arrived, round_started, remaining>>
      BY <1>8 DEF AttemptDisconnected
    <2>2. CASE \E delay \in Delay :
                 /\ ReconnectWait(d, delay)
                 /\ pc' = [pc EXCEPT ![d] = "sleeping"] /\ left' = [left EXCEPT ![d] = delay]
      <3>1. PICK delay \in Delay :
              /\ ReconnectWait(d, delay)
              /\ pc' = [pc EXCEPT ![d] = "sleeping"] /\ left' = [left EXCEPT ![d] = delay]
        BY <2>2
      <3>2. delay \in Nat /\ delay <= remaining
        BY <1>0, <3>1 DEF ReconnectWait
      <3> QED
        BY <2>1, <3>1, <3>2, ShortWaits
    <2>3. CASE pc' = [pc EXCEPT ![d] = "done"] /\ UNCHANGED left
      BY <2>1, <2>3, NoNewWait DEF TimedWaits, SessionWaits
    <2> QED
      BY <1>8, <2>2, <2>3 DEF AttemptDisconnected, Block, Goto
  <1>9. CASE Tick
    BY <1>0, <1>9 DEF Tick, Less, WaitInv
  <1>10. CASE SupervisorStep
    <2>1. CASE NextRound
      BY <2>1 DEF NextRound, WaitInv
    <2>2. CASE StartWorker
      <3>1. UNCHANGED <<left, barrier_arrived, round_started, remaining>>
        BY <2>2 DEF StartWorker, common
      <3>2. \A c \in Channel : pc'[c] \in TimedWaits => pc'[c] = pc[c]
        BY <1>0, <2>2 DEF StartWorker, TimedWaits, SessionWaits
      <3> QED
        BY <3>1, <3>2 DEF WaitInv
    <2>3. CASE StartPcap \/ StartWorkerFails \/ DropWorker \/ DroppedAll \/ StartedAll \/ Finish
      <3>1. UNCHANGED <<pc, left, barrier_arrived, round_started, remaining>>
        BY <2>3 DEF StartPcap, StartWorkerFails, DropWorker, DroppedAll, StartedAll, Finish,
                    common, workers
      <3> QED
        BY <3>1 DEF WaitInv
    <2> QED
      BY <1>10, <2>1, <2>2, <2>3 DEF SupervisorStep
  <1>11. CASE UNCHANGED vars \/ Exited
    <2>1. UNCHANGED vars
      BY <1>11, Zenon DEF Exited
    <2>2. UNCHANGED <<pc, left, barrier_arrived, round_started, remaining>>
      BY <2>1 DEF vars, common
    <2> QED
      BY <2>2 DEF WaitInv
  <1>12. ASSUME NEW d \in Channel, NetworkOperation(d) \/ LocalStep(d) \/ Throw(d)
         PROVE  WaitInv'
    BY <1>1, <1>2, <1>3, <1>4, <1>5, <1>6, <1>7, <1>8, <1>12 DEF NetworkOperation, LocalStep
  <1> QED
    BY <1>9, <1>10, <1>11, <1>12 DEF Next

\* Once a worker has set the deadline of a round, nothing gives the round more
\* time, nobody who has left the barrier waits past it, and what ends of an open
\* session when it has come is neither a disconnect nor a fatal error.
THEOREM DeadlineHolds == Spec => RoundKeepsItsDeadline
  <1>1. IInv /\ [Next]_vars => [round_started /\ round' = round => remaining' <= remaining]_vars
    <2> SUFFICES ASSUME IInv, [Next]_vars, round_started, round' = round
                 PROVE  remaining' <= remaining
      OBVIOUS
    <2>1. remaining \in Nat /\ round \in Nat
      BY CaptureAssumption DEF IInv, TypeOK
    <2>2. CASE UNCHANGED vars \/ Exited
      <3>1. UNCHANGED vars
        BY <2>2, Zenon DEF Exited
      <3>2. remaining' = remaining
        BY <3>1 DEF vars, common
      <3> QED
        BY <2>1, <3>2
    <2>3. CASE Tick
      BY <2>1, <2>3 DEF Tick, Less
    <2>4. CASE SupervisorStep
      <3>1. ~NextRound
        BY <2>1 DEF NextRound
      <3>2. remaining' = remaining
        BY <2>4, <3>1 DEF SupervisorStep, StartPcap, StartWorker, StartWorkerFails,
           DropWorker, DroppedAll, StartedAll, Finish, common
      <3> QED
        BY <2>1, <3>2
    <2>5. ASSUME NEW c \in Channel, NetworkOperation(c) \/ LocalStep(c) \/ Throw(c)
          PROVE  remaining' = remaining
      <3>1. CASE Throw(c) \/ RefuseAttempt(c) \/ SetupFails(c)
        BY <3>1 DEF Throw, RefuseAttempt, SetupFails, Synchronize, meeting
      <3>2. CASE HandshakeEnds(c)
        BY <3>2 DEF HandshakeEnds, Synchronize, meeting
      <3>3. CASE PassBarrier(c)
        BY <3>3 DEF PassBarrier
      <3>4. CASE SubscribeEnds(c) \/ ReadEnds(c) \/ PongEnds(c)
        BY <3>4 DEF SubscribeEnds, ReadEnds, PongEnds, SessionOperationEnds, common
      <3>5. CASE SetupSucceeds(c) \/ BeginAttempt(c) \/ FailAttempt(c) \/ DropAttempt(c)
                 \/ BeginSubscribe(c) \/ Connected(c) \/ BeginRead(c) \/ TakeFrame(c)
        BY <3>5 DEF SetupSucceeds, BeginAttempt, FailAttempt, DropAttempt, BeginSubscribe,
           Connected, BeginRead, TakeFrame, common
      <3>6. CASE AttemptDeadline(c) \/ AttemptFatal(c) \/ AttemptDisconnected(c) \/ Wake(c)
        BY <3>6 DEF AttemptDeadline, AttemptFatal, AttemptDisconnected, Wake, common
      <3> QED
        BY <2>5, <3>1, <3>2, <3>3, <3>4, <3>5, <3>6 DEF NetworkOperation, LocalStep
    <2>6. CASE \E c \in Channel : NetworkOperation(c) \/ LocalStep(c) \/ Throw(c)
      BY <2>1, <2>5, <2>6
    <2> QED
      BY <2>2, <2>3, <2>4, <2>6 DEF Next
  <1>2. Init => WaitInv
    BY DEF Init, WaitInv
  <1>3. Spec => []WaitInv
    BY <1>2, CaptureInvariant, NextKeepsWaits, PTL DEF Spec
  <1>4. IInv /\ [Next]_vars =>
          [\A c \in Channel :
             pc[c] \in SessionWaits /\ remaining = 0 => pc'[c] \notin {"drops", "fails"}]_vars
    <2> SUFFICES ASSUME IInv, Next, NEW c \in Channel, pc[c] \in SessionWaits, remaining = 0
                 PROVE  pc'[c] \notin {"drops", "fails"}
      OBVIOUS
    <2>0. pc \in [Channel -> {"unstarted", "barrier"} \cup Connecting \cup Passed]
      BY DEF IInv, TypeOK
    <2>1. pc[c] \in {"subscribing", "reading", "ponging"}
      BY DEF SessionWaits
    <2>2. CASE SubscribeEnds(c) \/ ReadEnds(c) \/ PongEnds(c)
      <3>1. CASE SubscribeEnds(c)
        BY <2>0, <3>1, EndsAtDeadline DEF SubscribeEnds
      <3>2. CASE ReadEnds(c)
        BY <2>0, <3>2, EndsAtDeadline DEF ReadEnds
      <3>3. CASE PongEnds(c)
        BY <2>0, <3>3, EndsAtDeadline DEF PongEnds
      <3> QED
        BY <2>2, <3>1, <3>2, <3>3
    <2>3. CASE Throw(c)
      BY <2>0, <2>3 DEF Throw, Synchronize
    <2>4. CASE /\ NetworkOperation(c) \/ LocalStep(c)
               /\ ~(SubscribeEnds(c) \/ ReadEnds(c) \/ PongEnds(c))
      BY <2>1, <2>4 DEF NetworkOperation, LocalStep, SetupSucceeds, SetupFails, HandshakeEnds,
         PassBarrier, BeginAttempt, RefuseAttempt, FailAttempt, DropAttempt, BeginSubscribe,
         Connected, BeginRead, TakeFrame, AttemptDeadline, AttemptFatal, AttemptDisconnected, Wake
    <2>5. ASSUME NEW d \in Channel \ {c}, NetworkOperation(d) \/ LocalStep(d) \/ Throw(d)
          PROVE  pc'[c] = pc[c]
      BY <2>0, <2>5, OneWorkerMoves
    <2>6. CASE Tick \/ Exited
      <3>1. pc' = pc
        BY <2>6 DEF Tick, Exited, vars
      <3> QED
        BY <2>1, <3>1
    <2>7. CASE SupervisorStep
      <3>1. pc'[c] \in {pc[c], "attempt", "unstarted"}
        BY <2>0, <2>7 DEF SupervisorStep, StartPcap, StartWorker, StartWorkerFails, DropWorker,
           DroppedAll, StartedAll, NextRound, Finish, workers
      <3> QED
        BY <2>1, <3>1
    <2>8. ASSUME NEW d \in Channel, NetworkOperation(d) \/ LocalStep(d) \/ Throw(d)
          PROVE  pc'[c] \notin {"drops", "fails"}
      BY <2>1, <2>2, <2>3, <2>4, <2>5, <2>8
    <2> QED
      BY <2>6, <2>7, <2>8 DEF Next
  <1>5. WaitInv' => \A c \in Channel :
                      pc'[c] \in TimedWaits /\ barrier_arrived'[c] => left'[c] <= remaining'
    BY DEF WaitInv
  <1>6. IInv /\ WaitInv' /\ [Next]_vars =>
          [/\ round_started /\ round' = round => remaining' <= remaining
           /\ \A c \in Channel :
                /\ pc'[c] \in TimedWaits /\ barrier_arrived'[c] => left'[c] <= remaining'
                /\ pc[c] \in SessionWaits /\ remaining = 0 => pc'[c] \notin {"drops", "fails"}]_vars
    BY <1>1, <1>4, <1>5
  <1> QED
    BY <1>3, <1>6, CaptureInvariant, PTL DEF Spec, RoundKeepsItsDeadline
=============================================================================
