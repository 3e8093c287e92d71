---------------------------- MODULE AnalysisProofs ----------------------------
(***************************************************************************)
(* Proofs about Analysis, for any events, any bounds on the rows and any   *)
(* window, and, after them, about PairedReceipts, for any number of        *)
(* records, identities and samples.                                        *)
(***************************************************************************)
EXTENDS Analysis, PairedReceipts, FiniteSetTheorems, WellFoundedInduction, TLAPS

-----------------------------------------------------------------------------
(* Folds *)

\* Among the intervals from 1 that end at a number of T there is a smallest one.
LEMMA LeastNat ==
  ASSUME NEW T \in SUBSET Nat, T # {}
  PROVE  \E n \in T : \A m \in T : n <= m
  <1> DEFINE Intervals == {1 .. n : n \in T}
  <1>1. Intervals \in SUBSET FiniteSubsetsOf(Nat) /\ Intervals # {}
    <2>1. \A n \in Nat : 1 .. n \in SUBSET Nat /\ IsFiniteSet(1 .. n)
      BY FS_Interval
    <2> QED
      BY <2>1 DEF FiniteSubsetsOf
  <1>2. IsWellFoundedOn(StrictSubsetOrdering(Nat), FiniteSubsetsOf(Nat))
    BY FS_StrictSubsetOrderingWellFounded
  <1>3. \E I \in Intervals : \A J \in Intervals : ~ (<<J, I>> \in StrictSubsetOrdering(Nat))
    <2> HIDE DEF Intervals
    <2> QED
      BY <1>1, <1>2, WFMin
  <1>4. PICK n \in T : \A m \in T : ~ (<<1 .. m, 1 .. n>> \in StrictSubsetOrdering(Nat))
    BY <1>3
  <1>5. ASSUME NEW m \in T, m < n
        PROVE  FALSE
    <2>0. m \in Nat /\ n \in Nat
      OBVIOUS
    <2>1. 1 .. m \subseteq 1 .. n /\ n \in 1 .. n /\ n \notin 1 .. m /\ 1 .. n \subseteq Nat
      BY <1>5, <2>0
    <2>2. IsFiniteSet(1 .. n) /\ IsFiniteSet(1 .. m)
      BY <2>0, FS_Interval
    <2> QED
      BY <1>4, <2>1, <2>2 DEF StrictSubsetOrdering, FiniteSubsetsOf
  <1> QED
    BY <1>5

\* What FoldLeft recurs on exists: one interval more at a time.
IsFold(f, base, found, n) ==
  f = [s \in SUBSET (1 .. n) |->
         IF s = {} THEN base ELSE Considered(f[s \ {Max(s)}], found[Max(s)])]

LEMMA FoldExists ==
  ASSUME NEW base, NEW found, NEW n \in Nat
  PROVE  \E f : IsFold(f, base, found, n)
  <1> DEFINE Fold(f, m) == IsFold(f, base, found, m)
             There(m) == \E f : Fold(f, m)
             T == {m \in 0 .. n : ~There(m)}
  <1>1. There(0)
    <2> DEFINE g == [s \in SUBSET (1 .. 0) |-> base]
    <2>1. \A s \in SUBSET (1 .. 0) : s = {}
      OBVIOUS
    <2>2. Fold(g, 0)
      BY <2>1 DEF IsFold
    <2> QED
      BY <2>2
  <1>2. ASSUME NEW m \in 1 .. n, There(m - 1)
        PROVE  There(m)
    <2>1. PICK g : Fold(g, m - 1)
      BY <1>2
    <2> DEFINE h == [s \in SUBSET (1 .. m) |->
                       IF m \in s THEN Considered(g[s \ {m}], found[m]) ELSE g[s]]
    <2>2. ASSUME NEW s \in SUBSET (1 .. m)
          PROVE  h[s] = IF s = {} THEN base
                        ELSE Considered(h[s \ {Max(s)}], found[Max(s)])
      <3>1. CASE m \in s
        <4>1. Max(s) = m
          <5>1. m \in s /\ \A y \in s : m >= y
            BY <3>1
          <5>2. \A x \in s : (\A y \in s : x >= y) => x = m
            BY <5>1
          <5> QED
            BY <5>1, <5>2 DEF Max
        <4>2. h[s \ {m}] = g[s \ {m}]
          OBVIOUS
        <4> QED
          BY <3>1, <4>1, <4>2
      <3>2. CASE m \notin s
        <4>1. s \in SUBSET (1 .. (m - 1))
          BY <3>2
        <4>2. s \ {Max(s)} \in SUBSET (1 .. m) /\ m \notin s \ {Max(s)}
          BY <3>2
        <4>3. h[s] = g[s] /\ h[s \ {Max(s)}] = g[s \ {Max(s)}]
          BY <3>2, <4>2
        <4>4. g[s] = IF s = {} THEN base
                     ELSE Considered(g[s \ {Max(s)}], found[Max(s)])
          BY <2>1, <4>1 DEF IsFold
        <4> QED
          BY <4>3, <4>4
      <3> QED
        BY <3>1, <3>2
    <2>3. Fold(h, m)
      BY <2>2 DEF IsFold
    <2> QED
      BY <2>3
  <1> HIDE DEF There
  <1>3. ASSUME T # {}
        PROVE  FALSE
    <2>1. T \in SUBSET Nat
      OBVIOUS
    <2>2. PICK m \in T : \A k \in T : m <= k
      BY <1>3, <2>1, LeastNat
    <2>3. m \in 1 .. n /\ There(m - 1)
      BY <1>1, <2>2
    <2> QED
      BY <1>2, <2>2, <2>3
  <1>4. There(n)
    BY <1>3
  <1> QED
    BY <1>4 DEF There

\* What is left of the rows after each of the candidates: FoldLeft, step by step.
LEMMA FoldSteps ==
  ASSUME NEW base, NEW found, NEW n \in Nat, DOMAIN found = 1 .. n
  PROVE  \E f : /\ f[0] = base
                /\ \A k \in 1 .. n : f[k] = Considered(f[k - 1], found[k])
                /\ f[n] = FoldLeft(Considered, base, found)
  <1> DEFINE iter == CHOOSE f : IsFold(f, base, found, n)
             f == [k \in 0 .. n |-> iter[1 .. k]]
  <1>0. IsFold(iter, base, found, n)
    BY FoldExists
  <1>1. iter = [s \in SUBSET (1 .. n) |->
                  IF s = {} THEN base
                  ELSE Considered(iter[s \ {Max(s)}], found[Max(s)])]
    <2> HIDE DEF iter
    <2> QED
      BY <1>0 DEF IsFold
  <1>2. FoldLeft(Considered, base, found) = iter[1 .. n]
    BY DEF FoldLeft, MapThenFoldSet, IsFold
  <1> HIDE DEF iter
  <1>3. f[0] = base
    BY <1>1
  <1>4. ASSUME NEW k \in 1 .. n
        PROVE  f[k] = Considered(f[k - 1], found[k])
    <2>1. Max(1 .. k) = k
      <3>1. k \in 1 .. k /\ \A y \in 1 .. k : k >= y
        OBVIOUS
      <3>2. \A x \in 1 .. k : (\A y \in 1 .. k : x >= y) => x = k
        BY <3>1
      <3> QED
        BY <3>1, <3>2 DEF Max
    <2>2. (1 .. k) \ {k} = 1 .. (k - 1) /\ 1 .. k # {} /\ 1 .. k \in SUBSET (1 .. n)
      OBVIOUS
    <2>3. iter[1 .. k] = Considered(iter[1 .. (k - 1)], found[k])
      BY <1>1, <2>1, <2>2
    <2> QED
      BY <2>3
  <1>5. f[n] = FoldLeft(Considered, base, found)
    BY <1>2
  <1> QED
    BY <1>3, <1>4, <1>5

-----------------------------------------------------------------------------
(* The rows of one event *)

RelationType == [mode : Modes, source : Nat, target : Nat]

OutType == [rows : Seq(RelationType), id : Nat, full : BOOLEAN, dropped : Nat]

Counted(out) ==
  /\ out.id \in {Len(out.rows), Len(out.rows) + 1}
  /\ out.id # Len(out.rows) => out.full
  /\ out.full => out.dropped > 0

LEMMA OutFields ==
  ASSUME NEW out \in OutType
  PROVE  /\ \A full \in BOOLEAN, drops \in Nat :
              [out EXCEPT !.full = full, !.dropped = drops] \in OutType
         /\ \A id \in Nat, full \in BOOLEAN, drops \in Nat :
              [out EXCEPT !.id = id, !.full = full, !.dropped = drops] \in OutType
         /\ \A id \in Nat, some \in Seq(RelationType) :
              [out EXCEPT !.id = id, !.rows = some] \in OutType
  BY DEF OutType

\* A candidate is passed over, written or counted as dropped.
LEMMA OneCandidate ==
  ASSUME NEW out \in OutType, Counted(out),
         NEW found \in SUBSET RelationType, \A r, s \in found : r = s,
         NEW new, new = Considered(out, found)
  PROVE  /\ new \in OutType
         /\ Counted(new)
         /\ new.dropped >= out.dropped
         /\ \/ found = {} /\ new = out
            \/ found # {} /\ new.rows = out.rows /\ new.dropped > 0
            \/ \E row \in found : /\ new.rows = Append(out.rows, row)
                                  /\ new.dropped = out.dropped
                                  /\ found = {row}
  <1>1. CASE found = {}
    <2>1. new = out
      BY <1>1 DEF Considered
    <2>2. new.dropped \in Nat
      BY <2>1 DEF OutType
    <2> QED
      BY <1>1, <2>1, <2>2
  <1>2. CASE found # {}
    <2> DEFINE row == CHOOSE r \in found : TRUE
    <2>1. row \in RelationType /\ found = {row}
      BY <1>2
    <2>2. new = Emitted(out, row)
      BY <1>2 DEF Considered
    <2> HIDE DEF row
    <2>3. /\ out.rows \in Seq(RelationType)
          /\ out.id \in Nat
          /\ out.full \in BOOLEAN
          /\ out.dropped \in Nat
          /\ Len(out.rows) \in Nat
      BY DEF OutType
    <2>4. CASE out.full \/ out.id >= MaximumRelations
      <3>1. new = [out EXCEPT !.full = TRUE, !.dropped = out.dropped + 1]
        BY <2>2, <2>4 DEF Emitted
      <3>2. /\ new.rows = out.rows
            /\ new.id = out.id
            /\ new.dropped = out.dropped + 1
        BY <3>1 DEF OutType
      <3>3. new \in OutType
        <4>1. out.dropped + 1 \in Nat /\ TRUE \in BOOLEAN
          BY <2>3
        <4>2. [out EXCEPT !.full = TRUE, !.dropped = out.dropped + 1] \in OutType
          BY <4>1, OutFields, Zenon
        <4> QED
          BY <3>1, <4>2, Zenon
      <3>4. new.full
        BY <3>1 DEF OutType
      <3>5. Counted(new)
        BY <2>3, <3>2, <3>4 DEF Counted
      <3> QED
        BY <1>2, <2>3, <3>2, <3>3, <3>5
    <2>5. CASE ~(out.full \/ out.id >= MaximumRelations) /\ Len(out.rows) >= room
      <3>1. new = [out EXCEPT !.id = out.id + 1, !.full = TRUE, !.dropped = out.dropped + 1]
        BY <2>2, <2>5 DEF Emitted
      <3>2. /\ new.rows = out.rows
            /\ new.id = out.id + 1
            /\ new.dropped = out.dropped + 1
        BY <3>1 DEF OutType
      <3>3. new \in OutType
        <4>1. out.id + 1 \in Nat /\ out.dropped + 1 \in Nat /\ TRUE \in BOOLEAN
          BY <2>3
        <4>2. [out EXCEPT !.id = out.id + 1, !.full = TRUE, !.dropped = out.dropped + 1] \in OutType
          BY <4>1, OutFields, Zenon
        <4> QED
          BY <3>1, <4>2, Zenon
      <3>4. new.full
        BY <3>1 DEF OutType
      <3>5. out.id = Len(out.rows)
        BY <2>5 DEF Counted
      <3>6. Counted(new)
        BY <2>3, <3>2, <3>4, <3>5 DEF Counted
      <3> QED
        BY <1>2, <2>3, <3>2, <3>6, <3>3
    <2>6. CASE ~(out.full \/ out.id >= MaximumRelations) /\ ~(Len(out.rows) >= room)
      <3>1. new = [out EXCEPT !.id = out.id + 1, !.rows = Append(out.rows, row)]
        BY <2>2, <2>6 DEF Emitted
      <3>2. /\ new.rows = Append(out.rows, row)
            /\ new.id = out.id + 1
            /\ new.dropped = out.dropped
        BY <3>1 DEF OutType
      <3>3. new \in OutType
        <4>1. out.id + 1 \in Nat /\ Append(out.rows, row) \in Seq(RelationType)
          BY <2>1, <2>3
        <4>2. [out EXCEPT !.id = out.id + 1, !.rows = Append(out.rows, row)] \in OutType
          BY <4>1, OutFields, Zenon
        <4> QED
          BY <3>1, <4>2, Zenon
      <3>4. out.id = Len(out.rows)
        BY <2>6 DEF Counted
      <3>5. ~new.full
        BY <2>6, <3>1 DEF OutType
      <3>6. Len(new.rows) = Len(out.rows) + 1
        BY <2>1, <2>3, <3>2
      <3>7. Counted(new)
        BY <2>3, <3>2, <3>4, <3>5, <3>6 DEF Counted
      <3>8. new.dropped >= out.dropped
        BY <2>3, <3>2
      <3> QED
        BY <2>1, <3>2, <3>3, <3>7, <3>8
    <2> QED
      BY <2>4, <2>5, <2>6
  <1> QED
    BY <1>1, <1>2

\* The candidates leave the rows there were and add rows of their own, each of
\* them once; what none of them is counted for is all there.
Kept(base, found, out, k) ==
  /\ out \in OutType
  /\ Counted(out)
  /\ out.dropped >= base.dropped
  /\ Len(base.rows) <= Len(out.rows)
  /\ \A x \in 1 .. Len(base.rows) : out.rows[x] = base.rows[x]
  /\ \A x \in (Len(base.rows) + 1) .. Len(out.rows) :
       \E m \in 1 .. k : out.rows[x] \in found[m]
  /\ \A x, y \in (Len(base.rows) + 1) .. Len(out.rows) : out.rows[x] = out.rows[y] => x = y
  /\ out.dropped = 0 =>
       \A m \in 1 .. k : \A r \in found[m] :
         \E x \in 1 .. Len(out.rows) : out.rows[x] = r

LEMMA OneMore ==
  ASSUME NEW base \in OutType, NEW found, NEW k \in Nat \ {0},
         found[k] \in SUBSET RelationType, \A r, s \in found[k] : r = s,
         \A m \in 1 .. (k - 1) : found[m] \cap found[k] = {},
         NEW out, Kept(base, found, out, k - 1),
         NEW new, new = Considered(out, found[k])
  PROVE  Kept(base, found, new, k)
  <1> DEFINE old == Len(base.rows)
             n == Len(out.rows)
  <1>1. /\ out \in OutType
        /\ Counted(out)
        /\ out.dropped >= base.dropped
        /\ old <= n
        /\ \A x \in 1 .. old : out.rows[x] = base.rows[x]
        /\ \A x \in (old + 1) .. n : \E m \in 1 .. (k - 1) : out.rows[x] \in found[m]
        /\ \A x, y \in (old + 1) .. n : out.rows[x] = out.rows[y] => x = y
        /\ out.dropped = 0 =>
             \A m \in 1 .. (k - 1) : \A r \in found[m] :
               \E x \in 1 .. n : out.rows[x] = r
    BY DEF Kept
  <1>2. /\ new \in OutType
        /\ Counted(new)
        /\ new.dropped >= out.dropped
        /\ \/ found[k] = {} /\ new = out
           \/ found[k] # {} /\ new.rows = out.rows /\ new.dropped > 0
           \/ \E row \in found[k] : /\ new.rows = Append(out.rows, row)
                                    /\ new.dropped = out.dropped
                                    /\ found[k] = {row}
    BY <1>1, OneCandidate
  <1>3. /\ out.rows \in Seq(RelationType) /\ n \in Nat
        /\ base.rows \in Seq(RelationType) /\ old \in Nat
        /\ out.dropped \in Nat /\ new.dropped \in Nat /\ base.dropped \in Nat
    BY <1>1, <1>2 DEF OutType
  <1>4. new.dropped >= base.dropped
    BY <1>1, <1>2, <1>3
  <1>5. 1 .. k = (1 .. (k - 1)) \cup {k}
    OBVIOUS
  <1>6. CASE found[k] = {} /\ new = out
    <2>1. \A x \in (old + 1) .. n : \E m \in 1 .. k : new.rows[x] \in found[m]
      BY <1>1, <1>5, <1>6
    <2>2. new.dropped = 0 =>
            \A m \in 1 .. k : \A r \in found[m] : \E x \in 1 .. n : new.rows[x] = r
      BY <1>1, <1>5, <1>6
    <2> QED
      BY <1>1, <1>2, <1>6, <2>1, <2>2 DEF Kept
  <1>7. CASE found[k] # {} /\ new.rows = out.rows /\ new.dropped > 0
    <2>1. \A x \in (old + 1) .. n : \E m \in 1 .. k : new.rows[x] \in found[m]
      BY <1>1, <1>5, <1>7
    <2>2. new.dropped # 0
      BY <1>3, <1>7
    <2> QED
      BY <1>1, <1>2, <1>4, <1>7, <2>1, <2>2 DEF Kept
  <1>8. ASSUME NEW row \in found[k], new.rows = Append(out.rows, row),
               new.dropped = out.dropped, found[k] = {row}
        PROVE  Kept(base, found, new, k)
    <2>1. /\ Len(new.rows) = n + 1
          /\ \A x \in 1 .. n : new.rows[x] = out.rows[x]
          /\ new.rows[n + 1] = row
      BY <1>3, <1>8
    <2>2. \A m \in 1 .. (k - 1) : row \notin found[m]
      BY <1>8
    <2>3. old <= Len(new.rows) /\ \A x \in 1 .. old : new.rows[x] = base.rows[x]
      BY <1>1, <1>3, <2>1
    <2>4. \A x \in (old + 1) .. n : x \in 1 .. n
      BY <1>3
    <2>5. \A x \in (old + 1) .. (n + 1) : x \in (old + 1) .. n \/ x = n + 1
      BY <1>3
    <2>6. \A x \in (old + 1) .. (n + 1) : \E m \in 1 .. k : new.rows[x] \in found[m]
      BY <1>1, <1>5, <1>8, <2>1, <2>4, <2>5
    <2>7. \A x \in (old + 1) .. n : new.rows[x] = out.rows[x] /\ new.rows[x] # row
      <3> SUFFICES ASSUME NEW x \in (old + 1) .. n
                   PROVE  new.rows[x] = out.rows[x] /\ new.rows[x] # row
        OBVIOUS
      <3>1. PICK m \in 1 .. (k - 1) : out.rows[x] \in found[m]
        BY <1>1
      <3>2. new.rows[x] = out.rows[x]
        BY <2>1, <2>4
      <3> QED
        BY <2>2, <3>1, <3>2
    <2>8. \A x, y \in (old + 1) .. (n + 1) : new.rows[x] = new.rows[y] => x = y
      <3> SUFFICES ASSUME NEW x \in (old + 1) .. (n + 1), NEW y \in (old + 1) .. (n + 1),
                          new.rows[x] = new.rows[y]
                   PROVE  x = y
        OBVIOUS
      <3>1. CASE x \in (old + 1) .. n /\ y \in (old + 1) .. n
        <4>1. out.rows[x] = out.rows[y]
          BY <2>7, <3>1
        <4> QED
          BY <1>1, <3>1, <4>1
      <3>2. CASE x = n + 1 /\ y \in (old + 1) .. n
        BY <2>1, <2>7, <3>2
      <3>3. CASE y = n + 1 /\ x \in (old + 1) .. n
        BY <2>1, <2>7, <3>3
      <3> QED
        BY <2>5, <3>1, <3>2, <3>3
    <2>9. ASSUME new.dropped = 0, NEW m \in 1 .. k, NEW r \in found[m]
          PROVE  \E x \in 1 .. (n + 1) : new.rows[x] = r
      <3>1. CASE m = k
        <4>1. n + 1 \in 1 .. (n + 1)
          BY <1>3
        <4> QED
          BY <1>8, <2>1, <3>1, <4>1
      <3>2. CASE m \in 1 .. (k - 1)
        <4>1. PICK x \in 1 .. n : out.rows[x] = r
          BY <1>1, <1>8, <2>9, <3>2
        <4>2. x \in 1 .. (n + 1) /\ new.rows[x] = r
          BY <1>3, <2>1, <4>1
        <4> QED
          BY <4>2
      <3> QED
        BY <1>5, <3>1, <3>2
    <2> QED
      BY <1>2, <1>4, <2>1, <2>3, <2>6, <2>8, <2>9 DEF Kept
  <1> QED
    BY <1>2, <1>6, <1>7, <1>8

LEMMA RowsOfOneEvent ==
  ASSUME NEW base \in OutType, Counted(base),
         NEW found, NEW n \in Nat, DOMAIN found = 1 .. n,
         \A k \in 1 .. n : /\ found[k] \in SUBSET RelationType
                           /\ \A r, s \in found[k] : r = s,
         \A k, m \in 1 .. n : k < m => found[k] \cap found[m] = {}
  PROVE  Kept(base, found, FoldLeft(Considered, base, found), n)
  <1>1. PICK f : /\ f[0] = base
                 /\ \A k \in 1 .. n : f[k] = Considered(f[k - 1], found[k])
                 /\ f[n] = FoldLeft(Considered, base, found)
    BY FoldSteps
  <1> DEFINE T == {k \in 0 .. n : ~Kept(base, found, f[k], k)}
  <1>2. Kept(base, found, f[0], 0)
    <2>1. base.rows \in Seq(RelationType) /\ base.dropped \in Nat /\ Len(base.rows) \in Nat
      BY DEF OutType
    <2> QED
      BY <1>1, <2>1 DEF Kept
  <1>3. ASSUME NEW k \in 1 .. n, Kept(base, found, f[k - 1], k - 1)
        PROVE  Kept(base, found, f[k], k)
    <2>1. /\ found[k] \in SUBSET RelationType
          /\ \A r, s \in found[k] : r = s
          /\ \A m \in 1 .. (k - 1) : found[m] \cap found[k] = {}
      OBVIOUS
    <2>2. f[k] = Considered(f[k - 1], found[k])
      BY <1>1
    <2> QED
      BY <1>3, <2>1, <2>2, OneMore
  <1>4. ASSUME T # {}
        PROVE  FALSE
    <2>1. T \in SUBSET Nat
      OBVIOUS
    <2>2. PICK k \in T : \A m \in T : k <= m
      BY <1>4, <2>1, LeastNat
    <2>3. k \in 1 .. n /\ Kept(base, found, f[k - 1], k - 1)
      BY <1>2, <2>2
    <2> QED
      BY <1>3, <2>2, <2>3
  <1>5. Kept(base, found, f[n], n)
    BY <1>4
  <1> QED
    BY <1>1, <1>5

-----------------------------------------------------------------------------
(* What an event is related to *)

LEMMA EventsAreKnown ==
  ASSUME TypeOK
  PROVE  /\ Len(events) \in Nat
         /\ target \in 0 .. Len(events)
         /\ \A j \in 1 .. Len(events) : events[j] \in Events /\ events[j].at \in Nat
         /\ \A j, k \in 1 .. Len(events) : j <= k => events[j].at <= events[k].at
  <1>1. /\ events \in Seq(Events) /\ Len(events) \in Nat
        /\ content \in Seq(Events) /\ Len(content) \in Nat
        /\ Len(events) <= Len(content)
        /\ \A j \in 1 .. Len(events) : events[j] = content[j]
        /\ target \in 0 .. Len(events)
    BY DEF TypeOK
  <1>2. \A j \in 1 .. Len(events) : events[j] \in Events /\ events[j].at \in Nat
    BY <1>1, EventsAssumption
  <1>3. ASSUME NEW j \in 1 .. Len(events), NEW k \in 1 .. Len(events), j <= k
        PROVE  events[j].at <= events[k].at
    <2>1. j \in 1 .. Len(content) /\ k \in 1 .. Len(content)
      BY <1>1
    <2>2. content[j].at <= content[k].at
      BY <1>3, <2>1 DEF TypeOK, InTime
    <2> QED
      BY <1>1, <2>2
  <1> QED
    BY <1>1, <1>2, <1>3

LEMMA KeysAreOptional ==
  ASSUME NEW mode \in Modes \ {"market_effect"}, NEW e \in Events
  PROVE  \A key, other \in Keys(mode, e) : key = other
  <1>1. Optional(Field(mode, e))
    <2>1. CASE mode = "identity"
      BY <2>1, EventsAssumption DEF Field
    <2>2. CASE mode = "event_time"
      BY <2>2, EventsAssumption DEF Field
    <2>3. CASE mode = "transaction_time"
      BY <2>3, EventsAssumption DEF Field
    <2>4. CASE mode = "state"
      <3>1. Field(mode, e) = IF Book(e) THEN e.bbo ELSE {}
        BY <2>4 DEF Field
      <3> QED
        BY <3>1, EventsAssumption DEF Optional
    <2> QED
      BY <2>1, <2>2, <2>3, <2>4 DEF Modes
  <1> QED
    BY <1>1 DEF Keys, Optional

\* An index leads to the event before that shares the key of a mode.
LEMMA LinkedIsTheLast ==
  ASSUME TypeOK, IndexInv, target < Len(events), NEW mode \in Modes \ {"market_effect"}
  PROVE  /\ \A j \in Linked(mode, events[target + 1]) :
              /\ j \in 1 .. target
              /\ Follows(mode, j, target + 1)
              /\ events[j].channel # events[target + 1].channel
         /\ \A j \in 1 .. target :
              Follows(mode, j, target + 1) /\ events[j].channel # events[target + 1].channel =>
                j \in Linked(mode, events[target + 1])
         /\ \A j, k \in Linked(mode, events[target + 1]) : j = k
  <1> DEFINE i == target + 1
             e == events[i]
  <1>1. target \in Nat /\ i \in 1 .. Len(events) /\ e \in Events
    BY EventsAreKnown
  <1>2. \A key, other \in Keys(mode, e) : key = other
    BY <1>1, KeysAreOptional
  <1>3. /\ \A j \in 1 .. target : Keys(mode, events[j]) \subseteq DOMAIN index[mode]
        /\ \A key \in DOMAIN index[mode] :
             /\ index[mode][key] \in 1 .. target
             /\ key \in Keys(mode, events[index[mode][key]])
             /\ \A j \in (index[mode][key] + 1) .. target : key \notin Keys(mode, events[j])
    BY DEF IndexInv
  <1>4. ASSUME NEW j \in Linked(mode, e)
        PROVE  /\ j \in 1 .. target
               /\ Follows(mode, j, i)
               /\ events[j].channel # e.channel
    <2>1. PICK key \in Keys(mode, e) \cap DOMAIN index[mode] : j = index[mode][key]
      BY DEF Linked
    <2>2. j \in 1 .. target /\ key \in Keys(mode, events[j]) \cap Keys(mode, events[i])
      BY <1>3, <2>1
    <2>3. ASSUME NEW k \in (j + 1) .. (i - 1)
          PROVE  Keys(mode, events[k]) \cap Keys(mode, events[i]) = {}
      <3>1. k \in (j + 1) .. target
        BY <1>1
      <3>2. key \notin Keys(mode, events[k])
        BY <1>3, <2>1, <3>1
      <3> QED
        BY <1>2, <2>1, <3>2
    <2>4. Follows(mode, j, i)
      BY <2>2, <2>3 DEF Follows
    <2>5. events[j].channel # e.channel
      BY DEF Linked
    <2> QED
      BY <2>2, <2>4, <2>5
  <1>5. ASSUME NEW j \in 1 .. target, Follows(mode, j, i), events[j].channel # e.channel
        PROVE  j \in Linked(mode, e)
    <2>1. PICK key : key \in Keys(mode, events[j]) \cap Keys(mode, e)
      BY <1>5 DEF Follows
    <2> DEFINE l == index[mode][key]
    <2>2. /\ key \in DOMAIN index[mode]
          /\ l \in 1 .. target
          /\ key \in Keys(mode, events[l])
          /\ \A k \in (l + 1) .. target : key \notin Keys(mode, events[k])
      BY <1>3, <2>1
    <2> HIDE DEF l
    <2>3. ~(l < j)
      BY <1>1, <2>1, <2>2
    <2>4. ~(l > j)
      <3>1. ASSUME l > j
            PROVE  FALSE
        <4>1. l \in (j + 1) .. (i - 1)
          BY <1>1, <2>2, <3>1
        <4>2. Keys(mode, events[l]) \cap Keys(mode, events[i]) = {}
          BY <1>5, <4>1 DEF Follows
        <4> QED
          BY <2>1, <2>2, <4>2
      <3> QED
        BY <3>1
    <2>5. l = j
      BY <1>1, <2>2, <2>3, <2>4
    <2> QED
      BY <1>5, <2>1, <2>2, <2>5 DEF Linked, l
  <1>6. ASSUME NEW j \in Linked(mode, e), NEW k \in Linked(mode, e)
        PROVE  j = k
    <2>1. PICK key \in Keys(mode, e) : j = index[mode][key]
      BY DEF Linked
    <2>2. PICK other \in Keys(mode, e) : k = index[mode][other]
      BY DEF Linked
    <2> QED
      BY <1>2, <2>1, <2>2
  <1> QED
    BY <1>4, <1>5, <1>6

LEMMA Members ==
  ASSUME NEW S, NEW s \in Seq(S)
  PROVE  /\ Len(s) \in Nat
         /\ DOMAIN s = 1 .. Len(s)
         /\ \A k \in 1 .. Len(s) : s[k] \in S
  OBVIOUS

\* A later event is in the window when an earlier one is.
LEMMA LaterIsRecent ==
  ASSUME NEW at \in Nat, NEW later \in Nat, at <= later, NEW now \in Nat, NEW window \in Nat
  PROVE  later + window < now => at + window < now
  OBVIOUS

\* Time never goes back: what leaves the window by its front is all that is too old.
LEMMA WindowIsRecent ==
  ASSUME TypeOK, WindowInv, target < Len(events),
         NEW e, e = events[target + 1], NEW window, window = InWindow(e)
  PROVE  /\ window \in Seq(1 .. target)
         /\ \A k, n \in 1 .. Len(window) : k < n => window[k] < window[n]
         /\ \A k \in 1 .. Len(window) : ~TooOld(window[k], e)
         /\ \A j \in ToSet(recent) : j \in ToSet(window) \/ TooOld(j, e)
  <1> DEFINE last == Len(recent)
             Right(k) == /\ \A n \in 1 .. (k - 1) : TooOld(recent[n], e)
                         /\ k <= last => ~TooOld(recent[k], e)
             front == CHOOSE k \in 1 .. (last + 1) : Right(k)
  <1>1. /\ recent \in Seq(1 .. target) /\ last \in Nat
        /\ \A k \in 1 .. last : recent[k] \in 1 .. target
        /\ \A k, n \in 1 .. last : k < n => recent[k] < recent[n]
    <2>1. recent \in Seq(1 .. target)
      BY DEF WindowInv
    <2>2. last \in Nat /\ \A k \in 1 .. last : recent[k] \in 1 .. target
      BY <2>1, Members
    <2> QED
      BY <2>1, <2>2 DEF WindowInv
  <1>2. /\ target \in Nat
        /\ Len(events) \in Nat
        /\ e.at \in Nat
        /\ Window \in Nat
        /\ \A j \in 1 .. target : events[j].at \in Nat /\ events[j].at <= e.at
        /\ \A j, k \in 1 .. target : j <= k => events[j].at <= events[k].at
    BY EventsAreKnown, AnalysisAssumption
  <1>3. front \in 1 .. (last + 1) /\ Right(front)
    <2> DEFINE T == {k \in 1 .. (last + 1) : k <= last => ~TooOld(recent[k], e)}
    <2>1. last + 1 \in T /\ T \in SUBSET Nat
      BY <1>1
    <2>2. PICK k \in T : \A n \in T : k <= n
      BY <2>1, LeastNat
    <2>3. \A n \in 1 .. (k - 1) : n \notin T /\ n \in 1 .. last
      BY <1>1, <2>2
    <2>4. Right(k)
      BY <2>2, <2>3
    <2> HIDE DEF Right
    <2> QED
      BY <2>2, <2>4
  <1>4. window = SubSeq(recent, front, last)
    BY DEF InWindow
  <1> HIDE DEF front
  <1>5. /\ window \in Seq(1 .. target)
        /\ Len(window) = last + 1 - front
        /\ \A k \in 1 .. Len(window) : window[k] = recent[front + k - 1]
    BY <1>1, <1>3, <1>4
  <1>6. \A k \in 1 .. Len(window) : front + k - 1 \in front .. last
    BY <1>1, <1>3, <1>5
  <1>7. ASSUME NEW k \in 1 .. Len(window), NEW n \in 1 .. Len(window), k < n
        PROVE  window[k] < window[n]
    <2>1. /\ front + k - 1 \in 1 .. last
          /\ front + n - 1 \in 1 .. last
          /\ front + k - 1 < front + n - 1
      BY <1>1, <1>3, <1>5, <1>7
    <2>2. recent[front + k - 1] < recent[front + n - 1]
      BY <1>1, <2>1
    <2> QED
      BY <1>5, <2>2
  <1>8. ASSUME NEW n \in front .. last
        PROVE  ~TooOld(recent[n], e)
    <2>1. front <= last /\ front \in 1 .. last /\ n \in 1 .. last
      BY <1>1, <1>3
    <2>2. ~(events[recent[front]].at + Window < e.at)
      BY <1>3, <2>1 DEF TooOld
    <2>3. /\ recent[front] \in 1 .. target
          /\ recent[n] \in 1 .. target
          /\ recent[front] <= recent[n]
      <3>1. front = n \/ front < n
        BY <1>3
      <3> QED
        BY <1>1, <1>2, <2>1, <3>1
    <2>4. events[recent[front]].at <= events[recent[n]].at
      BY <1>2, <2>3
    <2>5. events[recent[front]].at \in Nat /\ events[recent[n]].at \in Nat
      BY <1>2, <2>3
    <2>6. ~(events[recent[n]].at + Window < e.at)
      BY <1>2, <2>2, <2>4, <2>5, LaterIsRecent
    <2> QED
      BY <2>6 DEF TooOld
  <1>9. \A k \in 1 .. Len(window) : ~TooOld(window[k], e)
    BY <1>5, <1>6, <1>8
  <1>10. ASSUME NEW j \in ToSet(recent)
         PROVE  j \in ToSet(window) \/ TooOld(j, e)
    <2>1. PICK n \in 1 .. last : j = recent[n]
      BY <1>1 DEF ToSet
    <2>2. CASE n < front
      <3>1. n \in 1 .. (front - 1)
        BY <1>3, <2>2
      <3> QED
        BY <1>3, <2>1, <3>1
    <2>3. CASE ~(n < front)
      <3>1. n - front + 1 \in 1 .. Len(window) /\ front + (n - front + 1) - 1 = n
        BY <1>1, <1>3, <1>5, <2>3
      <3>2. window[n - front + 1] = j
        BY <1>5, <2>1, <3>1
      <3>3. DOMAIN window = 1 .. Len(window)
        BY <1>5
      <3> QED
        BY <3>1, <3>2, <3>3 DEF ToSet
    <2> QED
      BY <2>2, <2>3
  <1> QED
    BY <1>5, <1>7, <1>9, <1>10

-----------------------------------------------------------------------------
(* The candidates of an event *)

\* The relations of an event to those before it.
New(i) ==
  {r \in [mode : Modes, source : 1 .. (i - 1), target : {i}] :
     /\ events[r.source].channel # events[i].channel
     /\ IF r.mode = "market_effect" THEN Effect(r.source, i) ELSE Follows(r.mode, r.source, i)}

LEMMA OneRow ==
  ASSUME TypeOK, IndexInv, target < Len(events), NEW mode \in Modes \ {"market_effect"}
  PROVE  /\ Of(mode, target + 1) = {r \in New(target + 1) : r.mode = mode}
         /\ \A r, s \in Of(mode, target + 1) : r = s
  <1> DEFINE i == target + 1
             e == events[i]
  <1>1. target \in Nat /\ i - 1 = target
    BY EventsAreKnown
  <1>2. /\ \A j \in Linked(mode, e) : /\ j \in 1 .. target
                                      /\ Follows(mode, j, i)
                                      /\ events[j].channel # e.channel
        /\ \A j \in 1 .. target :
             Follows(mode, j, i) /\ events[j].channel # e.channel => j \in Linked(mode, e)
        /\ \A j, k \in Linked(mode, e) : j = k
    BY LinkedIsTheLast
  <1>3. ASSUME NEW r \in Of(mode, i)
        PROVE  r \in New(i) /\ r.mode = mode
    <2>1. PICK j \in Linked(mode, e) : r = Row(mode, j, i)
      BY DEF Of
    <2>2. /\ r \in [mode : Modes, source : 1 .. target, target : {i}]
          /\ r.mode = mode /\ r.source = j
      BY <1>2, <2>1 DEF Row
    <2> QED
      BY <1>1, <1>2, <2>2 DEF New
  <1>4. ASSUME NEW r \in New(i), r.mode = mode
        PROVE  r \in Of(mode, i)
    <2>1. /\ r \in [mode : Modes, source : 1 .. target, target : {i}]
          /\ events[r.source].channel # e.channel
          /\ Follows(mode, r.source, i)
      BY <1>1, <1>4 DEF New
    <2>2. r.source \in Linked(mode, e)
      BY <1>2, <2>1
    <2>3. r = Row(mode, r.source, i)
      BY <1>4, <2>1 DEF Row
    <2> QED
      BY <2>2, <2>3 DEF Of
  <1>5. ASSUME NEW r \in Of(mode, i), NEW s \in Of(mode, i)
        PROVE  r = s
    BY <1>2 DEF Of
  <1> QED
    BY <1>3, <1>4, <1>5

LEMMA SmallerOfTwo ==
  ASSUME NEW a \in Nat, NEW b \in Nat
  PROVE  /\ Min({a, b}) \in Nat
         /\ Min({a, b}) <= a
         /\ Min({a, b}) <= b
         /\ Min({a, b}) = a \/ Min({a, b}) = b
  <1>1. \E x \in {a, b} : \A y \in {a, b} : x <= y
    OBVIOUS
  <1>2. Min({a, b}) \in {a, b} /\ \A y \in {a, b} : Min({a, b}) <= y
    BY <1>1 DEF Min
  <1> QED
    BY <1>2

\* The market effects looked at, the latest first.
Effects(latest, i) ==
  [k \in 1 .. Min({MaxCandidates, Len(latest)}) |->
     IF MarketEffect(events[latest[k]], events[i])
       THEN {Row("market_effect", latest[k], i)} ELSE {}]

LEMMA FromTheEnd ==
  ASSUME NEW all \in Nat, NEW k \in 1 .. all
  PROVE  all - k + 1 \in 1 .. all /\ all - (all - k + 1) + 1 = k
  OBVIOUS

\* The last event, its window and what is found in it.
LookedAt(i, window, latest, n, found) ==
  /\ i = target + 1
  /\ window = InWindow(events[i])
  /\ latest = Reverse(window)
  /\ n = Min({MaxCandidates, Len(latest)})
  /\ found = Effects(latest, i)

LEMMA EffectsByPlace ==
  ASSUME NEW i, NEW window, NEW latest, NEW n, NEW found, LookedAt(i, window, latest, n, found)
  PROVE  /\ DOMAIN found = 1 .. n
         /\ \A k \in 1 .. n :
              found[k] = IF MarketEffect(events[latest[k]], events[i])
                           THEN {Row("market_effect", latest[k], i)} ELSE {}
         /\ \A k \in 1 .. n : \A r \in found[k] :
              /\ r = Row("market_effect", latest[k], i)
              /\ MarketEffect(events[latest[k]], events[i])
  <1>1. found = [k \in 1 .. n |-> IF MarketEffect(events[latest[k]], events[i])
                                    THEN {Row("market_effect", latest[k], i)} ELSE {}]
    BY DEF Effects, LookedAt
  <1>2. /\ DOMAIN found = 1 .. n
        /\ \A k \in 1 .. n :
             found[k] = IF MarketEffect(events[latest[k]], events[i])
                          THEN {Row("market_effect", latest[k], i)} ELSE {}
    BY <1>1
  <1> QED
    BY <1>2

LEMMA EffectsAreNew ==
  ASSUME TypeOK, WindowInv, target < Len(events),
         NEW i, NEW window, NEW latest, NEW n, NEW found, LookedAt(i, window, latest, n, found)
  PROVE  /\ n \in Nat
         /\ DOMAIN found = 1 .. n
         /\ \A k \in 1 .. n : /\ \A r \in found[k] : r \in New(i) /\ r.mode = "market_effect"
                              /\ \A r, s \in found[k] : r = s
         /\ \A k, m \in 1 .. n : k < m => found[k] \cap found[m] = {}
         /\ ~(Len(window) > MaxCandidates) =>
              \A r \in New(i) : r.mode = "market_effect" => \E k \in 1 .. n : r \in found[k]
  <1> DEFINE e == events[i]
             all == Len(window)
  <1>0. i = target + 1
    BY DEF LookedAt
  <1>1. /\ target \in Nat /\ i \in 1 .. Len(events) /\ i - 1 = target
        /\ MaxCandidates \in Nat /\ Window \in Nat
        /\ \A j \in 1 .. i : events[j].at \in Nat
        /\ \A j, k \in 1 .. i : j <= k => events[j].at <= events[k].at
    <2>1. /\ Len(events) \in Nat
          /\ target \in 0 .. Len(events)
          /\ \A j \in 1 .. Len(events) : events[j].at \in Nat
          /\ \A j, k \in 1 .. Len(events) : j <= k => events[j].at <= events[k].at
      BY EventsAreKnown
    <2>2. i \in 1 .. Len(events) /\ \A j \in 1 .. i : j \in 1 .. Len(events)
      BY <1>0, <2>1
    <2>3. MaxCandidates \in Nat /\ Window \in Nat
      BY AnalysisAssumption
    <2> QED
      BY <1>0, <2>1, <2>2, <2>3
  <1>2. /\ window \in Seq(1 .. target)
        /\ \A k, m \in 1 .. all : k < m => window[k] < window[m]
        /\ \A k \in 1 .. all : ~TooOld(window[k], e)
        /\ \A j \in ToSet(recent) : j \in ToSet(window) \/ TooOld(j, e)
    BY <1>0, WindowIsRecent DEF LookedAt
  <1>3. /\ all \in Nat
        /\ DOMAIN window = 1 .. all
        /\ \A k \in 1 .. all : window[k] \in 1 .. target
    BY <1>2, Members
  <1>4. Len(latest) = all /\ \A k \in 1 .. all : latest[k] = window[all - k + 1]
    BY <1>3 DEF Reverse, LookedAt
  <1>5. /\ n \in Nat
        /\ n <= all
        /\ all > MaxCandidates \/ n = all
    <2>1. n = Min({MaxCandidates, all})
      BY <1>4 DEF LookedAt
    <2> DEFINE least == Min({MaxCandidates, all})
    <2>2. /\ least \in Nat
          /\ least <= all
          /\ least = MaxCandidates \/ least = all
      BY <1>1, <1>3, SmallerOfTwo
    <2> HIDE DEF least
    <2>3. n = least
      BY <2>1 DEF least
    <2>4. MaxCandidates \in Nat /\ all \in Nat
      BY <1>1, <1>3
    <2> HIDE DEF all
    <2> QED
      BY <2>2, <2>3, <2>4
  <1>6. /\ DOMAIN found = 1 .. n
        /\ \A k \in 1 .. n :
             found[k] = IF MarketEffect(events[latest[k]], e)
                          THEN {Row("market_effect", latest[k], i)} ELSE {}
        /\ \A k \in 1 .. n : \A r \in found[k] :
             /\ r = Row("market_effect", latest[k], i)
             /\ MarketEffect(events[latest[k]], e)
    BY EffectsByPlace
  <1>7. ASSUME NEW k \in 1 .. n
        PROVE  /\ latest[k] \in 1 .. target
               /\ latest[k] = window[all - k + 1]
               /\ all - k + 1 \in 1 .. all
    <2>1. k \in 1 .. all
      <3>1. \E m : m = all /\ n \in Nat /\ m \in Nat /\ n <= m
        BY <1>3, <1>5
      <3> QED
        BY <3>1
    <2>2. all - k + 1 \in 1 .. all
      BY <1>3, <2>1, FromTheEnd
    <2> QED
      BY <1>3, <1>4, <2>1, <2>2
  <1>8. ASSUME NEW k \in 1 .. n, NEW r \in found[k]
        PROVE  /\ r = Row("market_effect", latest[k], i)
               /\ MarketEffect(events[latest[k]], e)
    BY <1>6
  <1>9. ASSUME NEW k \in 1 .. n, NEW r \in found[k]
        PROVE  r \in New(i) /\ r.mode = "market_effect"
    <2>1. /\ r \in [mode : Modes, source : 1 .. target, target : {i}]
          /\ r.mode = "market_effect"
          /\ r.source = latest[k]
      BY <1>7, <1>8 DEF Row, Modes
    <2>2. ~TooOld(latest[k], e)
      BY <1>2, <1>7
    <2>3. e.at - events[latest[k]].at <= Window
      <3>1. latest[k] \in 1 .. i
        BY <1>1, <1>7
      <3>2. events[latest[k]].at \in Nat /\ e.at \in Nat
        BY <1>1, <3>1
      <3>3. ~(events[latest[k]].at + Window < e.at)
        BY <2>2 DEF TooOld
      <3>4. \A x, y \in Nat : ~(x + Window < y) => y - x <= Window
        BY <1>1
      <3> QED
        BY <3>2, <3>3, <3>4
    <2>4. MarketEffect(events[latest[k]], e)
      BY <1>8
    <2>5. events[latest[k]].channel # e.channel
      BY <2>4 DEF MarketEffect
    <2>6. Effect(latest[k], i)
      BY <2>3, <2>4 DEF Effect
    <2> QED
      BY <1>1, <2>1, <2>5, <2>6 DEF New
  <1>10. ASSUME NEW k \in 1 .. n, NEW m \in 1 .. n, k < m
         PROVE  found[k] \cap found[m] = {}
    <2>1. all - m + 1 < all - k + 1
      BY <1>3, <1>10
    <2>2. window[all - m + 1] < window[all - k + 1]
      BY <1>2, <1>7, <2>1
    <2>3. latest[k] # latest[m]
      BY <1>7, <2>2
    <2>4. \A r \in found[k] : r.source = latest[k]
      BY <1>8 DEF Row
    <2>5. \A r \in found[m] : r.source = latest[m]
      BY <1>8 DEF Row
    <2> QED
      BY <2>3, <2>4, <2>5
  <1>11. ASSUME ~(all > MaxCandidates), NEW r \in New(i), r.mode = "market_effect"
         PROVE  \E k \in 1 .. n : r \in found[k]
    <2> DEFINE j == r.source
    <2>1. /\ r \in [mode : Modes, source : 1 .. target, target : {i}]
          /\ Effect(j, i)
      BY <1>1, <1>11 DEF New
    <2>2. j \in 1 .. target /\ r = Row("market_effect", j, i)
      BY <1>11, <2>1 DEF Row
    <2>3. MarketEffect(events[j], e) /\ e.at - events[j].at <= Window
      BY <2>1 DEF Effect
    <2> HIDE DEF j
    <2>4. ~TooOld(j, e)
      <3>1. j \in 1 .. i /\ i \in 1 .. i
        BY <1>1, <2>2
      <3>2. events[j].at \in Nat /\ e.at \in Nat
        BY <1>1, <3>1
      <3> QED
        BY <1>1, <2>3, <3>2 DEF TooOld
    <2>5. ~TooOld(j, events[target])
      <3>1. target \in 1 .. i /\ i \in 1 .. i /\ j \in 1 .. i /\ target <= i
        BY <1>1, <2>2
      <3>2. /\ events[target].at \in Nat
            /\ e.at \in Nat
            /\ events[j].at \in Nat
            /\ events[target].at <= e.at
        BY <1>1, <3>1
      <3>3. ~(events[j].at + Window < e.at)
        BY <2>4 DEF TooOld
      <3>4. ~(events[j].at + Window < events[target].at)
        BY <1>1, <3>2, <3>3
      <3> QED
        BY <3>4 DEF TooOld
    <2>6. Market(events[j])
      BY <2>3 DEF MarketEffect, Market
    <2>7. j \in ToSet(window)
      BY <1>2, <2>2, <2>4, <2>5, <2>6 DEF WindowInv
    <2>8. PICK m \in 1 .. all : window[m] = j
      BY <1>3, <2>7 DEF ToSet
    <2>9. all - m + 1 \in 1 .. n /\ all - (all - m + 1) + 1 = m
      <3>1. all = n
        BY <1>5, <1>11
      <3>2. all - m + 1 \in 1 .. all /\ all - (all - m + 1) + 1 = m
        BY <1>3, FromTheEnd
      <3> QED
        BY <3>1, <3>2
    <2>10. latest[all - m + 1] = j
      BY <1>7, <2>8, <2>9
    <2> QED
      BY <1>6, <2>2, <2>3, <2>9, <2>10
  <1>12. \A k \in 1 .. n : \A r, s \in found[k] : r = s
    BY <1>8
  <1>13. DOMAIN found = 1 .. n
    BY <1>6
  <1> QED
    BY <1>5, <1>9, <1>10, <1>11, <1>12, <1>13

LEMMA Concatenated ==
  ASSUME NEW S, NEW a \in S, NEW b \in S, NEW c \in S, NEW d \in S,
         NEW tail \in Seq(S), NEW found, found = <<a, b, c, d>> \o tail
  PROVE  /\ DOMAIN found = 1 .. (Len(tail) + 4)
         /\ found[1] = a /\ found[2] = b /\ found[3] = c /\ found[4] = d
         /\ \A k \in 1 .. Len(tail) : found[k + 4] = tail[k]
  <1> DEFINE head == <<a, b, c, d>>
  <1>1. head \in Seq(S) /\ Len(head) = 4
    OBVIOUS
  <1>2. head[1] = a /\ head[2] = b /\ head[3] = c /\ head[4] = d
    OBVIOUS
  <1>3. found = head \o tail
    OBVIOUS
  <1> HIDE DEF head
  <1> QED
    BY <1>1, <1>2, <1>3

\* The four that an index leads to, in their order, and the market after them.
ModeOf(k) ==
  IF k = 1 THEN "identity"
  ELSE IF k = 2 THEN "event_time"
  ELSE IF k = 3 THEN "transaction_time"
  ELSE IF k = 4 THEN "state" ELSE "market_effect"

LEMMA CandidatesAreNew ==
  ASSUME TypeOK, IndexInv, WindowInv, target < Len(events),
         NEW found, found = Candidates(target + 1)
  PROVE  \E n \in Nat :
           /\ DOMAIN found = 1 .. n
           /\ \A k \in 1 .. n : /\ \A r \in found[k] : r \in New(target + 1)
                                /\ \A r, s \in found[k] : r = s
           /\ \A k, m \in 1 .. n : k < m => found[k] \cap found[m] = {}
           /\ ~(Len(InWindow(events[target + 1])) > MaxCandidates) =>
                \A r \in New(target + 1) : \E k \in 1 .. n : r \in found[k]
  <1>1. PICK i, window, latest, n, tail : LookedAt(i, window, latest, n, tail)
    BY DEF LookedAt
  <1>2. i = target + 1 /\ window = InWindow(events[i])
    BY <1>1 DEF LookedAt
  <1>3. /\ n \in Nat
        /\ DOMAIN tail = 1 .. n
        /\ \A k \in 1 .. n : /\ \A r \in tail[k] : r \in New(i) /\ r.mode = "market_effect"
                             /\ \A r, s \in tail[k] : r = s
        /\ \A k, m \in 1 .. n : k < m => tail[k] \cap tail[m] = {}
        /\ ~(Len(window) > MaxCandidates) =>
             \A r \in New(i) : r.mode = "market_effect" => \E k \in 1 .. n : r \in tail[k]
    BY <1>1, EffectsAreNew
  <1>4. \A mode \in Modes \ {"market_effect"} :
          /\ Of(mode, i) = {r \in New(i) : r.mode = mode}
          /\ \A r, s \in Of(mode, i) : r = s
    BY <1>2, OneRow
  <1>5. tail \in Seq(SUBSET New(i)) /\ Len(tail) = n
    <2>1. tail = [k \in 1 .. n |-> tail[k]]
      BY <1>1 DEF LookedAt, Effects
    <2>2. \A k \in 1 .. n : tail[k] \in SUBSET New(i)
      BY <1>3
    <2>3. tail \in [1 .. n -> SUBSET New(i)]
      BY <2>1, <2>2
    <2> QED
      BY <1>3, <2>3
  <1>6. found = <<Of("identity", i), Of("event_time", i), Of("transaction_time", i),
                  Of("state", i)>> \o tail
    BY <1>1 DEF Candidates, LookedAt, Effects
  <1>7. \A mode \in {"identity", "event_time", "transaction_time", "state"} :
          mode \in Modes \ {"market_effect"} /\ Of(mode, i) \in SUBSET New(i)
    BY <1>4 DEF Modes
  <1>8. /\ DOMAIN found = 1 .. (n + 4)
        /\ found[1] = Of("identity", i)
        /\ found[2] = Of("event_time", i)
        /\ found[3] = Of("transaction_time", i)
        /\ found[4] = Of("state", i)
        /\ \A k \in 1 .. n : found[k + 4] = tail[k]
    BY <1>5, <1>6, <1>7, Concatenated
  <1>9. ASSUME NEW k \in 1 .. (n + 4)
        PROVE  k \in 1 .. 4 \/ (k - 4 \in 1 .. n /\ found[k] = tail[k - 4])
    <2>1. CASE k > 4
      <3>1. k - 4 \in 1 .. n /\ (k - 4) + 4 = k
        BY <1>3, <2>1
      <3> QED
        BY <1>8, <3>1
    <2> QED
      BY <2>1
  <1>10. ASSUME NEW k \in 1 .. 4
         PROVE  ModeOf(k) \in Modes \ {"market_effect"} /\ found[k] = Of(ModeOf(k), i)
    <2>1. k = 1 \/ k = 2 \/ k = 3 \/ k = 4
      OBVIOUS
    <2> QED
      BY <1>8, <2>1 DEF ModeOf, Modes
  <1>11. ASSUME NEW k \in 1 .. (n + 4)
         PROVE  /\ \A r \in found[k] : r \in New(i) /\ r.mode = ModeOf(k)
                /\ \A r, s \in found[k] : r = s
    <2>1. CASE k \in 1 .. 4
      BY <1>4, <1>10, <2>1
    <2>2. CASE k \notin 1 .. 4
      <3>1. k - 4 \in 1 .. n /\ found[k] = tail[k - 4]
        BY <1>9, <2>2
      <3>2. ModeOf(k) = "market_effect"
        BY <2>2 DEF ModeOf
      <3> QED
        BY <1>3, <3>1, <3>2
    <2> QED
      BY <2>1, <2>2
  <1>12. ASSUME NEW k \in 1 .. (n + 4), NEW m \in 1 .. (n + 4), k < m
         PROVE  found[k] \cap found[m] = {}
    <2>1. CASE k \in 1 .. 4
      <3>1. ModeOf(k) # ModeOf(m)
        BY <1>3, <1>12, <2>1 DEF ModeOf
      <3> QED
        BY <1>11, <3>1
    <2>2. CASE k \notin 1 .. 4
      <3>1. k - 4 \in 1 .. n /\ found[k] = tail[k - 4]
        BY <1>9, <2>2
      <3>2. m \notin 1 .. 4
        BY <1>3, <1>12, <2>2
      <3>3. m - 4 \in 1 .. n /\ found[m] = tail[m - 4]
        BY <1>9, <3>2
      <3>4. k - 4 < m - 4
        BY <1>3, <1>12
      <3>5. tail[k - 4] \cap tail[m - 4] = {}
        BY <1>3, <3>1, <3>3, <3>4
      <3> QED
        BY <3>1, <3>3, <3>5
    <2> QED
      BY <2>1, <2>2
  <1>13. ASSUME ~(Len(window) > MaxCandidates), NEW r \in New(i)
         PROVE  \E k \in 1 .. (n + 4) : r \in found[k]
    <2>1. CASE r.mode = "market_effect"
      <3>1. PICK k \in 1 .. n : r \in tail[k]
        BY <1>3, <1>13, <2>1
      <3>2. k + 4 \in 1 .. (n + 4)
        BY <1>3
      <3> QED
        BY <1>8, <3>1, <3>2
    <2>2. CASE r.mode # "market_effect"
      <3>1. r.mode \in {"identity", "event_time", "transaction_time", "state"}
        BY <2>2 DEF New, Modes
      <3>2. r \in Of(r.mode, i)
        BY <1>4, <1>7, <3>1
      <3>3. 1 \in 1 .. (n + 4) /\ 2 \in 1 .. (n + 4) /\ 3 \in 1 .. (n + 4) /\ 4 \in 1 .. (n + 4)
        BY <1>3
      <3> QED
        BY <1>8, <3>1, <3>2, <3>3
    <2> QED
      BY <2>1, <2>2
  <1>14. n + 4 \in Nat
    BY <1>3
  <1> QED
    BY <1>2, <1>8, <1>11, <1>12, <1>13, <1>14

-----------------------------------------------------------------------------
(* The invariant *)

LEMMA AtFirst ==
  ASSUME Init
  PROVE  IInv
  <1> USE DEF Init
  <1>1. content \in Seq(Events) /\ InTime(content)
    <2>1. PICK n \in 0 .. MaxEvents : content \in [1 .. n -> Events]
      BY DEF BoundedSeq, SeqOf
    <2>2. n \in Nat
      BY AnalysisAssumption
    <2> QED
      BY <2>1, <2>2
  <1>2. TypeOK
    <2>1. Len(content) \in Nat
      BY <1>1
    <2>2. output_full \in BOOLEAN
      OBVIOUS
    <2>3. /\ events = << >> /\ relations = << >>
          /\ << >> \in Seq(Events)
          /\ << >> \in Seq([mode : Modes, source : Nat, target : Nat])
          /\ Len(events) = 0
      OBVIOUS
    <2>4. /\ room \in Rooms /\ stage \in Stages /\ analyses \in Nat
          /\ target = 0 /\ relation_id \in Nat /\ dropped \in Nat
      BY DEF Stages
    <2> HIDE DEF Init
    <2> QED
      BY <1>1, <2>1, <2>2, <2>3, <2>4 DEF TypeOK
  <1>3. IndexInv
    BY DEF IndexInv, NoIndex
  <1>4. WindowInv
    BY DEF WindowInv
  <1>5. Expected = {}
    BY DEF Expected
  <1>6. RowsInv
    BY <1>5 DEF RowsInv, Rows
  <1>7. RelationsAreCounted
    BY DEF RelationsAreCounted
  <1>8. FilesInv /\ FindingsComeLast
    BY DEF FilesInv, FindingsComeLast, Derived, Summary
  <1> QED
    BY <1>2, <1>3, <1>4, <1>6, <1>7, <1>8 DEF IInv

\* What the analysis has in memory before it has looked at an event.
LEMMA NothingRelated ==
  ASSUME target' = 0, index' = NoIndex, recent' = << >>, relations' = << >>, relation_id' = 0,
         output_full' = FALSE, dropped' = 0
  PROVE  IndexInv' /\ WindowInv' /\ RowsInv' /\ RelationsAreCounted'
  <1>1. IndexInv'
    BY DEF IndexInv, NoIndex
  <1>2. WindowInv'
    BY DEF WindowInv
  <1>3. Expected' = {}
    BY DEF Expected
  <1>4. RowsInv'
    BY <1>3 DEF RowsInv, Rows
  <1>5. RelationsAreCounted'
    BY DEF RelationsAreCounted
  <1> QED
    BY <1>1, <1>2, <1>4, <1>5

LEMMA SameRelations ==
  ASSUME IndexInv, WindowInv, RowsInv, RelationsAreCounted, UNCHANGED <<events, relating>>
  PROVE  IndexInv' /\ WindowInv' /\ RowsInv' /\ RelationsAreCounted'
  <1> USE DEF relating
  <1>1. IndexInv'
    BY DEF IndexInv
  <1>2. WindowInv'
    BY DEF WindowInv, TooOld
  <1>3. Expected' = Expected
    BY DEF Expected, Effect, MarketEffect, Follows
  <1>4. RowsInv'
    BY <1>3 DEF RowsInv, Rows
  <1>5. RelationsAreCounted'
    BY DEF RelationsAreCounted
  <1> QED
    BY <1>1, <1>2, <1>4, <1>5

LEMMA OpenKeeps ==
  ASSUME IInv, Open
  PROVE  IInv'
  <1>1. IndexInv' /\ WindowInv' /\ RowsInv' /\ RelationsAreCounted'
    BY NothingRelated DEF Open
  <1>2. TypeOK'
    <2>1. TypeOK
      BY DEF IInv
    <2>2. /\ content' \in Seq(Events)
          /\ InTime(content)'
          /\ Len(content)' \in Nat
          /\ room' \in Rooms
      BY <2>1 DEF TypeOK, Open, bundle, InTime
    <2>3. /\ stage' \in Stages
          /\ analyses' \in Nat
          /\ target' = 0
          /\ relation_id' \in Nat
          /\ dropped' \in Nat
      BY <2>1 DEF TypeOK, Open, Stages
    <2>4. output_full' \in BOOLEAN
      BY DEF Open
    <2>5. /\ events' \in Seq(Events)
          /\ relations' \in Seq([mode : Modes, source : Nat, target : Nat])
          /\ Len(events)' = 0
      BY DEF Open
    <2>6. /\ Len(events)' <= Len(content)'
          /\ target' \in 0 .. Len(events)'
          /\ \A i \in 1 .. Len(events)' : events'[i] = content'[i]
      BY <2>2, <2>3, <2>5
    <2> QED
      BY <2>2, <2>3, <2>4, <2>5, <2>6, Zenon DEF TypeOK
  <1>3. analyses \in Nat /\ analyses' = analyses + 1 /\ stage' = "frames"
    BY DEF Open, IInv, TypeOK
  <1>4. FilesInv' /\ FindingsComeLast'
    <2>1. /\ files \in [Derived \cup Summary -> {"absent", "partial", "whole"}]
          /\ files' = [f \in DOMAIN files |-> IF f \in Derived THEN "partial" ELSE files[f]]
          /\ analyses = 0 => \A f \in Summary : files[f] = "absent"
      BY DEF IInv, FilesInv, Open
    <2>2. files' \in [Derived \cup Summary -> {"absent", "partial", "whole"}]
      BY <2>1
    <2>3. analyses = 0 => \A f \in Summary : files'[f] = "absent"
      BY <2>1 DEF Derived, Summary
    <2>4. analyses' # 0 /\ (analyses' = 1 => analyses = 0)
      BY <1>3
    <2>5. FilesInv'
      BY <1>3, <2>2, <2>3, <2>4 DEF FilesInv
    <2>6. FindingsComeLast'
      BY <2>3, <2>4 DEF FindingsComeLast
    <2> QED
      BY <2>5, <2>6
  <1> QED
    BY <1>1, <1>2, <1>4 DEF IInv

LEMMA AddEventKeeps ==
  ASSUME IInv, AddEvent
  PROVE  IInv'
  <1>1. /\ TypeOK /\ IndexInv /\ WindowInv /\ RowsInv /\ RelationsAreCounted
        /\ FilesInv /\ FindingsComeLast
    BY DEF IInv
  <1>2. /\ target = 0
        /\ stage = "frames"
        /\ UNCHANGED <<content, room, stage, analyses, target, index, recent, relations,
                       relation_id, output_full, dropped, files>>
    BY <1>1 DEF AddEvent, TypeOK, bundle, relating
  <1>3. TypeOK'
    <2>1. /\ content \in Seq(Events) /\ events \in Seq(Events)
          /\ Len(content) \in Nat /\ Len(events) \in Nat
          /\ Len(events) < Len(content)
          /\ events' = Append(events, content[Len(events) + 1])
          /\ \A j \in 1 .. Len(events) : events[j] = content[j]
      BY <1>1 DEF AddEvent, TypeOK
    <2>2. content[Len(events) + 1] \in Events
      BY <2>1
    <2>3. /\ events' \in Seq(Events)
          /\ Len(events') = Len(events) + 1
          /\ \A j \in 1 .. Len(events) : events'[j] = events[j]
          /\ events'[Len(events) + 1] = content[Len(events) + 1]
      BY <2>1, <2>2
    <2>4. \A j \in 1 .. Len(events') : events'[j] = content[j]
      BY <2>1, <2>3
    <2>5. Len(events') <= Len(content) /\ target \in 0 .. Len(events')
      BY <1>2, <2>1, <2>3
    <2>6. /\ content' \in Seq(Events)
          /\ InTime(content)'
          /\ room' \in Rooms
          /\ stage' \in Stages
          /\ analyses' \in Nat
          /\ target' = 0
          /\ relations' \in Seq([mode : Modes, source : Nat, target : Nat])
          /\ relation_id' \in Nat
          /\ dropped' \in Nat
      BY <1>1, <1>2 DEF TypeOK, InTime
    <2>7. output_full' \in BOOLEAN
      BY <1>1, <1>2 DEF TypeOK
    <2>8. Len(events)' = Len(events') /\ Len(content)' = Len(content)
      BY <1>2
    <2>9. \A j \in 1 .. Len(events)' : events'[j] = content'[j]
      BY <1>2, <2>4
    <2>10. target' \in 0 .. Len(events)' /\ Len(events)' <= Len(content)'
      BY <1>2, <2>5
    <2> QED
      BY <2>3, <2>6, <2>7, <2>9, <2>10, Zenon DEF TypeOK
  <1>4. IndexInv'
    BY <1>1, <1>2 DEF IndexInv
  <1>5. WindowInv'
    BY <1>1, <1>2 DEF WindowInv
  <1>6. Expected = {} /\ Expected' = {}
    BY <1>2 DEF Expected
  <1>7. RowsInv'
    BY <1>1, <1>2, <1>6 DEF RowsInv, Rows
  <1>8. RelationsAreCounted' /\ FilesInv' /\ FindingsComeLast'
    BY <1>1, <1>2 DEF RelationsAreCounted, FilesInv, FindingsComeLast
  <1> QED
    BY <1>3, <1>4, <1>5, <1>7, <1>8 DEF IInv

\* Between the events only the stage and the files change.
LEMMA BetweenEvents ==
  ASSUME IInv, UNCHANGED <<bundle, analyses, events, relating>>,
         stage' \in {"relations", "summary", "done", "failed"}, FilesInv', FindingsComeLast'
  PROVE  IInv'
  <1>1. IndexInv' /\ WindowInv' /\ RowsInv' /\ RelationsAreCounted'
    BY SameRelations DEF IInv
  <1>2. TypeOK'
    BY DEF IInv, TypeOK, Stages, bundle, relating, InTime
  <1> QED
    BY <1>1, <1>2 DEF IInv

LEMMA EndOfFramesKeeps ==
  ASSUME IInv, EndOfFrames
  PROVE  IInv'
  <1>1. FilesInv' /\ FindingsComeLast'
    BY DEF IInv, EndOfFrames, FilesInv, FindingsComeLast
  <1> QED
    BY <1>1, BetweenEvents DEF EndOfFrames

LEMMA FailKeeps ==
  ASSUME IInv, Fail
  PROVE  IInv'
  <1>1. FilesInv' /\ FindingsComeLast'
    BY DEF IInv, Fail, FilesInv, FindingsComeLast
  <1> QED
    BY <1>1, BetweenEvents DEF Fail

LEMMA FlushDerivedKeeps ==
  ASSUME IInv, FlushDerived
  PROVE  IInv'
  <1>1. PICK written \in SUBSET Derived :
          /\ files' = [f \in DOMAIN files |-> IF f \in written THEN "whole" ELSE files[f]]
          /\ stage' = IF written = Derived THEN "summary" ELSE "failed"
    BY DEF FlushDerived
  <1>2. /\ stage = "relations" /\ analyses' = analyses /\ analyses \in Nat
        /\ UNCHANGED <<bundle, analyses, events, relating>>
        /\ FilesInv /\ FindingsComeLast
    BY DEF FlushDerived, IInv, TypeOK
  <1>3. files \in [Derived \cup Summary -> {"absent", "partial", "whole"}]
    BY <1>2 DEF FilesInv
  <1>4. files' \in [Derived \cup Summary -> {"absent", "partial", "whole"}]
    BY <1>1, <1>3
  <1>5. \A f \in Summary : files'[f] = files[f]
    BY <1>1, <1>3 DEF Derived, Summary
  <1>6. stage' = "summary" => \A f \in Derived : files'[f] = "whole"
    BY <1>1, <1>3
  <1>7. analyses # 0 /\ (analyses = 1 => \A f \in Summary : files[f] = "absent")
    BY <1>2 DEF FilesInv
  <1>8. FilesInv'
    BY <1>1, <1>2, <1>4, <1>6, <1>7 DEF FilesInv
  <1>9. FindingsComeLast'
    BY <1>2, <1>5, <1>7 DEF FindingsComeLast
  <1>10. stage' \in {"relations", "summary", "done", "failed"}
    BY <1>1
  <1> QED
    BY <1>2, <1>8, <1>9, <1>10, BetweenEvents

LEMMA WriteSummaryKeeps ==
  ASSUME IInv, WriteSummary
  PROVE  IInv'
  <1>1. PICK written \in SUBSET Summary :
          /\ files' = [f \in DOMAIN files |-> IF f \in Derived THEN files[f]
                                              ELSE IF f \in written THEN "whole" ELSE "partial"]
          /\ stage' = IF written = Summary THEN "done" ELSE "failed"
    BY DEF WriteSummary
  <1>2. /\ stage = "summary" /\ analyses' = analyses /\ analyses \in Nat
        /\ UNCHANGED <<bundle, analyses, events, relating>>
        /\ FilesInv
    BY DEF WriteSummary, IInv, TypeOK
  <1>3. /\ files \in [Derived \cup Summary -> {"absent", "partial", "whole"}]
        /\ \A f \in Derived : files[f] = "whole"
        /\ analyses # 0
    BY <1>2 DEF FilesInv
  <1>4. files' \in [Derived \cup Summary -> {"absent", "partial", "whole"}]
    BY <1>1, <1>3
  <1>5. \A f \in Derived : files'[f] = "whole"
    BY <1>1, <1>3
  <1>6. stage' \in {"done", "failed"}
    BY <1>1
  <1>7. FilesInv'
    BY <1>2, <1>3, <1>4, <1>6 DEF FilesInv
  <1>8. FindingsComeLast'
    BY <1>5 DEF FindingsComeLast
  <1> QED
    BY <1>2, <1>6, <1>7, <1>8, BetweenEvents

-----------------------------------------------------------------------------
(* The step that relates an event *)

LEMMA RelateGrowsExpected ==
  ASSUME TypeOK, target' = target + 1, events' = events
  PROVE  /\ \A r \in Expected' : r \in Expected \/ r \in New(target + 1)
         /\ \A r \in Expected : r \in Expected' /\ r.target # target + 1
         /\ \A r \in New(target + 1) : r \in Expected' /\ r.target = target + 1
  <1> DEFINE i == target + 1
  <1>1. target \in Nat /\ i - 1 = target
    BY EventsAreKnown
  <1>2. 1 .. i = (1 .. target) \cup {i} /\ i \notin 1 .. target
    BY <1>1
  <1>3. /\ \A m, j, k : Follows(m, j, k)' = Follows(m, j, k)
        /\ \A j, k : Effect(j, k)' = Effect(j, k)
    BY DEF Follows, Effect, MarketEffect
  <1>4. Expected' =
          {r \in [mode : Modes, source : 1 .. i, target : 1 .. i] :
             /\ r.source < r.target
             /\ events[r.source].channel # events[r.target].channel
             /\ IF r.mode = "market_effect" THEN Effect(r.source, r.target)
                                            ELSE Follows(r.mode, r.source, r.target)}
    BY <1>3 DEF Expected
  <1>5. ASSUME NEW r \in Expected'
        PROVE  r \in Expected \/ r \in New(i)
    <2>1. /\ r \in [mode : Modes, source : 1 .. i, target : 1 .. i]
          /\ r.source < r.target
          /\ events[r.source].channel # events[r.target].channel
          /\ IF r.mode = "market_effect" THEN Effect(r.source, r.target)
                                         ELSE Follows(r.mode, r.source, r.target)
      BY <1>4
    <2>2. r.source \in 1 .. target
      BY <1>1, <2>1
    <2>3. CASE r.target = i
      <3>1. r \in [mode : Modes, source : 1 .. (i - 1), target : {i}]
        BY <1>1, <2>1, <2>2, <2>3
      <3> QED
        BY <2>1, <2>3, <3>1 DEF New
    <2>4. CASE r.target # i
      <3>1. r \in [mode : Modes, source : 1 .. target, target : 1 .. target]
        BY <1>2, <2>1, <2>2, <2>4
      <3> QED
        BY <2>1, <3>1 DEF Expected
    <2> QED
      BY <2>3, <2>4
  <1>6. ASSUME NEW r \in Expected
        PROVE  r \in Expected' /\ r.target # i
    <2>1. /\ r \in [mode : Modes, source : 1 .. target, target : 1 .. target]
          /\ r.source < r.target
          /\ events[r.source].channel # events[r.target].channel
          /\ IF r.mode = "market_effect" THEN Effect(r.source, r.target)
                                         ELSE Follows(r.mode, r.source, r.target)
      BY DEF Expected
    <2>2. r \in [mode : Modes, source : 1 .. i, target : 1 .. i] /\ r.target # i
      BY <1>2, <2>1
    <2> QED
      BY <1>4, <2>1, <2>2
  <1>7. ASSUME NEW r \in New(i)
        PROVE  r \in Expected' /\ r.target = i
    <2>1. /\ r \in [mode : Modes, source : 1 .. target, target : {i}]
          /\ events[r.source].channel # events[i].channel
          /\ IF r.mode = "market_effect" THEN Effect(r.source, i)
                                         ELSE Follows(r.mode, r.source, i)
      BY <1>1 DEF New
    <2>2. r.target = i /\ r.source < r.target
      BY <1>1, <2>1
    <2>3. r \in [mode : Modes, source : 1 .. i, target : 1 .. i]
      BY <1>2, <2>1
    <2> QED
      BY <1>4, <2>1, <2>2, <2>3
  <1> QED
    BY <1>5, <1>6, <1>7

LEMMA RelateKeepsIndex ==
  ASSUME IInv, Relate
  PROVE  IndexInv'
  <1> DEFINE i == target + 1
  <1>1. /\ target \in Nat /\ target' = i /\ events' = events
        /\ DOMAIN index = Modes \ {"market_effect"}
        /\ index' = [mode \in DOMAIN index |-> Indexed(mode, i)]
    BY DEF IInv, TypeOK, IndexInv, Relate
  <1>2. 1 .. i = (1 .. target) \cup {i}
    BY <1>1
  <1>3. ASSUME NEW mode \in DOMAIN index
        PROVE  /\ \A j \in 1 .. i : Keys(mode, events[j]) \subseteq DOMAIN index'[mode]
               /\ \A key \in DOMAIN index'[mode] :
                    /\ index'[mode][key] \in 1 .. i
                    /\ key \in Keys(mode, events[index'[mode][key]])
                    /\ \A j \in (index'[mode][key] + 1) .. i : key \notin Keys(mode, events[j])
    <2>1. /\ \A j \in 1 .. target : Keys(mode, events[j]) \subseteq DOMAIN index[mode]
          /\ \A key \in DOMAIN index[mode] :
               /\ index[mode][key] \in 1 .. target
               /\ key \in Keys(mode, events[index[mode][key]])
               /\ \A j \in (index[mode][key] + 1) .. target : key \notin Keys(mode, events[j])
      BY DEF IInv, IndexInv
    <2>2. index'[mode] = [key \in DOMAIN index[mode] \cup Keys(mode, events[i]) |->
                            IF key \in Keys(mode, events[i]) THEN i ELSE index[mode][key]]
      BY <1>1 DEF Indexed
    <2>3. \A j \in 1 .. i : Keys(mode, events[j]) \subseteq DOMAIN index'[mode]
      BY <1>2, <2>1, <2>2
    <2>4. ASSUME NEW key \in DOMAIN index'[mode]
          PROVE  /\ index'[mode][key] \in 1 .. i
                 /\ key \in Keys(mode, events[index'[mode][key]])
                 /\ \A j \in (index'[mode][key] + 1) .. i : key \notin Keys(mode, events[j])
      <3>1. CASE key \in Keys(mode, events[i])
        <4>1. index'[mode][key] = i
          BY <2>2, <3>1
        <4>2. i \in 1 .. i /\ \A j \in (i + 1) .. i : FALSE
          BY <1>1
        <4> QED
          BY <3>1, <4>1, <4>2
      <3>2. CASE key \notin Keys(mode, events[i])
        <4>1. key \in DOMAIN index[mode] /\ index'[mode][key] = index[mode][key]
          BY <2>2, <3>2
        <4>2. index[mode][key] \in 1 .. target
          BY <2>1, <4>1
        <4>3. \A j \in (index[mode][key] + 1) .. i :
                j \in (index[mode][key] + 1) .. target \/ j = i
          BY <1>1, <4>2
        <4>4. \A j \in (index[mode][key] + 1) .. i : key \notin Keys(mode, events[j])
          BY <2>1, <3>2, <4>1, <4>3
        <4> QED
          BY <1>2, <2>1, <4>1, <4>2, <4>4
      <3> QED
        BY <3>1, <3>2
    <2> QED
      BY <2>3, <2>4
  <1>4. DOMAIN index' = Modes \ {"market_effect"}
    BY <1>1
  <1> QED
    BY <1>1, <1>3, <1>4 DEF IndexInv

LEMMA RelateKeepsWindow ==
  ASSUME IInv, Relate
  PROVE  WindowInv'
  <1>1. /\ TypeOK /\ WindowInv /\ target < Len(events)
        /\ target' = target + 1 /\ events' = events
    BY DEF IInv, Relate
  <1>2. PICK i, e, window : i = target + 1 /\ e = events[i] /\ window = InWindow(e)
    OBVIOUS
  <1>3. /\ window \in Seq(1 .. target)
        /\ \A k, n \in 1 .. Len(window) : k < n => window[k] < window[n]
        /\ \A k \in 1 .. Len(window) : ~TooOld(window[k], e)
        /\ \A j \in ToSet(recent) : j \in ToSet(window) \/ TooOld(j, e)
    BY <1>1, <1>2, WindowIsRecent
  <1>4. recent' = window \o (IF Market(e) THEN <<i>> ELSE << >>)
    BY <1>2 DEF Relate, Market
  <1>5. /\ target \in Nat /\ i \in Nat /\ i \in 1 .. i
        /\ 1 .. i = (1 .. target) \cup {i}
        /\ Len(window) \in Nat
        /\ DOMAIN window = 1 .. Len(window)
        /\ \A k \in 1 .. Len(window) : window[k] \in 1 .. target
    <2>1. target \in Nat
      BY <1>1, EventsAreKnown
    <2>2. /\ Len(window) \in Nat
          /\ DOMAIN window = 1 .. Len(window)
          /\ \A k \in 1 .. Len(window) : window[k] \in 1 .. target
      BY <1>3, Members
    <2> QED
      BY <1>2, <2>1, <2>2
  <1>6. window \in Seq(1 .. i)
    <2>1. window \in [1 .. Len(window) -> 1 .. i]
      BY <1>3, <1>5
    <2> QED
      BY <1>5, <2>1
  <1>7. ASSUME NEW j \in 1 .. target, Market(events[j])
        PROVE  j \in ToSet(window) \/ TooOld(j, e)
    <2>1. j \in ToSet(recent) \/ TooOld(j, events[target])
      BY <1>1, <1>7 DEF WindowInv
    <2>2. CASE j \in ToSet(recent)
      BY <1>3, <2>2
    <2>3. CASE TooOld(j, events[target])
      <3>1. /\ j \in 1 .. Len(events)
            /\ target \in 1 .. Len(events)
            /\ i \in 1 .. Len(events)
            /\ target <= i
            /\ Window \in Nat
        BY <1>1, <1>2, <1>5, EventsAreKnown, AnalysisAssumption
      <3>2. /\ events[j].at \in Nat /\ events[target].at \in Nat /\ e.at \in Nat
            /\ events[target].at <= e.at
        BY <1>1, <1>2, <3>1, EventsAreKnown
      <3>3. events[j].at + Window < e.at
        BY <2>3, <3>1, <3>2 DEF TooOld
      <3> QED
        BY <3>3 DEF TooOld
    <2> QED
      BY <2>1, <2>2, <2>3
  <1>8. \A j : TooOld(j, e)' = TooOld(j, e)
    BY <1>1 DEF TooOld
  <1>9. /\ recent' \in Seq(1 .. i)
        /\ \A k, n \in 1 .. Len(recent') : k < n => recent'[k] < recent'[n]
        /\ \A j \in 1 .. i : Market(events[j]) => j \in ToSet(recent') \/ TooOld(j, e)
    <2>1. CASE Market(e)
      <3>1. recent' = Append(window, i)
        BY <1>4, <1>6, <2>1
      <3>2. /\ recent' \in Seq(1 .. i)
            /\ Len(recent') = Len(window) + 1
            /\ \A k \in 1 .. Len(window) : recent'[k] = window[k]
            /\ recent'[Len(window) + 1] = i
        BY <1>5, <1>6, <3>1
      <3>3. ASSUME NEW k \in 1 .. Len(recent'), NEW n \in 1 .. Len(recent'), k < n
            PROVE  recent'[k] < recent'[n]
        <4>1. k \in 1 .. Len(window)
          BY <1>5, <3>2, <3>3
        <4>2. CASE n \in 1 .. Len(window)
          BY <1>3, <3>2, <3>3, <4>1, <4>2
        <4>3. CASE n \notin 1 .. Len(window)
          <5>1. n = Len(window) + 1
            BY <1>5, <3>2, <4>3
          <5>2. window[k] < i
            BY <1>2, <1>5, <4>1
          <5> QED
            BY <3>2, <4>1, <5>1, <5>2
        <4> QED
          BY <4>2, <4>3
      <3>4. DOMAIN recent' = 1 .. Len(recent')
        BY <3>2
      <3>5. ToSet(window) \subseteq ToSet(recent') /\ i \in ToSet(recent')
        <4>1. 1 .. Len(recent') = (1 .. Len(window)) \cup {Len(window) + 1}
          BY <1>5, <3>2
        <4> QED
          BY <1>5, <3>2, <3>4, <4>1 DEF ToSet
      <3>6. \A j \in 1 .. i : Market(events[j]) => j \in ToSet(recent') \/ TooOld(j, e)
        BY <1>5, <1>7, <3>5
      <3> QED
        BY <3>2, <3>3, <3>6
    <2>2. CASE ~Market(e)
      <3>1. recent' = window
        BY <1>4, <1>6, <2>2
      <3>2. \A j \in 1 .. i : Market(events[j]) => j \in ToSet(recent') \/ TooOld(j, e)
        BY <1>2, <1>5, <1>7, <2>2, <3>1
      <3> QED
        BY <1>3, <1>6, <3>1, <3>2
    <2> QED
      BY <2>1, <2>2
  <1>10. target' = i /\ events'[target'] = e
    BY <1>1, <1>2
  <1>11. \A j \in 1 .. i : Market(events'[j]) =>
           j \in ToSet(recent') \/ TooOld(j, events[target])'
    BY <1>1, <1>9, <1>10 DEF TooOld
  <1> QED
    BY <1>9, <1>10, <1>11 DEF WindowInv

LEMMA RelateKeepsRows ==
  ASSUME IInv, Relate
  PROVE  /\ RowsInv'
         /\ RelationsAreCounted'
         /\ relations' \in Seq(RelationType)
         /\ relation_id' \in Nat /\ output_full' \in BOOLEAN /\ dropped' \in Nat
  <1> DEFINE all == relations'
  <1>1. /\ TypeOK /\ IndexInv /\ WindowInv /\ RowsInv /\ RelationsAreCounted
        /\ target < Len(events) /\ target' = target + 1 /\ events' = events
    BY DEF IInv, Relate
  <1>2. PICK base, found, out :
          /\ base = [rows |-> relations, id |-> relation_id, full |-> output_full,
                     dropped |-> dropped]
          /\ found = Candidates(target + 1)
          /\ out = FoldLeft(Considered, base, found)
    OBVIOUS
  <1>3. PICK i : i = target + 1
    OBVIOUS
  <1>4. /\ relations' = out.rows
        /\ relation_id' = out.id
        /\ output_full' = out.full
        /\ dropped' = out.dropped + (IF Len(InWindow(events[i])) > MaxCandidates THEN 1 ELSE 0)
    BY <1>2, <1>3 DEF Relate
  <1>5. base \in OutType /\ Counted(base)
    <2>1. base \in OutType
      BY <1>1, <1>2 DEF TypeOK, OutType, RelationType
    <2>2. Counted(base)
      BY <1>1, <1>2 DEF RelationsAreCounted, Counted
    <2> QED
      BY <2>1, <2>2
  <1>6. base.rows = relations /\ base.dropped = dropped
    BY <1>2
  <1>7. PICK n \in Nat :
          /\ DOMAIN found = 1 .. n
          /\ \A k \in 1 .. n : /\ \A r \in found[k] : r \in New(i)
                               /\ \A r, s \in found[k] : r = s
          /\ \A k, m \in 1 .. n : k < m => found[k] \cap found[m] = {}
          /\ ~(Len(InWindow(events[i])) > MaxCandidates) =>
               \A r \in New(i) : \E k \in 1 .. n : r \in found[k]
    BY <1>1, <1>2, <1>3, CandidatesAreNew
  <1>8. New(i) \subseteq RelationType
    <2>1. i \in Nat
      BY <1>1, <1>3, EventsAreKnown
    <2>2. New(i) \subseteq [mode : Modes, source : 1 .. (i - 1), target : {i}]
      BY DEF New
    <2>3. 1 .. (i - 1) \subseteq Nat /\ {i} \subseteq Nat
      BY <2>1
    <2> QED
      BY <2>2, <2>3 DEF RelationType
  <1>9. Kept(base, found, out, n)
    <2>1. \A k \in 1 .. n : /\ found[k] \in SUBSET RelationType
                            /\ \A r, s \in found[k] : r = s
      BY <1>7, <1>8
    <2> QED
      BY <1>2, <1>5, <1>7, <2>1, RowsOfOneEvent
  <1>10. /\ out \in OutType
         /\ Counted(out)
         /\ out.dropped >= dropped
         /\ Len(relations) <= Len(out.rows)
         /\ \A x \in 1 .. Len(relations) : out.rows[x] = relations[x]
         /\ \A x \in (Len(relations) + 1) .. Len(out.rows) :
              \E m \in 1 .. n : out.rows[x] \in found[m]
         /\ \A x, y \in (Len(relations) + 1) .. Len(out.rows) : out.rows[x] = out.rows[y] => x = y
         /\ out.dropped = 0 =>
              \A m \in 1 .. n : \A r \in found[m] :
                \E x \in 1 .. Len(out.rows) : out.rows[x] = r
    BY <1>6, <1>9 DEF Kept
  <1>11. /\ out.rows \in Seq(RelationType)
         /\ out.id \in Nat
         /\ out.full \in BOOLEAN
         /\ out.dropped \in Nat
         /\ dropped \in Nat
         /\ Len(out.rows) \in Nat
         /\ DOMAIN out.rows = 1 .. Len(out.rows)
         /\ Len(relations) \in Nat
         /\ DOMAIN relations = 1 .. Len(relations)
    <2>1. /\ out.rows \in Seq(RelationType) /\ out.id \in Nat
          /\ out.full \in BOOLEAN /\ out.dropped \in Nat
      BY <1>10 DEF OutType
    <2>2. dropped \in Nat /\ relations \in Seq([mode : Modes, source : Nat, target : Nat])
      BY <1>1 DEF TypeOK
    <2> QED
      BY <2>1, <2>2, Members
  <1>12. dropped' \in Nat /\ dropped' >= out.dropped
    BY <1>4, <1>11
  <1>13. RelationsAreCounted'
    <2>1. /\ out.id \in {Len(out.rows), Len(out.rows) + 1}
          /\ out.id # Len(out.rows) => out.full
          /\ out.full => out.dropped > 0
      BY <1>10 DEF Counted
    <2>2. out.dropped > 0 => dropped' > 0
      BY <1>11, <1>12
    <2> QED
      BY <1>4, <2>1, <2>2 DEF RelationsAreCounted
  <1>14. /\ \A r \in Expected' : r \in Expected \/ r \in New(i)
         /\ \A r \in Expected : r \in Expected' /\ r.target # i
         /\ \A r \in New(i) : r \in Expected' /\ r.target = i
    BY <1>1, <1>3, RelateGrowsExpected
  <1>15. /\ \A x \in 1 .. Len(relations) : relations[x] \in Expected
         /\ \A x, y \in 1 .. Len(relations) : relations[x] = relations[y] => x = y
         /\ dropped = 0 => \A r \in Expected : \E x \in 1 .. Len(relations) : relations[x] = r
    BY <1>1, <1>11 DEF RowsInv, Rows
  <1>16. ASSUME NEW x \in 1 .. Len(out.rows)
         PROVE  x \in 1 .. Len(relations) \/ x \in (Len(relations) + 1) .. Len(out.rows)
    BY <1>11
  <1>17. \A x \in 1 .. Len(relations) : out.rows[x] \in Expected
    BY <1>10, <1>15
  <1>18. \A x \in (Len(relations) + 1) .. Len(out.rows) : out.rows[x] \in New(i)
    BY <1>7, <1>10
  <1>19. \A x \in 1 .. Len(out.rows) : out.rows[x] \in Expected'
    BY <1>14, <1>16, <1>17, <1>18
  <1>20. ASSUME NEW x \in 1 .. Len(out.rows), NEW y \in 1 .. Len(out.rows),
                out.rows[x] = out.rows[y]
         PROVE  x = y
    <2>1. CASE x \in 1 .. Len(relations) /\ y \in 1 .. Len(relations)
      BY <1>10, <1>15, <1>20, <2>1
    <2>2. CASE /\ x \in (Len(relations) + 1) .. Len(out.rows)
               /\ y \in (Len(relations) + 1) .. Len(out.rows)
      BY <1>10, <1>20, <2>2
    <2>3. CASE x \in 1 .. Len(relations) /\ y \in (Len(relations) + 1) .. Len(out.rows)
      BY <1>14, <1>17, <1>18, <1>20, <2>3
    <2>4. CASE y \in 1 .. Len(relations) /\ x \in (Len(relations) + 1) .. Len(out.rows)
      BY <1>14, <1>17, <1>18, <1>20, <2>4
    <2> QED
      BY <1>16, <2>1, <2>2, <2>3, <2>4
  <1>21. ASSUME dropped' = 0, NEW r \in Expected'
         PROVE  \E x \in 1 .. Len(out.rows) : out.rows[x] = r
    <2>1. out.dropped = 0 /\ dropped = 0
      BY <1>10, <1>11, <1>12, <1>21
    <2>2. ~(Len(InWindow(events[i])) > MaxCandidates)
      BY <1>4, <1>21, <2>1
    <2>3. CASE r \in Expected
      <3>1. PICK x \in 1 .. Len(relations) : relations[x] = r
        BY <1>15, <2>1, <2>3
      <3>2. x \in 1 .. Len(out.rows)
        BY <1>10, <1>11
      <3> QED
        BY <1>10, <3>1, <3>2
    <2>4. CASE r \in New(i)
      <3>1. PICK k \in 1 .. n : r \in found[k]
        BY <1>7, <2>2, <2>4
      <3> QED
        BY <1>10, <2>1, <3>1
    <2> QED
      BY <1>14, <2>3, <2>4
  <1>22. RowsInv'
    <2>1. Rows' = {out.rows[x] : x \in 1 .. Len(out.rows)}
      BY <1>4, <1>11 DEF Rows
    <2>2. Rows' \subseteq Expected'
      BY <1>19, <2>1
    <2>3. dropped' = 0 => Expected' \subseteq Rows'
      BY <1>21, <2>1
    <2>4. \A x, y \in 1 .. Len(relations') : relations'[x] = relations'[y] => x = y
      BY <1>4, <1>20
    <2> QED
      BY <2>2, <2>3, <2>4 DEF RowsInv
  <1> QED
    BY <1>4, <1>11, <1>12, <1>13, <1>22

LEMMA RelateKeeps ==
  ASSUME IInv, Relate
  PROVE  IInv'
  <1>1. IndexInv' /\ WindowInv'
    BY RelateKeepsIndex, RelateKeepsWindow
  <1>2. /\ RowsInv'
        /\ RelationsAreCounted'
        /\ relations' \in Seq([mode : Modes, source : Nat, target : Nat])
        /\ relation_id' \in Nat /\ output_full' \in BOOLEAN /\ dropped' \in Nat
    BY RelateKeepsRows DEF RelationType
  <1>3. FilesInv' /\ FindingsComeLast'
    BY DEF IInv, Relate, FilesInv, FindingsComeLast
  <1>4. TypeOK'
    <2>1. /\ TypeOK
          /\ stage = "relations"
          /\ target < Len(events)
          /\ target' = target + 1
          /\ UNCHANGED <<content, room, stage, analyses, events>>
      BY DEF IInv, Relate, bundle
    <2>2. target' \in 0 .. Len(events)'
      BY <2>1, EventsAreKnown
    <2>3. /\ content' \in Seq(Events)
          /\ InTime(content)'
          /\ room' \in Rooms
          /\ stage' \in Stages
          /\ stage' \notin {"idle", "frames"}
          /\ analyses' \in Nat
          /\ events' \in Seq(Events)
          /\ Len(events)' <= Len(content)'
          /\ \A j \in 1 .. Len(events)' : events'[j] = content'[j]
      BY <2>1 DEF TypeOK, InTime
    <2> QED
      BY <1>2, <2>2, <2>3, Zenon DEF TypeOK
  <1> QED
    BY <1>1, <1>2, <1>3, <1>4 DEF IInv

\* The indexes hold the last event of each key, the window what is recent enough,
\* and the rows every relation there is, unless one was counted as dropped.
THEOREM AnalysisInvariant == AnalysisSpec => []IInv
  <1>1. Init => IInv
    BY AtFirst
  <1>2. ASSUME IInv, [AnalysisNext \/ Over]_vars
        PROVE  IInv'
    <2>1. CASE Open
      BY <1>2, <2>1, OpenKeeps
    <2>2. CASE AddEvent
      BY <1>2, <2>2, AddEventKeeps
    <2>3. CASE EndOfFrames
      BY <1>2, <2>3, EndOfFramesKeeps
    <2>4. CASE Fail
      BY <1>2, <2>4, FailKeeps
    <2>5. CASE Relate
      BY <1>2, <2>5, RelateKeeps
    <2>6. CASE FlushDerived
      BY <1>2, <2>6, FlushDerivedKeeps
    <2>7. CASE WriteSummary
      BY <1>2, <2>7, WriteSummaryKeeps
    <2>8. CASE UNCHANGED vars
      <3>1. UNCHANGED <<events, relating>>
        BY <2>8 DEF vars
      <3>2. IndexInv' /\ WindowInv' /\ RowsInv' /\ RelationsAreCounted'
        BY <1>2, <3>1, SameRelations DEF IInv
      <3>3. TypeOK' /\ FilesInv' /\ FindingsComeLast'
        BY <1>2, <2>8
           DEF IInv, TypeOK, InTime, FilesInv, FindingsComeLast, vars, bundle, relating
      <3> QED
        BY <3>2, <3>3 DEF IInv
    <2> QED
      BY <1>2, <2>1, <2>2, <2>3, <2>4, <2>5, <2>6, <2>7, <2>8 DEF AnalysisNext, Over
  <1> QED
    BY <1>1, <1>2, PTL DEF AnalysisSpec

\* Every row is an observation that the events bear out, each of them is there
\* once, and unless the count of the dropped says otherwise none is missing
\* (ResearchAnalysis.cpp:301, 378, 401), for any events.
THEOREM RelationsAreTrue == AnalysisSpec => []RelationsAreObservations
  <1>1. IInv => RelationsAreObservations
    <2> SUFFICES ASSUME IInv
                 PROVE  RelationsAreObservations
      OBVIOUS
    <2>1. /\ Rows \subseteq Expected
          /\ \A k, n \in 1 .. Len(relations) : relations[k] = relations[n] => k = n
          /\ dropped = 0 => Expected \subseteq Rows
      BY DEF IInv, RowsInv
    <2>2. Len(relations) \in Nat /\ DOMAIN relations = 1 .. Len(relations)
      <3>1. relations \in Seq([mode : Modes, source : Nat, target : Nat])
        BY DEF IInv, TypeOK
      <3> QED
        BY <3>1, Members
    <2>3. Cardinality(Rows) = Len(relations)
      <3> DEFINE place == [k \in 1 .. Len(relations) |-> relations[k]]
      <3>1. place \in Bijection(1 .. Len(relations), Rows)
        BY <2>1, <2>2 DEF Rows, Bijection, Injection, Surjection, IsInjective
      <3>2. ExistsBijection(1 .. Len(relations), Rows)
        BY <3>1 DEF ExistsBijection
      <3> QED
        BY <2>2, <3>2, FS_CountingElements
    <2> QED
      BY <2>1, <2>3 DEF RelationsAreObservations
  <1> QED
    BY <1>1, AnalysisInvariant, PTL

\* What the findings count of the relations, for any bounds (Relations.cpp:16, 20, 35).
THEOREM CountsAreRight == AnalysisSpec => []RelationsAreCounted
  <1>1. IInv => RelationsAreCounted
    BY DEF IInv
  <1> QED
    BY <1>1, AnalysisInvariant, PTL

\* Findings and report are whole only when what they count is
\* (ResearchAnalysis.cpp:419).
THEOREM SummaryIsLast == AnalysisSpec => []FindingsComeLast
  <1>1. IInv => FindingsComeLast
    BY DEF IInv
  <1> QED
    BY <1>1, AnalysisInvariant, PTL

-----------------------------------------------------------------------------
(* PairedReceipts: what is told of finite sets *)

\* Of some subsets of a finite set, one has none of the others one element below it.
LEMMA SmallestOf ==
  ASSUME NEW D, IsFiniteSet(D), NEW Some \in SUBSET (SUBSET D), Some # {}
  PROVE  \E s \in Some : IsFiniteSet(s) /\ \A x \in s : s \ {x} \notin Some
  <1> DEFINE T == {Cardinality(s) : s \in Some}
  <1>0. \A s \in Some : IsFiniteSet(s) /\ Cardinality(s) \in Nat
    BY FS_Subset, FS_CardinalityType
  <1>1. T \in SUBSET Nat /\ T # {}
    BY <1>0
  <1>2. PICK n \in T : \A m \in T : n <= m
    <2> HIDE DEF T
    <2> QED
      BY <1>1, LeastNat
  <1>3. PICK s \in Some : n = Cardinality(s)
    OBVIOUS
  <1>4. ASSUME NEW x \in s, s \ {x} \in Some
        PROVE  FALSE
    <2>1. Cardinality(s \ {x}) = Cardinality(s) - 1
      BY <1>0, FS_RemoveElement
    <2>2. Cardinality(s) <= Cardinality(s \ {x})
      BY <1>2, <1>3, <1>4
    <2>3. Cardinality(s) \in Nat
      BY <1>0
    <2> HIDE DEF T
    <2> QED
      BY <2>1, <2>2, <2>3
  <1> QED
    BY <1>0, <1>4

LEMMA DisjointUnion ==
  ASSUME NEW S, NEW T, IsFiniteSet(S), IsFiniteSet(T), S \cap T = {}
  PROVE  /\ IsFiniteSet(S \cup T)
         /\ Cardinality(S \cup T) = Cardinality(S) + Cardinality(T)
  <1>1. Cardinality(S \cap T) = 0
    BY FS_EmptySet
  <1>2. Cardinality(S) \in Nat /\ Cardinality(T) \in Nat
    BY FS_CardinalityType
  <1>3. /\ IsFiniteSet(S \cup T)
        /\ Cardinality(S \cup T) = Cardinality(S) + Cardinality(T) - Cardinality(S \cap T)
    BY FS_Union
  <1> QED
    BY <1>1, <1>2, <1>3

-----------------------------------------------------------------------------
(* PairedReceipts: sums, and what they count *)

\* A number for each of the copies of one thing.
LEMMA Copies ==
  ASSUME NEW x, NEW n \in Nat
  PROVE  IsFiniteSet({x} \X (1 .. n)) /\ Cardinality({x} \X (1 .. n)) = n
  <1> DEFINE pair == [i \in 1 .. n |-> <<x, i>>]
  <1>1. pair \in Bijection(1 .. n, {x} \X (1 .. n))
    <2>1. pair \in [1 .. n -> {x} \X (1 .. n)]
      OBVIOUS
    <2>2. \A i, j \in 1 .. n : pair[i] = pair[j] => i = j
      OBVIOUS
    <2>3. \A p \in {x} \X (1 .. n) : \E i \in 1 .. n : pair[i] = p
      <3>1. TAKE p \in {x} \X (1 .. n)
      <3>2. p = <<x, p[2]>> /\ p[2] \in 1 .. n
        OBVIOUS
      <3> QED
        BY <3>2
    <2> HIDE DEF pair
    <2> QED
      BY <2>1, <2>2, <2>3 DEF Bijection, Injection, Surjection, IsInjective
  <1>2. ExistsBijection(1 .. n, {x} \X (1 .. n))
    BY <1>1 DEF ExistsBijection
  <1>3. IsFiniteSet(1 .. n) /\ Cardinality(1 .. n) = n
    BY FS_Interval
  <1> QED
    BY <1>2, <1>3, FS_Bijection

\* The recursion of a sum over the values of a function.
IsSum(sum, f, S) ==
  sum = [s \in SUBSET S |->
           IF s = {} THEN 0
           ELSE LET x == CHOOSE y \in s : TRUE IN f[x] + sum[s \ {x}]]

Part(f, s) == UNION {{x} \X (1 .. f[x]) : x \in s}

\* One thing more is counted with its copies.
LEMMA PartGrows ==
  ASSUME NEW S, NEW f \in [S -> Nat], NEW s \in SUBSET S, IsFiniteSet(s), NEW x \in s
  PROVE  /\ IsFiniteSet(Part(f, s)) /\ IsFiniteSet(Part(f, s \ {x}))
         /\ Cardinality(Part(f, s)) = f[x] + Cardinality(Part(f, s \ {x}))
  <1>1. ASSUME NEW t \in SUBSET s
        PROVE  IsFiniteSet(Part(f, t))
    <2> DEFINE copies == [y \in t |-> {y} \X (1 .. f[y])]
               Sets   == {{y} \X (1 .. f[y]) : y \in t}
    <2>1. copies \in Surjection(t, Sets)
      BY DEF Surjection
    <2>2. IsFiniteSet(t)
      BY FS_Subset
    <2>3. IsFiniteSet(Sets)
      <3> HIDE DEF Sets, copies
      <3> QED
        BY <2>1, <2>2, FS_Surjection
    <2>4. ASSUME NEW set \in Sets
          PROVE  IsFiniteSet(set)
      <3>1. PICK y \in t : set = {y} \X (1 .. f[y])
        OBVIOUS
      <3>2. f[y] \in Nat
        OBVIOUS
      <3> QED
        BY <3>1, <3>2, Copies
    <2>5. IsFiniteSet(UNION Sets)
      <3> HIDE DEF Sets
      <3> QED
        BY <2>3, <2>4, FS_UNION
    <2> QED
      BY <2>5 DEF Part
  <1>2. f[x] \in Nat
    OBVIOUS
  <1>3. IsFiniteSet({x} \X (1 .. f[x])) /\ Cardinality({x} \X (1 .. f[x])) = f[x]
    BY <1>2, Copies
  <1>4. Part(f, s) = Part(f, s \ {x}) \cup ({x} \X (1 .. f[x]))
    BY DEF Part
  <1>5. Part(f, s \ {x}) \cap ({x} \X (1 .. f[x])) = {}
    BY DEF Part
  <1>6. IsFiniteSet(Part(f, s)) /\ IsFiniteSet(Part(f, s \ {x}))
    BY <1>1
  <1>7. /\ Cardinality(Part(f, s)) = Cardinality(Part(f, s \ {x})) + f[x]
        /\ Cardinality(Part(f, s \ {x})) \in Nat
    <2>1. Cardinality(Part(f, s \ {x})) \in Nat
      BY <1>6, FS_CardinalityType
    <2>2. Cardinality(Part(f, s \ {x}) \cup ({x} \X (1 .. f[x])))
            = Cardinality(Part(f, s \ {x})) + Cardinality({x} \X (1 .. f[x]))
      BY <1>3, <1>5, <1>6, DisjointUnion
    <2> QED
      BY <1>3, <1>4, <2>1, <2>2
  <1> QED
    BY <1>2, <1>6, <1>7

LEMMA SumThere ==
  ASSUME NEW S, IsFiniteSet(S), NEW f \in [S -> Nat]
  PROVE  \E sum : IsSum(sum, f, S)
  <1> DEFINE sum == [s \in SUBSET S |-> Cardinality(Part(f, s))]
  <1>1. Cardinality(Part(f, {})) = 0
    <2>1. Part(f, {}) = {}
      BY DEF Part
    <2> QED
      BY <2>1, FS_EmptySet
  <1>2. ASSUME NEW s \in SUBSET S, s # {}, NEW x, x = CHOOSE y \in s : TRUE
        PROVE  sum[s] = f[x] + sum[s \ {x}]
    <2>1. x \in s /\ IsFiniteSet(s)
      BY <1>2, FS_Subset
    <2> QED
      BY <2>1, PartGrows
  <1>3. sum = [s \in SUBSET S |->
                 IF s = {} THEN 0
                 ELSE LET x == CHOOSE y \in s : TRUE IN f[x] + sum[s \ {x}]]
    BY <1>1, <1>2
  <1> QED
    BY <1>3 DEF IsSum

LEMMA SumsCount ==
  ASSUME NEW S, IsFiniteSet(S), NEW f \in [S -> Nat], NEW sum, IsSum(sum, f, S)
  PROVE  sum[S] = Cardinality(Part(f, S))
  <1> DEFINE Wrong == {s \in SUBSET S : sum[s] # Cardinality(Part(f, s))}
  <1>1. ASSUME Wrong # {}
        PROVE  FALSE
    <2>1. Wrong \in SUBSET (SUBSET S)
      OBVIOUS
    <2>2. PICK s \in Wrong : IsFiniteSet(s) /\ \A x \in s : s \ {x} \notin Wrong
      <3> HIDE DEF Wrong
      <3> QED
        BY <1>1, <2>1, SmallestOf
    <2>3. s # {}
      <3>1. sum[{}] = 0
        BY DEF IsSum
      <3>2. Part(f, {}) = {}
        BY DEF Part
      <3> QED
        BY <3>1, <3>2, FS_EmptySet
    <2> DEFINE x == CHOOSE y \in s : TRUE
    <2>4. x \in s
      BY <2>3
    <2>5. sum[s] = f[x] + sum[s \ {x}]
      BY <2>3 DEF IsSum
    <2> HIDE DEF x
    <2>6. s \ {x} \notin Wrong
      BY <2>2, <2>4
    <2>7. sum[s \ {x}] = Cardinality(Part(f, s \ {x}))
      BY <2>6
    <2> QED
      BY <2>2, <2>4, <2>5, <2>7, PartGrows
  <1> QED
    BY <1>1

\* The sum of counts is how many things they count.
LEMMA SumIsCount ==
  ASSUME NEW f, IsFiniteSet(DOMAIN f), f \in [DOMAIN f -> Nat]
  PROVE  /\ IsFiniteSet(Numbered(f))
         /\ SumFunction(f) = Cardinality(Numbered(f))
  <1> DEFINE S == DOMAIN f
             iter == CHOOSE sum : IsSum(sum, f, S)
  <1>1. IsSum(iter, f, S)
    BY SumThere
  <1>2. SumFunction(f) = iter[S]
    BY DEF SumFunction, SumFunctionOnSet, FoldFunctionOnSet, MapThenFoldSet, IsSum
  <1>3. Numbered(f) = Part(f, S)
    BY DEF Numbered, Part
  <1>4. iter[S] = Cardinality(Part(f, S))
    <2> HIDE DEF iter
    <2> QED
      BY <1>1, SumsCount
  <1>5. IsFiniteSet(Part(f, S))
    <2>1. CASE S = {}
      BY <2>1, FS_EmptySet DEF Part
    <2>2. CASE S # {}
      BY <2>2, PartGrows
    <2> QED
      BY <2>1, <2>2
  <1> QED
    BY <1>2, <1>3, <1>4, <1>5
-----------------------------------------------------------------------------
(* PairedReceipts: sorting, and the ranks of what is sorted *)

LEMMA Greatest ==
  ASSUME NEW D, IsFiniteSet(D), D # {}, NEW d \in [D -> Int]
  PROVE  \E x \in D : \A y \in D : d[y] <= d[x]
  <1> DEFINE Wrong == {s \in SUBSET D : s # {} /\ ~\E x \in s : \A y \in s : d[y] <= d[x]}
  <1>1. ASSUME Wrong # {}
        PROVE  FALSE
    <2>1. Wrong \in SUBSET (SUBSET D)
      OBVIOUS
    <2>2. PICK s \in Wrong : IsFiniteSet(s) /\ \A x \in s : s \ {x} \notin Wrong
      <3> HIDE DEF Wrong
      <3> QED
        BY <1>1, <2>1, SmallestOf
    <2>3. PICK x \in s : TRUE
      OBVIOUS
    <2>4. s \ {x} \notin Wrong
      BY <2>2
    <2>5. CASE s \ {x} = {}
      <3>1. s = {x}
        BY <2>3, <2>5
      <3>2. d[x] \in Int
        OBVIOUS
      <3>3. \E z \in s : \A y \in s : d[y] <= d[z]
        BY <3>1, <3>2
      <3> QED
        BY <3>3
    <2>6. CASE s \ {x} # {}
      <3>1. PICK z \in s \ {x} : \A y \in s \ {x} : d[y] <= d[z]
        BY <2>4, <2>6
      <3>2. d[x] \in Int /\ d[z] \in Int /\ \A y \in s : d[y] \in Int
        OBVIOUS
      <3>3. CASE d[x] <= d[z]
        <4>1. \A y \in s : d[y] <= d[z]
          BY <3>1, <3>3
        <4> QED
          BY <4>1
      <3>4. CASE ~(d[x] <= d[z])
        <4>1. \A y \in s : d[y] <= d[x]
          BY <3>1, <3>2, <3>4
        <4> QED
          BY <4>1
      <3> QED
        BY <3>3, <3>4
    <2> QED
      BY <2>5, <2>6
  <1> QED
    BY <1>1

IsOrder(order, s, d) ==
  /\ order \in Bijection(1 .. Cardinality(s), s)
  /\ \A i, j \in 1 .. Cardinality(s) : i <= j => d[order[i]] <= d[order[j]]

\* The greatest comes last.
LEMMA OrderGrows ==
  ASSUME NEW s, IsFiniteSet(s), NEW d, \A y \in s : d[y] \in Int,
         NEW x \in s, \A y \in s : d[y] <= d[x],
         NEW order, IsOrder(order, s \ {x}, d)
  PROVE  \E longer : IsOrder(longer, s, d)
  <1> DEFINE n == Cardinality(s)
             longer == [i \in 1 .. n |-> IF i = n THEN x ELSE order[i]]
  <1>1. n \in Nat \ {0} /\ Cardinality(s \ {x}) = n - 1
    BY FS_CardinalityType, FS_EmptySet, FS_RemoveElement
  <1> HIDE DEF n
  <1>2. /\ order \in [1 .. (n - 1) -> s \ {x}]
        /\ \A i, j \in 1 .. (n - 1) : order[i] = order[j] => i = j
        /\ \A y \in s \ {x} : \E i \in 1 .. (n - 1) : order[i] = y
        /\ \A i, j \in 1 .. (n - 1) : i <= j => d[order[i]] <= d[order[j]]
    BY <1>1 DEF IsOrder, Bijection, Injection, Surjection, IsInjective
  <1>3. \A i \in 1 .. n : i = n \/ i \in 1 .. (n - 1)
    BY <1>1
  <1>4. /\ longer[n] = x
        /\ \A i \in 1 .. (n - 1) : longer[i] = order[i] /\ order[i] \in s \ {x}
    BY <1>1, <1>2
  <1>5. longer \in [1 .. n -> s]
    BY <1>2, <1>3
  <1> HIDE DEF longer
  <1>6. \A i, j \in 1 .. n : longer[i] = longer[j] => i = j
    BY <1>2, <1>3, <1>4
  <1>7. \A y \in s : \E i \in 1 .. n : longer[i] = y
    <2>1. TAKE y \in s
    <2>2. CASE y = x
      BY <1>1, <1>4, <2>2
    <2>3. CASE y # x
      <3>1. PICK i \in 1 .. (n - 1) : order[i] = y
        BY <1>2, <2>3
      <3> QED
        BY <1>1, <1>4, <3>1
    <2> QED
      BY <2>2, <2>3
  <1>8. \A i, j \in 1 .. n : i <= j => d[longer[i]] <= d[longer[j]]
    <2>1. SUFFICES ASSUME NEW i \in 1 .. n, NEW j \in 1 .. n, i <= j
                   PROVE  d[longer[i]] <= d[longer[j]]
      OBVIOUS
    <2>2. CASE j = n
      BY <1>3, <1>4, <1>5, <2>2
    <2>3. CASE j # n
      <3>1. i \in 1 .. (n - 1) /\ j \in 1 .. (n - 1)
        BY <1>1, <2>1, <2>3
      <3> QED
        BY <1>2, <1>4, <2>1, <3>1
    <2> QED
      BY <2>2, <2>3
  <1>9. longer \in Bijection(1 .. n, s)
    BY <1>5, <1>6, <1>7 DEF Bijection, Injection, Surjection, IsInjective
  <1> QED
    BY <1>8, <1>9 DEF IsOrder, n

LEMMA OrderThere ==
  ASSUME NEW D, IsFiniteSet(D), NEW d \in [D -> Int]
  PROVE  \E order : IsOrder(order, D, d)
  <1> DEFINE Wrong == {s \in SUBSET D : ~\E order : IsOrder(order, s, d)}
  <1>1. ASSUME Wrong # {}
        PROVE  FALSE
    <2>1. Wrong \in SUBSET (SUBSET D)
      OBVIOUS
    <2>2. PICK s \in Wrong : IsFiniteSet(s) /\ \A x \in s : s \ {x} \notin Wrong
      <3> HIDE DEF Wrong
      <3> QED
        BY <1>1, <2>1, SmallestOf
    <2>3. s # {}
      <3>1. SUFFICES ASSUME s = {} PROVE FALSE
        OBVIOUS
      <3> DEFINE none == [i \in {} |-> 0]
      <3>2. 1 .. Cardinality(s) = {}
        BY <3>1, FS_EmptySet
      <3>3. none \in Bijection({}, {})
        BY DEF Bijection, Injection, Surjection, IsInjective
      <3>4. IsOrder(none, s, d)
        BY <3>1, <3>2, <3>3 DEF IsOrder
      <3> QED
        BY <3>4
    <2>4. PICK x \in s : \A y \in s : d[y] <= d[x]
      <3> DEFINE g == [y \in s |-> d[y]]
      <3>1. g \in [s -> Int]
        OBVIOUS
      <3>2. PICK x \in s : \A y \in s : g[y] <= g[x]
        <4> HIDE DEF g
        <4> QED
          BY <2>2, <2>3, <3>1, Greatest
      <3> QED
        BY <3>2
    <2>5. s \ {x} \notin Wrong
      BY <2>2
    <2>6. PICK order : IsOrder(order, s \ {x}, d)
      BY <2>5
    <2>7. \A y \in s : d[y] \in Int
      OBVIOUS
    <2>8. \E longer : IsOrder(longer, s, d)
      BY <2>2, <2>4, <2>6, <2>7, OrderGrows
    <2> QED
      BY <2>8
  <1> QED
    BY <1>1

\* Sorting leaves every sample in its place among the others.
LEMMA SortedRanks ==
  ASSUME NEW d, IsFiniteSet(DOMAIN d), d \in [DOMAIN d -> Int]
  PROVE  \E order : /\ IsOrder(order, DOMAIN d, d)
                    /\ Len(Sorted(d)) = Cardinality(DOMAIN d)
                    /\ \A i \in 1 .. Cardinality(DOMAIN d) : Sorted(d)[i] = d[order[i]]
  <1> DEFINE n == Cardinality(DOMAIN d)
             order == CHOOSE o \in Orders(d) : TRUE
  <1>1. n \in Nat
    BY FS_CardinalityType
  <1>2. PICK o : IsOrder(o, DOMAIN d, d)
    BY OrderThere
  <1>3. o \in Orders(d)
    BY <1>2 DEF IsOrder, Orders, Bijection, Injection
  <1>4. order \in Orders(d)
    BY <1>3
  <1>5. Sorted(d) = [i \in 1 .. n |-> d[order[i]]]
    BY DEF Sorted
  <1> HIDE DEF order, n
  <1>6. IsOrder(order, DOMAIN d, d)
    BY <1>4 DEF IsOrder, Orders, Bijection, Injection, n
  <1>7. Len(Sorted(d)) = n
    <2>1. order \in [1 .. n -> DOMAIN d]
      BY <1>6 DEF IsOrder, Bijection, Injection, n
    <2>2. Sorted(d) \in [1 .. n -> Int]
      BY <1>5, <2>1
    <2> QED
      BY <1>1, <1>5, <2>2
  <1> QED
    BY <1>5, <1>6, <1>7 DEF n

FirstIn(order, k) == {order[i] : i \in 1 .. k}

\* As many identities as places come first in an order.
LEMMA FirstOfOrder ==
  ASSUME NEW D, IsFiniteSet(D), NEW d, NEW order, IsOrder(order, D, d),
         NEW k \in 0 .. Cardinality(D)
  PROVE  IsFiniteSet(FirstIn(order, k)) /\ Cardinality(FirstIn(order, k)) = k
  <1> DEFINE First == FirstIn(order, k)
             f == [i \in 1 .. k |-> order[i]]
             n == Cardinality(D)
  <1>1. n \in Nat
    BY FS_CardinalityType
  <1>2. /\ order \in [1 .. n -> D]
        /\ \A i, j \in 1 .. n : order[i] = order[j] => i = j
    BY DEF IsOrder, Bijection, Injection, IsInjective
  <1> HIDE DEF n
  <1>3. \A i \in 1 .. k : i \in 1 .. n
    BY <1>1 DEF n
  <1>4. f \in Bijection(1 .. k, First)
    BY <1>2, <1>3 DEF Bijection, Injection, Surjection, IsInjective, FirstIn
  <1>5. IsFiniteSet(1 .. k) /\ Cardinality(1 .. k) = k
    BY <1>1, FS_Interval DEF n
  <1>6. ExistsBijection(1 .. k, First)
    BY <1>4 DEF ExistsBijection
  <1>7. IsFiniteSet(First) /\ Cardinality(First) = k
    <2> HIDE DEF First
    <2> QED
      BY <1>5, <1>6, FS_Bijection
  <1> QED
    BY <1>7

\* The nearest rank of a percentage is a place, with less than that percentage
\* of the places before it and at least as much up to it.
LEMMA NearestRank ==
  ASSUME NEW n \in Nat \ {0}, NEW p \in {50, 95, 99}
  PROVE  LET rank == (n * p + 99) \div 100
         IN rank \in 1 .. n /\ 100 * (rank - 1) < p * n /\ p * n <= 100 * rank
  <1> DEFINE m == n * p
             rank == (m + 99) \div 100
  <1>1. m \in Nat /\ m >= 1 /\ m <= 100 * n /\ p * n = m
    <2>1. CASE p = 50
      BY <2>1
    <2>2. CASE p = 95
      BY <2>2
    <2>3. CASE p = 99
      BY <2>3
    <2> QED
      BY <2>1, <2>2, <2>3
  <1> HIDE DEF m
  <1>2. rank \in Int /\ 100 * rank <= m + 99 /\ m + 99 < 100 * rank + 100
    BY <1>1
  <1> HIDE DEF rank
  <1>3. rank \in 1 .. n /\ 100 * (rank - 1) < m /\ m <= 100 * rank
    BY <1>1, <1>2
  <1> QED
    BY <1>1, <1>3 DEF rank, m

\* A percentile is a sample, with less than its share of the samples below it
\* and at least its share not above it.
LEMMA PercentileIsRank ==
  ASSUME NEW d, IsFiniteSet(DOMAIN d), d \in [DOMAIN d -> Int], DOMAIN d # {},
         NEW p \in {50, 95, 99}
  PROVE  LET q      == Percentile(Sorted(d), p)
             Below  == {k \in DOMAIN d : d[k] < q}
             Within == {k \in DOMAIN d : d[k] <= q}
         IN /\ \E k \in DOMAIN d : d[k] = q
            /\ 100 * Cardinality(Below) < p * Cardinality(DOMAIN d)
            /\ 100 * Cardinality(Within) >= p * Cardinality(DOMAIN d)
  <1> DEFINE D      == DOMAIN d
             n      == Cardinality(D)
             rank   == (n * p + 99) \div 100
             q      == Percentile(Sorted(d), p)
             Below  == {k \in D : d[k] < q}
             Within == {k \in D : d[k] <= q}
  <1>1. n \in Nat \ {0}
    BY FS_CardinalityType, FS_EmptySet
  <1>2. PICK order : /\ IsOrder(order, D, d)
                     /\ Len(Sorted(d)) = n
                     /\ \A i \in 1 .. n : Sorted(d)[i] = d[order[i]]
    BY SortedRanks
  <1>3. q = Sorted(d)[rank]
    BY <1>2 DEF Percentile
  <1>4. rank \in 1 .. n /\ 100 * (rank - 1) < p * n /\ p * n <= 100 * rank
    BY <1>1, NearestRank
  <1> HIDE DEF q, rank, n
  <1>5. q = d[order[rank]]
    BY <1>2, <1>3, <1>4
  <1>6. /\ order \in [1 .. n -> D]
        /\ \A k \in D : \E i \in 1 .. n : order[i] = k
        /\ \A i, j \in 1 .. n : i <= j => d[order[i]] <= d[order[j]]
    BY <1>2 DEF IsOrder, Bijection, Injection, Surjection, n
  <1>7. \A k \in D : d[k] \in Int
    OBVIOUS
  <1>8. /\ IsFiniteSet(FirstIn(order, rank - 1)) /\ Cardinality(FirstIn(order, rank - 1)) = rank - 1
        /\ IsFiniteSet(FirstIn(order, rank)) /\ Cardinality(FirstIn(order, rank)) = rank
    <2>1. rank - 1 \in 0 .. n /\ rank \in 0 .. n
      BY <1>1, <1>4
    <2> QED
      BY <1>2, <2>1, FirstOfOrder DEF n
  <1>9. Below \subseteq FirstIn(order, rank - 1)
    <2>1. SUFFICES ASSUME NEW k \in D, d[k] < q
                   PROVE  k \in FirstIn(order, rank - 1)
      OBVIOUS
    <2>2. PICK i \in 1 .. n : order[i] = k
      BY <1>6
    <2>3. ~(rank <= i)
      BY <1>4, <1>5, <1>6, <1>7, <2>1, <2>2
    <2>4. i \in 1 .. (rank - 1)
      BY <1>1, <1>4, <2>3
    <2> QED
      BY <2>2, <2>4 DEF FirstIn
  <1>10. FirstIn(order, rank) \subseteq Within
    <2>1. SUFFICES ASSUME NEW i \in 1 .. rank
                   PROVE  order[i] \in D /\ d[order[i]] <= q
      BY DEF FirstIn
    <2>2. i \in 1 .. n /\ i <= rank
      BY <1>1, <1>4
    <2> QED
      BY <1>4, <1>5, <1>6, <2>2
  <1>11. Cardinality(Below) \in Nat /\ Cardinality(Below) <= rank - 1
    <2> HIDE DEF Below
    <2> QED
      BY <1>8, <1>9, FS_Subset, FS_CardinalityType
  <1>12. Cardinality(Within) \in Nat /\ rank <= Cardinality(Within)
    <2>1. IsFiniteSet(Within)
      BY FS_Subset
    <2> HIDE DEF Within
    <2> QED
      BY <1>8, <1>10, <2>1, FS_Subset, FS_CardinalityType
  <1>13. \E k \in D : d[k] = q
    BY <1>4, <1>5, <1>6
  <1>14. /\ 100 * Cardinality(Below) < p * n
         /\ 100 * Cardinality(Within) >= p * n
    <2> DEFINE m == p * n
    <2>1. m \in Int
      BY <1>1
    <2> HIDE DEF m, Below, Within
    <2>2. 100 * Cardinality(Below) < m /\ 100 * Cardinality(Within) >= m
      <3>1. 100 * (rank - 1) < m /\ m <= 100 * rank /\ rank \in Int
        BY <1>1, <1>4 DEF m
      <3> QED
        BY <1>11, <1>12, <2>1, <3>1
    <2> QED
      BY <2>2 DEF m
  <1> QED
    BY <1>13, <1>14 DEF q, n

LEMMA PercentilesInOrder ==
  ASSUME NEW d, IsFiniteSet(DOMAIN d), d \in [DOMAIN d -> Int], DOMAIN d # {}
  PROVE  Percentile(Sorted(d), 50) <= Percentile(Sorted(d), 95)
  <1> DEFINE n == Cardinality(DOMAIN d)
             Rank(p) == (n * p + 99) \div 100
  <1>1. n \in Nat \ {0}
    BY FS_CardinalityType, FS_EmptySet
  <1>2. PICK order : /\ IsOrder(order, DOMAIN d, d)
                     /\ Len(Sorted(d)) = n
                     /\ \A i \in 1 .. n : Sorted(d)[i] = d[order[i]]
    BY SortedRanks
  <1>3. Rank(50) \in 1 .. n /\ Rank(95) \in 1 .. n /\ Rank(50) <= Rank(95)
    <2>1. Rank(50) \in 1 .. n /\ Rank(95) \in 1 .. n
      BY <1>1, NearestRank
    <2> HIDE DEF n
    <2> QED
      BY <1>1, <2>1
  <1>4. /\ Percentile(Sorted(d), 50) = d[order[Rank(50)]]
        /\ Percentile(Sorted(d), 95) = d[order[Rank(95)]]
    <2>1. \A p \in {50, 95} : Percentile(Sorted(d), p) = Sorted(d)[Rank(p)]
      BY <1>2 DEF Percentile
    <2>2. /\ Sorted(d)[Rank(50)] = d[order[Rank(50)]]
          /\ Sorted(d)[Rank(95)] = d[order[Rank(95)]]
      <3> HIDE DEF n, Rank
      <3> QED
        BY <1>2, <1>3
    <2> HIDE DEF n, Rank
    <2> QED
      BY <2>1, <2>2
  <1> QED
    BY <1>2, <1>3, <1>4 DEF IsOrder

-----------------------------------------------------------------------------
(* PairedReceipts: one record more *)

LEMMA OneMoreCopy ==
  ASSUME NEW f, f \in [DOMAIN f -> Nat], NEW x,
         NEW g, g \in [DOMAIN f \cup {x} -> Nat],
         g[x] = (IF x \in DOMAIN f THEN f[x] ELSE 0) + 1,
         \A y \in DOMAIN f \ {x} : g[y] = f[y]
  PROVE  /\ <<x, g[x]>> \notin Numbered(f)
         /\ Numbered(g) = Numbered(f) \cup {<<x, g[x]>>}
  <1> DEFINE last == <<x, g[x]>>
  <1>1. g[x] \in Nat \ {0} /\ (x \in DOMAIN f => f[x] \in Nat)
    OBVIOUS
  <1>2. last \notin Numbered(f)
    BY <1>1 DEF Numbered
  <1>3. ASSUME NEW n \in Numbered(g)
        PROVE  n \in Numbered(f) \cup {last}
    <2>1. PICK y \in DOMAIN g : n \in {y} \X (1 .. g[y])
      BY DEF Numbered
    <2>2. CASE y # x
      BY <2>1, <2>2 DEF Numbered
    <2>3. CASE y = x
      <3>1. n = <<x, n[2]>> /\ n[2] \in 1 .. g[x]
        BY <2>1, <2>3
      <3>2. CASE n[2] = g[x]
        BY <3>1, <3>2
      <3>3. CASE n[2] # g[x]
        <4>1. x \in DOMAIN f /\ n[2] \in 1 .. f[x]
          BY <1>1, <3>1, <3>3
        <4> QED
          BY <3>1, <4>1 DEF Numbered
      <3> QED
        BY <3>2, <3>3
    <2> QED
      BY <2>2, <2>3
  <1>4. ASSUME NEW n \in Numbered(f)
        PROVE  n \in Numbered(g)
    <2>1. PICK y \in DOMAIN f : n \in {y} \X (1 .. f[y])
      BY DEF Numbered
    <2>2. n = <<y, n[2]>> /\ n[2] \in 1 .. f[y] /\ f[y] \in Nat /\ g[y] \in Nat
      BY <2>1
    <2>3. n[2] \in 1 .. g[y] /\ y \in DOMAIN g
      BY <2>2
    <2> QED
      BY <2>2, <2>3 DEF Numbered
  <1>5. last \in Numbered(g)
    BY <1>1 DEF Numbered
  <1> QED
    BY <1>2, <1>3, <1>4, <1>5

LEMMA NoMoreCopies ==
  ASSUME NEW f, NEW g, DOMAIN f \subseteq DOMAIN g,
         \A y \in DOMAIN f : g[y] = f[y],
         \A y \in DOMAIN g \ DOMAIN f : g[y] = 0
  PROVE  Numbered(g) = Numbered(f)
  <1>1. \A y \in DOMAIN g \ DOMAIN f : 1 .. g[y] = {}
    OBVIOUS
  <1> QED
    BY <1>1 DEF Numbered

LEMMA RecordAdded ==
  ASSUME ReceiptsTypeOK, NEW x \in Record, InBundle(x)
  PROVE  /\ DOMAIN records' \subseteq Record /\ records' \in [DOMAIN records' -> Nat \ {0}]
         /\ IsFiniteSet(Numbered(records'))
         /\ \E n : /\ n \notin Numbered(records) /\ n[1] = x
                   /\ Numbered(records') = Numbered(records) \cup {n}
  <1>2. /\ records' = [y \in DOMAIN records \cup {x} |->
                         (IF y \in DOMAIN records THEN records[y] ELSE 0) + (IF y = x THEN 1 ELSE 0)]
        /\ records \in [DOMAIN records -> Nat \ {0}]
    <2>1. /\ records' = records (+) SetToBag({x})
          /\ records \in [DOMAIN records -> Nat \ {0}]
      BY DEF InBundle, ReceiptsTypeOK
    <2> QED
      BY <2>1 DEF (+), SetToBag
  <1>3. records' \in [DOMAIN records \cup {x} -> Nat \ {0}]
    BY <1>2
  <1>4. /\ <<x, records'[x]>> \notin Numbered(records)
        /\ Numbered(records') = Numbered(records) \cup {<<x, records'[x]>>}
    <2>1. records \in [DOMAIN records -> Nat] /\ records' \in [DOMAIN records \cup {x} -> Nat]
      BY <1>2, <1>3
    <2>2. records'[x] = (IF x \in DOMAIN records THEN records[x] ELSE 0) + 1
      BY <1>2
    <2>3. \A y \in DOMAIN records \ {x} : records'[y] = records[y]
      BY <1>2
    <2> QED
      BY <2>1, <2>2, <2>3, OneMoreCopy
  <1>5. IsFiniteSet(Numbered(records'))
    BY <1>4, FS_AddElement DEF ReceiptsTypeOK
  <1>6. DOMAIN records' \subseteq Record /\ records' \in [DOMAIN records' -> Nat \ {0}]
    BY <1>3 DEF ReceiptsTypeOK
  <1> QED
    BY <1>4, <1>5, <1>6

LEMMA RecordInHand ==
  ASSUME ReceiptsTypeOK, pc = "trades"
  PROVE  /\ \A id \in NativeIdentity :
              /\ RecordOf(id) \in Record
              /\ RecordOf(id).endpoint = frame.endpoint /\ RecordOf(id).id = id
              /\ RecordOf(id).round = frame.round /\ RecordOf(id).receipt = frame.receipt
         /\ \A id \in Nameless :
              /\ RecordOf(id) \in Record
              /\ RecordOf(id) = [endpoint |-> frame.endpoint, id |-> id]
         /\ frame.endpoint \in Endpoint
  BY PairedReceiptsAssumption DEF ReceiptsTypeOK, Frame, Record, RecordOf

\* The records without a native id, by what they are.
LEMMA NamelessAreFinite ==
  ASSUME ReceiptsTypeOK
  PROVE  /\ IsFiniteSet(InTradeArrays) /\ IsFiniteSet(Invalid)
         /\ \A e \in Endpoint : IsFiniteSet(Anonymous(e))
  <1>1. /\ InTradeArrays \subseteq Numbered(records) /\ Invalid \subseteq Numbered(records)
        /\ \A e \in Endpoint : Anonymous(e) \subseteq Numbered(records)
    BY DEF InTradeArrays, Invalid, Anonymous
  <1> QED
    BY <1>1, FS_Subset DEF ReceiptsTypeOK

\* A record without an id is no record of any identity.
LEMMA NoIdKeepsCounts ==
  ASSUME ReceiptsTypeOK, CountsInv, RepeatsInv, UNCHANGED identities,
         NEW endpoint \in Endpoint, NEW id \in Nameless,
         InBundle([endpoint |-> endpoint, id |-> id]),
         candidate_records' = candidate_records + (IF id = "unread" THEN 0 ELSE 1),
         invalid_payload_records' = invalid_payload_records + (IF id = "no_id" THEN 0 ELSE 1),
         \A e \in Endpoint :
           missing_native_id'[e]
             = missing_native_id[e] + (IF id = "no_id" /\ e = endpoint THEN 1 ELSE 0)
  PROVE  CountsInv' /\ RepeatsInv'
  <1>1. PICK n : /\ n \notin Numbered(records) /\ n[1] = [endpoint |-> endpoint, id |-> id]
                 /\ Numbered(records') = Numbered(records) \cup {n}
    <2>1. [endpoint |-> endpoint, id |-> id] \in Record
      BY DEF Record
    <2> QED
      BY <2>1, RecordAdded
  <1>2. n[1].id = id /\ n[1].endpoint = endpoint /\ id \notin NativeIdentity
    BY <1>1, PairedReceiptsAssumption
  <1>3. \A e \in Endpoint, k \in PairedKey : RecordsOf(e, k[1], k[2])' = RecordsOf(e, k[1], k[2])
    BY <1>1, <1>2 DEF RecordsOf, PairedKey
  <1>4. \A e \in Endpoint : Identified(e)' = Identified(e)
    BY <1>1, <1>2 DEF Identified
  <1>5. \A e \in Endpoint : Seen(e)' = Seen(e) /\ Numbered(Extra(e)') = Numbered(Extra(e))
    BY DEF Seen, Extra
  <1>6. candidate_records' = Cardinality(InTradeArrays')
    <2>1. CASE id = "unread"
      <3>1. InTradeArrays' = InTradeArrays
        BY <1>1, <1>2, <2>1 DEF InTradeArrays
      <3> QED
        BY <2>1, <3>1 DEF CountsInv, ReceiptsTypeOK
    <2>2. CASE id # "unread"
      <3>1. InTradeArrays' = InTradeArrays \cup {n} /\ n \notin InTradeArrays
        BY <1>1, <1>2, <2>2 DEF InTradeArrays
      <3> QED
        BY <2>2, <3>1, NamelessAreFinite, FS_AddElement DEF CountsInv
    <2> QED
      BY <2>1, <2>2
  <1>7. invalid_payload_records' = Cardinality(Invalid')
    <2>1. CASE id = "no_id"
      <3>1. Invalid' = Invalid
        BY <1>1, <1>2, <2>1 DEF Invalid
      <3> QED
        BY <2>1, <3>1 DEF CountsInv, ReceiptsTypeOK
    <2>2. CASE id # "no_id"
      <3>1. Invalid' = Invalid \cup {n} /\ n \notin Invalid
        BY <1>1, <1>2, <2>2 DEF Invalid, Nameless
      <3> QED
        BY <2>2, <3>1, NamelessAreFinite, FS_AddElement DEF CountsInv
    <2> QED
      BY <2>1, <2>2
  <1>8. ASSUME NEW e \in Endpoint
        PROVE  missing_native_id'[e] = Cardinality(Anonymous(e)')
    <2>1. CASE id = "no_id" /\ e = endpoint
      <3>1. Anonymous(e)' = Anonymous(e) \cup {n} /\ n \notin Anonymous(e)
        BY <1>1, <1>2, <2>1 DEF Anonymous
      <3>2. Cardinality(Anonymous(e) \cup {n}) = Cardinality(Anonymous(e)) + 1
        BY <3>1, NamelessAreFinite, FS_AddElement
      <3>3. missing_native_id'[e] = missing_native_id[e] + 1
        BY <2>1
      <3>4. missing_native_id[e] = Cardinality(Anonymous(e))
        BY DEF CountsInv
      <3> QED
        BY <3>1, <3>2, <3>3, <3>4
    <2>2. CASE ~(id = "no_id" /\ e = endpoint)
      <3>1. Anonymous(e)' = Anonymous(e)
        BY <1>1, <1>2, <2>2 DEF Anonymous
      <3>2. missing_native_id'[e] = missing_native_id[e] + 0 /\ missing_native_id[e] \in Nat
        BY <2>2 DEF ReceiptsTypeOK
      <3> QED
        BY <3>1, <3>2 DEF CountsInv
    <2> QED
      BY <2>1, <2>2
  <1>9. \A e \in Endpoint, k \in PairedKey : NumberOf(e, k)' = CountOf(e, k)'
    BY <1>3 DEF CountsInv, NumberOf, CountOf
  <1>10. \A e \in Endpoint : \A k \in Seen(e)' :
           \E m \in RecordsOf(e, k[1], k[2])' : m[1].receipt = identities'[k].receipt[e]
    BY <1>3, <1>5 DEF CountsInv, Seen, ReceiptsTypeOK
  <1>11. CountsInv'
    BY <1>6, <1>7, <1>8, <1>9, <1>10 DEF CountsInv
  <1>12. RepeatsInv'
    BY <1>4, <1>5 DEF RepeatsInv
  <1> QED
    BY <1>11, <1>12

LEMMA NotedFields ==
  ASSUME NEW identity \in Identity, NEW endpoint \in Endpoint, NEW receipt \in Receipt
  PROVE  LET noted == Noted(identity, endpoint, receipt)
         IN /\ noted \in Identity
            /\ \A e \in Endpoint :
                 /\ noted.count[e] = identity.count[e] + (IF e = endpoint THEN 1 ELSE 0)
                 /\ noted.receipt[e] = IF e = endpoint /\ identity.count[e] = 0
                                         THEN receipt ELSE identity.receipt[e]
  <1> DEFINE noted == Noted(identity, endpoint, receipt)
             count == [identity.count EXCEPT ![endpoint] = @ + 1]
             receipts == [identity.receipt EXCEPT ![endpoint] =
                            IF identity.count[endpoint] = 0 THEN receipt ELSE @]
  <1>1. /\ identity = [receipt |-> identity.receipt, count |-> identity.count]
        /\ identity.receipt \in [Endpoint -> Receipt \cup {NoReceipt}]
        /\ identity.count \in [Endpoint -> Nat]
    BY DEF Identity
  <1>2. noted.count = count /\ noted.receipt = receipts
    BY <1>1 DEF Noted
  <1>3. noted = [receipt |-> receipts, count |-> count]
    BY <1>1 DEF Noted
  <1>4. count \in [Endpoint -> Nat] /\ receipts \in [Endpoint -> Receipt \cup {NoReceipt}]
    BY <1>1
  <1>5. noted \in Identity
    BY <1>3, <1>4 DEF Identity
  <1>6. \A e \in Endpoint :
          /\ count[e] = identity.count[e] + (IF e = endpoint THEN 1 ELSE 0)
          /\ receipts[e] = IF e = endpoint /\ identity.count[e] = 0
                             THEN receipt ELSE identity.receipt[e]
    BY <1>1
  <1> QED
    BY <1>2, <1>5, <1>6

\* What a trade leaves in its identity.
LEMMA TradeNotes ==
  ASSUME ReceiptsTypeOK, NEW id \in NativeIdentity, Trade(id),
         NEW key, key = <<frame.round, id>>
  PROVE  /\ key \in PairedKey
         /\ DOMAIN identities' = DOMAIN identities \cup {key}
         /\ identities' \in [DOMAIN identities' -> Identity]
         /\ \A k \in DOMAIN identities \ {key} : identities'[k] = identities[k]
         /\ \A e \in Endpoint :
              identities'[key].count[e] = CountOf(e, key) + (IF e = frame.endpoint THEN 1 ELSE 0)
         /\ \A e \in Endpoint :
              key \in Seen(e) => identities'[key].receipt[e] = identities[key].receipt[e]
         /\ key \notin Seen(frame.endpoint) =>
              identities'[key].receipt[frame.endpoint] = frame.receipt
  <1> DEFINE old == IF key \in DOMAIN identities THEN identities[key] ELSE NoIdentity
             new == Noted(old, frame.endpoint, frame.receipt)
  <1>1. /\ frame \in Frame
        /\ DOMAIN identities \subseteq PairedKey
        /\ identities \in [DOMAIN identities -> Identity]
    BY DEF ReceiptsTypeOK, Trade
  <1>2. key \in PairedKey
    BY <1>1 DEF PairedKey, Frame
  <1>3. identities' = [k \in DOMAIN identities \cup {key} |-> IF k = key THEN new ELSE identities[k]]
    BY DEF Trade
  <1>4. NoIdentity \in Identity /\ \A e \in Endpoint : NoIdentity.count[e] = 0
    BY DEF NoIdentity, Identity, NoReceipt
  <1>5. old \in Identity /\ \A e \in Endpoint : old.count[e] = CountOf(e, key)
    BY <1>1, <1>4 DEF CountOf
  <1>6. /\ new \in Identity
        /\ \A e \in Endpoint :
             /\ new.count[e] = old.count[e] + (IF e = frame.endpoint THEN 1 ELSE 0)
             /\ new.receipt[e] = IF e = frame.endpoint /\ old.count[e] = 0
                                   THEN frame.receipt ELSE old.receipt[e]
    <2>1. frame.endpoint \in Endpoint /\ frame.receipt \in Receipt
      BY <1>1 DEF Frame
    <2> HIDE DEF old
    <2> QED
      BY <1>5, <2>1, NotedFields
  <1>7. \A e \in Endpoint : key \in Seen(e) <=> old.count[e] > 0
    BY <1>4 DEF Seen
  <1>8. \A e \in Endpoint : key \in Seen(e) => old.receipt[e] = identities[key].receipt[e]
    BY DEF Seen
  <1>9. \A e \in Endpoint : old.count[e] \in Nat
    BY <1>5 DEF Identity
  <1> HIDE DEF old, new
  <1>10. identities'[key] = new
    BY <1>3
  <1>11. /\ DOMAIN identities' = DOMAIN identities \cup {key}
         /\ identities' \in [DOMAIN identities' -> Identity]
         /\ \A k \in DOMAIN identities \ {key} : identities'[k] = identities[k]
    BY <1>1, <1>3, <1>6
  <1>12. frame.endpoint \in Endpoint
    BY <1>1 DEF Frame
  <1> QED
    BY <1>2, <1>5, <1>6, <1>7, <1>8, <1>9, <1>10, <1>11, <1>12

LEMMA CountsAreNumbers ==
  ASSUME ReceiptsTypeOK
  PROVE  /\ \A e \in Endpoint, k \in PairedKey : CountOf(e, k) \in Nat
         /\ \A e \in Endpoint, k \in PairedKey : k \in Seen(e) <=> CountOf(e, k) > 0
         /\ \A e \in Endpoint : Seen(e) \subseteq PairedKey /\ IsFiniteSet(Seen(e))
         /\ \A e \in Endpoint :
              Extra(e) = [k \in DOMAIN identities |->
                            IF CountOf(e, k) > 0 THEN CountOf(e, k) - 1 ELSE 0]
         /\ \A e \in Endpoint : IsFiniteSet(Numbered(Extra(e)))
  <1>1. /\ DOMAIN identities \subseteq PairedKey /\ IsFiniteSet(DOMAIN identities)
        /\ \A k \in DOMAIN identities, e \in Endpoint : identities[k].count[e] \in Nat
    BY DEF ReceiptsTypeOK, Identity
  <1>2. \A e \in Endpoint, k \in PairedKey : CountOf(e, k) \in Nat
    BY <1>1 DEF CountOf
  <1>3. \A e \in Endpoint, k \in PairedKey : k \in Seen(e) <=> CountOf(e, k) > 0
    BY <1>1 DEF CountOf, Seen
  <1>4. ASSUME NEW e \in Endpoint
        PROVE  Seen(e) \subseteq PairedKey /\ IsFiniteSet(Seen(e))
    <2>1. Seen(e) \subseteq DOMAIN identities
      BY DEF Seen
    <2> QED
      BY <1>1, <2>1, FS_Subset
  <1>5. \A e \in Endpoint :
          Extra(e) = [k \in DOMAIN identities |->
                        IF CountOf(e, k) > 0 THEN CountOf(e, k) - 1 ELSE 0]
    BY DEF Extra, CountOf
  <1>6. ASSUME NEW e \in Endpoint
        PROVE  IsFiniteSet(Numbered(Extra(e)))
    <2>1. DOMAIN Extra(e) = DOMAIN identities
      BY DEF Extra
    <2>2. Extra(e) \in [DOMAIN Extra(e) -> Nat]
      BY <1>1 DEF Extra
    <2> QED
      BY <1>1, <2>1, <2>2, SumIsCount
  <1> QED
    BY <1>2, <1>3, <1>4, <1>5, <1>6

\* A trade is one record more of its identity, and of no other.
LEMMA TradeCounts ==
  ASSUME ReceiptsTypeOK, CountsInv, NEW id \in NativeIdentity, Trade(id),
         NEW key, key = <<frame.round, id>>,
         NEW n, n \notin Numbered(records), n[1] = RecordOf(id),
         Numbered(records') = Numbered(records) \cup {n}
  PROVE  CountsInv'
  <1>0. frame.endpoint \in Endpoint
    BY DEF ReceiptsTypeOK, Trade, Frame
  <1>R. /\ n[1].endpoint = frame.endpoint /\ n[1].id = id
        /\ n[1].round = frame.round /\ n[1].receipt = frame.receipt
        /\ id \notin Nameless
    BY RecordInHand, PairedReceiptsAssumption DEF Trade
  <1>1. /\ candidate_records' = Cardinality(InTradeArrays')
        /\ invalid_payload_records' = Cardinality(Invalid')
        /\ \A e \in Endpoint : missing_native_id'[e] = Cardinality(Anonymous(e)')
    <2>1. InTradeArrays' = InTradeArrays \cup {n} /\ n \notin InTradeArrays
      BY <1>R DEF InTradeArrays, Nameless
    <2>2. Invalid' = Invalid /\ \A e \in Endpoint : Anonymous(e)' = Anonymous(e)
      BY <1>R DEF Invalid, Anonymous, Nameless
    <2> QED
      BY <2>1, <2>2, NamelessAreFinite, FS_AddElement DEF CountsInv, Trade
  <1>N. /\ DOMAIN identities' = DOMAIN identities \cup {key}
        /\ \A k \in DOMAIN identities \ {key} : identities'[k] = identities[k]
        /\ \A e \in Endpoint :
             identities'[key].count[e] = CountOf(e, key) + (IF e = frame.endpoint THEN 1 ELSE 0)
        /\ \A e \in Endpoint :
             key \in Seen(e) => identities'[key].receipt[e] = identities[key].receipt[e]
        /\ key \notin Seen(frame.endpoint) =>
             identities'[key].receipt[frame.endpoint] = frame.receipt
        /\ key \in PairedKey
    BY TradeNotes
  <1>2. ASSUME NEW e \in Endpoint, NEW k \in PairedKey
        PROVE  RecordsOf(e, k[1], k[2])'
                 = RecordsOf(e, k[1], k[2]) \cup (IF e = frame.endpoint /\ k = key THEN {n} ELSE {})
    <2>1. k = key <=> (k[1] = frame.round /\ k[2] = id)
      BY DEF PairedKey
    <2> QED
      BY <1>R, <2>1 DEF RecordsOf
  <1>3. ASSUME NEW e \in Endpoint, NEW k \in PairedKey
        PROVE  CountOf(e, k)' = CountOf(e, k) + (IF e = frame.endpoint /\ k = key THEN 1 ELSE 0)
    <2>1. CASE k = key
      BY <2>1, <1>N DEF CountOf
    <2>2. CASE k # key
      BY <1>N, <2>2, CountsAreNumbers DEF CountOf
    <2> QED
      BY <2>1, <2>2
  <1>4. ASSUME NEW e \in Endpoint, NEW k \in PairedKey
        PROVE  NumberOf(e, k)' = CountOf(e, k)'
    <2>1. IsFiniteSet(RecordsOf(e, k[1], k[2])) /\ n \notin RecordsOf(e, k[1], k[2])
      <3>1. RecordsOf(e, k[1], k[2]) \subseteq Numbered(records)
        BY DEF RecordsOf
      <3> QED
        BY <3>1, FS_Subset DEF ReceiptsTypeOK
    <2>2. Cardinality(RecordsOf(e, k[1], k[2])) = CountOf(e, k) /\ CountOf(e, k) \in Nat
      BY CountsAreNumbers DEF CountsInv, NumberOf
    <2> DEFINE R == RecordsOf(e, k[1], k[2])
               S == RecordsOf(e, k[1], k[2])'
    <2>3. NumberOf(e, k)' = Cardinality(S)
      BY DEF NumberOf
    <2>4. S = R \cup (IF e = frame.endpoint /\ k = key THEN {n} ELSE {})
      BY <1>2
    <2>5. CountOf(e, k)' = CountOf(e, k) + (IF e = frame.endpoint /\ k = key THEN 1 ELSE 0)
      BY <1>3
    <2> HIDE DEF R, S
    <2>6. CASE e = frame.endpoint /\ k = key
      <3>1. S = R \cup {n}
        BY <2>4, <2>6
      <3>2. Cardinality(S) = Cardinality(R) + 1
        BY <2>1, <3>1, FS_AddElement DEF R
      <3> QED
        BY <2>2, <2>3, <2>5, <2>6, <3>2 DEF R
    <2>7. CASE ~(e = frame.endpoint /\ k = key)
      <3>1. S = R
        BY <2>4, <2>7
      <3> QED
        BY <2>2, <2>3, <2>5, <2>7, <3>1 DEF R
    <2> QED
      BY <2>6, <2>7
  <1>5. ASSUME NEW e \in Endpoint, NEW k \in Seen(e)'
        PROVE  \E m \in RecordsOf(e, k[1], k[2])' : m[1].receipt = identities'[k].receipt[e]
    <2>1. k \in PairedKey /\ k \in DOMAIN identities'
      BY <1>N DEF Seen, ReceiptsTypeOK
    <2>2. RecordsOf(e, k[1], k[2]) \subseteq RecordsOf(e, k[1], k[2])'
      BY <1>2, <2>1
    <2>3. CASE k \in Seen(e)
      <3>1. PICK m \in RecordsOf(e, k[1], k[2]) : m[1].receipt = identities[k].receipt[e]
        BY <2>3 DEF CountsInv
      <3>2. identities'[k].receipt[e] = identities[k].receipt[e]
        BY <2>1, <2>3, <1>N DEF Seen
      <3> QED
        BY <2>2, <3>1, <3>2
    <2>4. CASE k \notin Seen(e)
      <3>1. CountOf(e, k) = 0 /\ CountOf(e, k)' > 0
        <4>1. CountOf(e, k)' > 0
          BY <2>1 DEF Seen, CountOf
        <4> QED
          BY <2>1, <2>4, <4>1, CountsAreNumbers
      <3>2. e = frame.endpoint /\ k = key
        BY <1>3, <2>1, <3>1
      <3>3. identities'[k].receipt[e] = frame.receipt
        BY <2>4, <3>2, <1>N
      <3>4. n \in RecordsOf(e, k[1], k[2])' /\ n[1].receipt = frame.receipt
        BY <1>2, <1>R, <2>1, <3>2
      <3> QED
        BY <3>3, <3>4
    <2> QED
      BY <2>3, <2>4
  <1> QED
    BY <1>1, <1>4, <1>5 DEF CountsInv

LEMMA TradeRepeats ==
  ASSUME ReceiptsTypeOK, RepeatsInv, NEW id \in NativeIdentity, Trade(id),
         NEW key, key = <<frame.round, id>>,
         NEW n, n \notin Numbered(records), n[1] = RecordOf(id),
         Numbered(records') = Numbered(records) \cup {n}
  PROVE  RepeatsInv'
  <1>1. SUFFICES ASSUME NEW e \in Endpoint
                 PROVE  Cardinality(Identified(e)')
                          = Cardinality(Seen(e)') + Cardinality(Numbered(Extra(e)'))
    BY DEF RepeatsInv
  <1>2. n[1].endpoint = frame.endpoint /\ n[1].id = id
    BY RecordInHand DEF Trade
  <1>3. IsFiniteSet(Identified(e)) /\ n \notin Identified(e)
    <2>1. Identified(e) \subseteq Numbered(records)
      BY DEF Identified
    <2> QED
      BY <2>1, FS_Subset DEF ReceiptsTypeOK
  <1>4. /\ Cardinality(Identified(e)) = Cardinality(Seen(e)) + Cardinality(Numbered(Extra(e)))
        /\ Cardinality(Seen(e)) \in Nat /\ Cardinality(Numbered(Extra(e))) \in Nat
        /\ IsFiniteSet(Seen(e)) /\ IsFiniteSet(Numbered(Extra(e)))
    BY CountsAreNumbers, FS_CardinalityType DEF RepeatsInv
  <1>5. /\ key \in PairedKey
        /\ DOMAIN identities' = DOMAIN identities \cup {key}
        /\ \A k \in DOMAIN identities \ {key} : identities'[k] = identities[k]
        /\ identities'[key].count[e] = CountOf(e, key) + (IF e = frame.endpoint THEN 1 ELSE 0)
    BY TradeNotes
  <1> DEFINE c    == CountOf(e, key)
             one  == IF e = frame.endpoint THEN 1 ELSE 0
             seen == Seen(e)'
             f    == Extra(e)
             g    == Extra(e)'
  <1>6. c \in Nat /\ (key \in Seen(e) <=> c > 0) /\ (key \notin DOMAIN identities => c = 0)
    BY <1>5, CountsAreNumbers DEF CountOf
  <1>7. seen = Seen(e) \cup (IF c + one > 0 THEN {key} ELSE {})
    <2>1. \A k \in DOMAIN identities' : k \in seen <=> identities'[k].count[e] > 0
      BY DEF Seen
    <2>2. \A k \in DOMAIN identities : k \in Seen(e) <=> identities[k].count[e] > 0
      BY DEF Seen
    <2>3. Seen(e) \subseteq DOMAIN identities /\ seen \subseteq DOMAIN identities'
      BY DEF Seen
    <2> HIDE DEF seen
    <2> QED
      BY <1>5, <1>6, <2>1, <2>2, <2>3
  <1>8. /\ DOMAIN f = DOMAIN identities /\ DOMAIN g = DOMAIN identities \cup {key}
        /\ \A k \in DOMAIN f \ {key} : g[k] = f[k]
        /\ key \in DOMAIN f => f[key] = IF c > 0 THEN c - 1 ELSE 0
        /\ g[key] = IF c + one > 0 THEN c + one - 1 ELSE 0
    <2>1. /\ f = [k \in DOMAIN identities |->
                    IF identities[k].count[e] > 0 THEN identities[k].count[e] - 1 ELSE 0]
          /\ g = [k \in DOMAIN identities' |->
                    IF identities'[k].count[e] > 0 THEN identities'[k].count[e] - 1 ELSE 0]
      BY DEF Extra
    <2>2. key \in DOMAIN identities => identities[key].count[e] = c
      BY DEF CountOf
    <2>3. identities'[key].count[e] = c + one
      BY <1>5
    <2>4. key \in DOMAIN identities' /\ DOMAIN identities' = DOMAIN identities \cup {key}
      BY <1>5
    <2> HIDE DEF c, f, g, one
    <2>5. DOMAIN f = DOMAIN identities /\ DOMAIN g = DOMAIN identities \cup {key}
      BY <2>1, <2>4
    <2>6. g[key] = IF c + one > 0 THEN c + one - 1 ELSE 0
      <3>1. g[key] = IF identities'[key].count[e] > 0 THEN identities'[key].count[e] - 1 ELSE 0
        BY <2>1, <2>4
      <3>2. c \in Int /\ one \in Int
        BY <1>6 DEF one
      <3> QED
        BY <2>3, <3>1, <3>2
    <2>7. key \in DOMAIN f => f[key] = IF c > 0 THEN c - 1 ELSE 0
      BY <2>1, <2>2
    <2>8. \A k \in DOMAIN f \ {key} : g[k] = f[k]
      BY <1>5, <2>1
    <2> QED
      BY <2>5, <2>6, <2>7, <2>8
  <1>9. \A k \in DOMAIN f : f[k] \in Nat
    <2>1. \A k \in DOMAIN identities : identities[k].count[e] \in Nat
      BY DEF ReceiptsTypeOK, Identity
    <2> QED
      BY <2>1 DEF Extra
  <1>10. Cardinality(Identified(e)') = Cardinality(Identified(e)) + one
    <2>1. Identified(e)' = Identified(e) \cup (IF e = frame.endpoint THEN {n} ELSE {})
      BY <1>2 DEF Identified
    <2>2. Cardinality(Identified(e)) \in Nat
      BY <1>3, FS_CardinalityType
    <2>3. Cardinality(Identified(e) \cup {n}) = Cardinality(Identified(e)) + 1
      BY <1>3, FS_AddElement
    <2>4. CASE e = frame.endpoint
      BY <2>1, <2>3, <2>4
    <2>5. CASE e # frame.endpoint
      <3>1. Identified(e)' = Identified(e)
        BY <2>1, <2>5
      <3> QED
        BY <2>2, <2>5, <3>1
    <2> QED
      BY <2>4, <2>5
  <1> HIDE DEF c, seen, f, g
  <1>11. CASE c > 0 /\ e = frame.endpoint
    <2>1. seen = Seen(e)
      BY <1>6, <1>7, <1>11
    <2>2. /\ <<key, g[key]>> \notin Numbered(f)
          /\ Numbered(g) = Numbered(f) \cup {<<key, g[key]>>}
      <3>1. key \in DOMAIN f /\ g[key] = f[key] + 1
        BY <1>6, <1>8, <1>11
      <3>2. f \in [DOMAIN f -> Nat]
        BY <1>8, <1>9 DEF f, Extra
      <3>3. g \in [DOMAIN f \cup {key} -> Nat]
        <4>1. g = [k \in DOMAIN g |-> g[k]]
          BY DEF g, Extra
        <4> QED
          BY <1>8, <1>9, <3>1, <4>1
      <3> QED
        BY <1>8, <3>1, <3>2, <3>3, OneMoreCopy
    <2>3. Cardinality(Numbered(g)) = Cardinality(Numbered(f)) + 1
      BY <1>4, <2>2, FS_AddElement DEF f
    <2> QED
      BY <1>4, <1>10, <1>11, <2>1, <2>3 DEF f, g, seen
  <1>12. CASE c = 0 \/ e # frame.endpoint
    <2>1. Cardinality(seen) = Cardinality(Seen(e)) + one
      <3>1. CASE e = frame.endpoint
        <4>1. seen = Seen(e) \cup {key} /\ key \notin Seen(e)
          BY <1>6, <1>7, <1>12, <3>1
        <4> QED
          BY <1>4, <3>1, <4>1, FS_AddElement
      <3>2. CASE e # frame.endpoint
        <4>1. seen = Seen(e)
          BY <1>6, <1>7, <3>2
        <4> QED
          BY <1>4, <3>2, <4>1
      <3> QED
        BY <3>1, <3>2
    <2>2. Numbered(g) = Numbered(f)
      <3>1. key \in DOMAIN f => g[key] = f[key]
        BY <1>6, <1>8, <1>12
      <3>2. key \notin DOMAIN f => g[key] = 0
        BY <1>6, <1>8, <1>12
      <3> QED
        BY <1>8, <3>1, <3>2, NoMoreCopies
    <2> QED
      BY <1>4, <1>10, <2>1, <2>2 DEF f, g, seen
  <1> QED
    BY <1>6, <1>11, <1>12

-----------------------------------------------------------------------------
(* PairedReceipts: the invariant *)

LEMMA ReceiptsAtFirst == ReceiptsInit => ReceiptsInv
  <1> SUFFICES ASSUME ReceiptsInit
               PROVE  ReceiptsInv
    OBVIOUS
  <1>1. records = << >> /\ DOMAIN records = {}
    BY DEF ReceiptsInit, EmptyBag, SetToBag
  <1>2. identities = << >> /\ DOMAIN identities = {}
    BY DEF ReceiptsInit
  <1>3. Numbered(records) = {} /\ \A e \in Endpoint : Numbered(Extra(e)) = {}
    BY <1>1, <1>2 DEF Numbered, Extra
  <1>4. ReceiptsTypeOK
    BY <1>1, <1>2, <1>3, FS_EmptySet DEF ReceiptsInit, ReceiptsTypeOK
  <1>5. CountsInv
    <2>1. \A e \in Endpoint, k \in PairedKey : RecordsOf(e, k[1], k[2]) = {} /\ CountOf(e, k) = 0
      BY <1>2, <1>3 DEF RecordsOf, CountOf
    <2>2. \A e \in Endpoint : Seen(e) = {} /\ Anonymous(e) = {}
      BY <1>2, <1>3 DEF Seen, Anonymous
    <2>3. InTradeArrays = {} /\ Invalid = {}
      BY <1>3 DEF InTradeArrays, Invalid
    <2> QED
      BY <2>1, <2>2, <2>3, FS_EmptySet DEF ReceiptsInit, CountsInv, NumberOf
  <1>6. RepeatsInv
    <2>1. \A e \in Endpoint : Seen(e) = {} /\ Identified(e) = {}
      BY <1>2, <1>3 DEF Seen, Identified
    <2> QED
      BY <1>3, <2>1, FS_EmptySet DEF RepeatsInv
  <1>7. ReportInv
    BY DEF ReceiptsInit, ReportInv
  <1> QED
    BY <1>4, <1>5, <1>6, <1>7 DEF ReceiptsInv

\* While the frames are read there is no report.
LEMMA NoReportYet ==
  ASSUME ReportInv, report' = report, pc # "done", pc' \in {"frames", "trades", "refused"}
  PROVE  ReportInv'
  BY DEF ReportInv

\* What the counts and the report are made of.
LEMMA SameCounts ==
  ASSUME UNCHANGED <<counters, records>>
  PROVE  /\ CountsInv => CountsInv'
         /\ RepeatsInv => RepeatsInv'
         /\ Deltas' = Deltas /\ Report' = Report
  <1>1. /\ candidate_records' = candidate_records /\ missing_native_id' = missing_native_id
        /\ invalid_payload_records' = invalid_payload_records
        /\ identities' = identities /\ records' = records
    BY DEF counters
  <1>2. \A e : /\ Identified(e)' = Identified(e) /\ Seen(e)' = Seen(e) /\ Extra(e)' = Extra(e)
               /\ OnlyOn(e)' = OnlyOn(e) /\ Anonymous(e)' = Anonymous(e)
               /\ \A k : CountOf(e, k)' = CountOf(e, k) /\ NumberOf(e, k)' = NumberOf(e, k)
               /\ \A r, id : RecordsOf(e, r, id)' = RecordsOf(e, r, id)
    BY <1>1 DEF Identified, Seen, Extra, OnlyOn, Anonymous, CountOf, NumberOf, RecordsOf
  <1>3. CountsInv => CountsInv'
    <2>1. InTradeArrays' = InTradeArrays /\ Invalid' = Invalid
      BY <1>1 DEF InTradeArrays, Invalid
    <2> QED
      BY <1>1, <1>2, <2>1 DEF CountsInv
  <1>4. RepeatsInv => RepeatsInv'
    BY <1>2 DEF RepeatsInv
  <1>5. Deltas' = Deltas
    BY <1>1 DEF Deltas
  <1>6. Report' = Report
    BY <1>1, <1>2, <1>5 DEF Report
  <1> QED
    BY <1>3, <1>4, <1>5, <1>6

LEMMA StartFrameKeeps ==
  ASSUME ReceiptsInv, NEW e \in Endpoint, NEW r \in Round, NEW t \in Receipt, StartFrame(e, r, t)
  PROVE  ReceiptsInv'
  <1>1. UNCHANGED <<candidate_records, invalid_payload_records, missing_native_id, identities,
                    records, report>>
    BY DEF StartFrame, receipts_files
  <1>2. ReceiptsTypeOK'
    BY <1>1 DEF ReceiptsInv, ReceiptsTypeOK, StartFrame, Frame, Numbered
  <1>3. CountsInv' /\ RepeatsInv'
    <2>1. \A x : /\ Identified(x)' = Identified(x) /\ Seen(x)' = Seen(x) /\ Extra(x)' = Extra(x)
                  /\ Anonymous(x)' = Anonymous(x)
      BY <1>1 DEF Identified, Seen, Extra, Anonymous
    <2>2. InTradeArrays' = InTradeArrays /\ Invalid' = Invalid
      BY <1>1 DEF InTradeArrays, Invalid
    <2> QED
      BY <1>1, <2>1, <2>2 DEF ReceiptsInv, CountsInv, RepeatsInv, StartFrame, NumberOf,
                              RecordsOf, CountOf
  <1>4. ReportInv'
    BY <1>1, NoReportYet DEF ReceiptsInv, StartFrame
  <1> QED
    BY <1>2, <1>3, <1>4 DEF ReceiptsInv

LEMMA RefuseKeeps ==
  ASSUME ReceiptsInv, Refuse
  PROVE  ReceiptsInv'
  <1>1. UNCHANGED <<frame, counters, records, report>> /\ pc' = "refused" /\ pc # "done"
    BY DEF Refuse, receipts_files
  <1>2. ReceiptsTypeOK'
    BY <1>1 DEF ReceiptsInv, ReceiptsTypeOK, counters, Numbered
  <1>3. ReportInv'
    BY <1>1, NoReportYet DEF ReceiptsInv
  <1> QED
    BY <1>1, <1>2, <1>3 DEF ReceiptsInv

LEMMA EndFrameKeeps ==
  ASSUME ReceiptsInv, EndFrame
  PROVE  ReceiptsInv'
  <1>1. UNCHANGED <<counters, records, report>> /\ pc' = "frames" /\ pc = "trades"
    BY DEF EndFrame, receipts_files
  <1>2. ReceiptsTypeOK'
    BY <1>1 DEF ReceiptsInv, ReceiptsTypeOK, counters, Numbered
  <1>3. ReportInv'
    BY <1>1, NoReportYet DEF ReceiptsInv
  <1>4. CountsInv' /\ RepeatsInv'
    BY <1>1, SameCounts DEF ReceiptsInv
  <1> QED
    BY <1>2, <1>3, <1>4 DEF ReceiptsInv

LEMMA TooManyKeeps ==
  ASSUME ReceiptsInv, NEW id \in NativeIdentity \cup {"no_id", "no_trade"}, TooMany(id)
  PROVE  ReceiptsInv'
  <1>1. UNCHANGED <<frame, counters, report>> /\ pc' = "refused" /\ pc = "trades"
    BY DEF TooMany, receipts_files
  <1>2. /\ DOMAIN records' \subseteq Record /\ records' \in [DOMAIN records' -> Nat \ {0}]
        /\ IsFiniteSet(Numbered(records'))
    <2>1. RecordOf(id) \in Record /\ InBundle(RecordOf(id))
      BY RecordInHand DEF ReceiptsInv, TooMany, Nameless
    <2> QED
      BY <2>1, RecordAdded DEF ReceiptsInv
  <1>3. ReceiptsTypeOK'
    BY <1>1, <1>2 DEF ReceiptsInv, ReceiptsTypeOK, counters, Numbered
  <1>4. ReportInv'
    BY <1>1, NoReportYet DEF ReceiptsInv
  <1> QED
    BY <1>1, <1>3, <1>4 DEF ReceiptsInv

LEMMA NamelessKeeps ==
  ASSUME ReceiptsInv, TradeWithoutId \/ NotATrade \/ \E e \in Endpoint : BrokenFrame(e)
  PROVE  ReceiptsInv'
  <1>1. /\ UNCHANGED <<pc, frame, identities, report>> /\ pc \in {"frames", "trades"}
        /\ selected_frames' \in Nat
    <2>1. selected_frames \in Nat
      BY DEF ReceiptsInv, ReceiptsTypeOK
    <2>2. CASE TradeWithoutId \/ NotATrade
      BY <2>1, <2>2 DEF TradeWithoutId, NotATrade, receipts_files
    <2>3. CASE \E e \in Endpoint : BrokenFrame(e)
      BY <2>1, <2>3 DEF BrokenFrame, receipts_files
    <2> QED
      BY <2>2, <2>3
  <1>2. PICK endpoint \in Endpoint, id \in Nameless :
          /\ InBundle([endpoint |-> endpoint, id |-> id])
          /\ candidate_records' = candidate_records + (IF id = "unread" THEN 0 ELSE 1)
          /\ invalid_payload_records' = invalid_payload_records + (IF id = "no_id" THEN 0 ELSE 1)
          /\ missing_native_id' \in [Endpoint -> Nat]
          /\ \A e \in Endpoint :
               missing_native_id'[e]
                 = missing_native_id[e] + (IF id = "no_id" /\ e = endpoint THEN 1 ELSE 0)
    <2>1. missing_native_id \in [Endpoint -> Nat] /\ candidate_records \in Nat
          /\ invalid_payload_records \in Nat
      BY DEF ReceiptsInv, ReceiptsTypeOK
    <2>2. CASE TradeWithoutId
      <3>1. frame.endpoint \in Endpoint
            /\ RecordOf("no_id") = [endpoint |-> frame.endpoint, id |-> "no_id"]
        BY <2>2, RecordInHand DEF ReceiptsInv, TradeWithoutId, Nameless
      <3>2. /\ "no_id" \in Nameless /\ InBundle([endpoint |-> frame.endpoint, id |-> "no_id"])
            /\ candidate_records' = candidate_records + 1
            /\ invalid_payload_records' = invalid_payload_records + 0
            /\ missing_native_id' = [missing_native_id EXCEPT ![frame.endpoint] = @ + 1]
        BY <2>1, <2>2, <3>1 DEF TradeWithoutId, Nameless
      <3>3. /\ missing_native_id' \in [Endpoint -> Nat]
            /\ \A e \in Endpoint : missing_native_id'[e]
                 = missing_native_id[e] + (IF e = frame.endpoint THEN 1 ELSE 0)
        BY <2>1, <3>1, <3>2
      <3> QED
        BY <3>1, <3>2, <3>3
    <2>3. CASE NotATrade
      <3>1. frame.endpoint \in Endpoint
            /\ RecordOf("no_trade") = [endpoint |-> frame.endpoint, id |-> "no_trade"]
        BY <2>3, RecordInHand DEF ReceiptsInv, NotATrade, Nameless
      <3>2. /\ "no_trade" \in Nameless /\ InBundle([endpoint |-> frame.endpoint, id |-> "no_trade"])
            /\ candidate_records' = candidate_records + 1
            /\ invalid_payload_records' = invalid_payload_records + 1
            /\ missing_native_id' = missing_native_id
        BY <2>3, <3>1 DEF NotATrade, Nameless
      <3> QED
        BY <2>1, <3>1, <3>2
    <2>4. CASE \E e \in Endpoint : BrokenFrame(e)
      <3>1. PICK endpoint \in Endpoint : BrokenFrame(endpoint)
        BY <2>4
      <3>2. /\ "unread" \in Nameless /\ InBundle([endpoint |-> endpoint, id |-> "unread"])
            /\ candidate_records' = candidate_records + 0
            /\ invalid_payload_records' = invalid_payload_records + 1
            /\ missing_native_id' = missing_native_id
        BY <2>1, <3>1 DEF BrokenFrame, Nameless
      <3> QED
        BY <2>1, <3>1, <3>2
    <2> QED
      BY <2>2, <2>3, <2>4
  <1>3. /\ DOMAIN records' \subseteq Record /\ records' \in [DOMAIN records' -> Nat \ {0}]
        /\ IsFiniteSet(Numbered(records'))
    <2>1. [endpoint |-> endpoint, id |-> id] \in Record
      BY DEF Record
    <2> QED
      BY <1>2, <2>1, RecordAdded DEF ReceiptsInv
  <1>4. ReceiptsTypeOK'
    <2>1. candidate_records' \in Nat /\ invalid_payload_records' \in Nat
      BY <1>2 DEF ReceiptsInv, ReceiptsTypeOK
    <2> QED
      BY <1>1, <1>2, <1>3, <2>1 DEF ReceiptsInv, ReceiptsTypeOK, Numbered
  <1>5. CountsInv' /\ RepeatsInv'
    BY <1>1, <1>2, NoIdKeepsCounts DEF ReceiptsInv
  <1>6. ReportInv'
    BY <1>1, NoReportYet DEF ReceiptsInv
  <1> QED
    BY <1>4, <1>5, <1>6 DEF ReceiptsInv

LEMMA TradeKeeps ==
  ASSUME ReceiptsInv, NEW id \in NativeIdentity, Trade(id)
  PROVE  ReceiptsInv'
  <1> DEFINE key == <<frame.round, id>>
  <1>1. /\ UNCHANGED <<pc, frame, selected_frames, invalid_payload_records, missing_native_id, report>>
        /\ pc = "trades" /\ RecordOf(id) \in Record
        /\ InBundle(RecordOf(id)) /\ candidate_records' = candidate_records + 1
    BY RecordInHand DEF ReceiptsInv, Trade, receipts_files
  <1>2. /\ DOMAIN records' \subseteq Record /\ records' \in [DOMAIN records' -> Nat \ {0}]
        /\ IsFiniteSet(Numbered(records'))
        /\ \E n : /\ n \notin Numbered(records) /\ n[1] = RecordOf(id)
                  /\ Numbered(records') = Numbered(records) \cup {n}
    BY <1>1, RecordAdded DEF ReceiptsInv
  <1>3. /\ key \in PairedKey /\ DOMAIN identities' = DOMAIN identities \cup {key}
        /\ identities' \in [DOMAIN identities' -> Identity]
    BY TradeNotes DEF ReceiptsInv
  <1>4. ReceiptsTypeOK'
    <2>1. IsFiniteSet(DOMAIN identities')
      BY <1>3, FS_AddElement DEF ReceiptsInv, ReceiptsTypeOK
    <2> HIDE DEF key
    <2> QED
      BY <1>1, <1>2, <1>3, <2>1 DEF ReceiptsInv, ReceiptsTypeOK, Numbered
  <1>5. CountsInv' /\ RepeatsInv'
    BY <1>1, <1>2, TradeCounts, TradeRepeats DEF ReceiptsInv
  <1>6. ReportInv'
    BY <1>1, NoReportYet DEF ReceiptsInv
  <1> QED
    BY <1>4, <1>5, <1>6 DEF ReceiptsInv

LEMMA MatchKeeps ==
  ASSUME ReceiptsInv, Match
  PROVE  ReceiptsInv'
  <1>1. UNCHANGED <<frame, counters, records, report>> /\ pc = "frames" /\ pc' \in {"refused", "write"}
    BY DEF Match, receipts_files
  <1>2. ReceiptsTypeOK'
    BY <1>1 DEF ReceiptsInv, ReceiptsTypeOK, counters, Numbered
  <1>3. CountsInv' /\ RepeatsInv' /\ Deltas' = Deltas
    BY <1>1, SameCounts DEF ReceiptsInv
  <1>4. ReportInv'
    BY <1>1, <1>3 DEF ReceiptsInv, ReportInv, Match
  <1> QED
    BY <1>2, <1>3, <1>4 DEF ReceiptsInv

LEMMA WriteKeeps ==
  ASSUME ReceiptsInv, WriteTemporary
  PROVE  ReceiptsInv'
  <1>1. UNCHANGED <<frame, counters, records, report>> /\ pc = "write"
    BY DEF WriteTemporary
  <1>2. ReceiptsTypeOK'
    BY <1>1 DEF ReceiptsInv, ReceiptsTypeOK, WriteTemporary, counters, Numbered
  <1>3. CountsInv' /\ RepeatsInv' /\ Deltas' = Deltas /\ Report' = Report
    BY <1>1, SameCounts DEF ReceiptsInv
  <1>4. ReportInv'
    BY <1>1, <1>3 DEF ReceiptsInv, ReportInv, WriteTemporary
  <1> QED
    BY <1>2, <1>3, <1>4 DEF ReceiptsInv

LEMMA RenameKeeps ==
  ASSUME ReceiptsInv, Rename
  PROVE  ReceiptsInv'
  <1>1. UNCHANGED <<frame, counters, records>> /\ pc = "rename" /\ pc' \in {"done", "refused"}
    BY DEF Rename
  <1>2. ReceiptsTypeOK'
    BY <1>1 DEF ReceiptsInv, ReceiptsTypeOK, counters, Numbered
  <1>3. CountsInv' /\ RepeatsInv' /\ Deltas' = Deltas /\ Report' = Report
    BY <1>1, SameCounts DEF ReceiptsInv
  <1>4. ReportInv'
    BY <1>1, <1>3 DEF ReceiptsInv, ReportInv, Rename, receipts_files
  <1> QED
    BY <1>2, <1>3, <1>4 DEF ReceiptsInv

\* What the analysis has read it has counted, and what it has written is the
\* report of what it counted.
THEOREM ReceiptsInvariant == ReceiptsSpec => []ReceiptsInv
  <1>1. ReceiptsInv /\ [ReceiptsNext]_receipts_vars => ReceiptsInv'
    <2> SUFFICES ASSUME ReceiptsInv, [ReceiptsNext]_receipts_vars
                 PROVE  ReceiptsInv'
      OBVIOUS
    <2>1. CASE \E e \in Endpoint, r \in Round, t \in Receipt : StartFrame(e, r, t)
      BY <2>1, StartFrameKeeps
    <2>2. CASE Refuse
      BY <2>2, RefuseKeeps
    <2>3. CASE EndFrame
      BY <2>3, EndFrameKeeps
    <2>4. CASE \E id \in NativeIdentity : Trade(id)
      BY <2>4, TradeKeeps
    <2>5. CASE \E id \in NativeIdentity \cup {"no_id", "no_trade"} : TooMany(id)
      BY <2>5, TooManyKeeps
    <2>6. CASE TradeWithoutId \/ NotATrade \/ \E e \in Endpoint : BrokenFrame(e)
      BY <2>6, NamelessKeeps
    <2>7. CASE Match
      BY <2>7, MatchKeeps
    <2>8. CASE WriteTemporary
      BY <2>8, WriteKeeps
    <2>9. CASE Rename
      BY <2>9, RenameKeeps
    <2>10. CASE UNCHANGED receipts_vars
      <3>1. UNCHANGED <<pc, frame, counters, records, temporary, report>>
        BY <2>10 DEF receipts_vars, receipts_files
      <3>2. ReceiptsTypeOK'
        BY <3>1 DEF ReceiptsInv, ReceiptsTypeOK, counters, Numbered
      <3> QED
        BY <3>1, <3>2, SameCounts DEF ReceiptsInv, ReportInv
    <2> QED
      BY <2>1, <2>2, <2>3, <2>4, <2>5, <2>6, <2>7, <2>8, <2>9, <2>10 DEF ReceiptsNext, Stopped
  <1> QED
    BY <1>1, ReceiptsAtFirst, PTL DEF ReceiptsSpec

-----------------------------------------------------------------------------
(* PairedReceipts: what the report says *)

LEMMA DeltaIsExact ==
  ASSUME NEW standard \in Receipt, NEW aws \in Receipt
  PROVE  /\ ReceiptDelta(standard, aws) \in Int
         /\ ReceiptDelta(standard, aws) # Overflow => ReceiptDelta(standard, aws) = aws - standard
  BY PairedReceiptsAssumption DEF ReceiptDelta, Overflow, Receipt

\* The report that stands is the one of the counts as they are.
LEMMA WrittenIsReport ==
  ASSUME ReceiptsInv, report.written
  PROVE  /\ report = Report /\ report # Torn
         /\ CountsInv /\ RepeatsInv
         /\ \A k \in DOMAIN Deltas : Deltas[k] # Overflow
  <1>1. pc = "done" /\ report = Report
    BY DEF ReceiptsInv, ReportInv, NoReport
  <1>2. Report # Torn
    <2>1. "torn" \in DOMAIN Torn /\ "torn" \notin DOMAIN Report
      BY DEF Torn, Report
    <2> QED
      BY <2>1
  <1> QED
    BY <1>1, <1>2 DEF ReceiptsInv, ReportInv

\* The receipts of an identity that every endpoint has shown once.
LEMMA SingleReceipts ==
  ASSUME ReceiptsTypeOK, CountsInv, NEW k \in DOMAIN identities, Single(identities[k]),
         NEW e \in Endpoint
  PROVE  /\ ReceiptOf(e, k) = identities[k].receipt[e]
         /\ identities[k].receipt[e] \in Receipt
  <1> DEFINE R == RecordsOf(e, k[1], k[2])
  <1>1. k \in PairedKey /\ k \in Seen(e) /\ CountOf(e, k) = 1
    BY DEF ReceiptsTypeOK, Seen, Single, CountOf
  <1>2. R \subseteq Numbered(records) /\ IsFiniteSet(R) /\ Cardinality(R) = 1
    <2>1. R \subseteq Numbered(records)
      BY DEF RecordsOf
    <2>2. NumberOf(e, k) = CountOf(e, k)
      BY <1>1 DEF CountsInv
    <2> QED
      BY <1>1, <2>1, <2>2, FS_Subset DEF ReceiptsTypeOK, NumberOf
  <1>3. PICK m \in R : m[1].receipt = identities[k].receipt[e]
    BY <1>1 DEF CountsInv
  <1>4. \A x \in R : x = m
    <2>1. PICK y : R = {y}
      <3> HIDE DEF R
      <3> QED
        BY <1>2, FS_Singleton
    <2> QED
      BY <2>1
  <1>5. (CHOOSE x \in R : TRUE) = m
    BY <1>4
  <1>6. m[1] \in Record
    BY <1>2 DEF Numbered, ReceiptsTypeOK
  <1>7. m[1].id \in NativeIdentity
    BY <1>1 DEF RecordsOf, PairedKey
  <1>8. m[1].receipt \in Receipt
    BY <1>6, <1>7, PairedReceiptsAssumption DEF Record
  <1> QED
    BY <1>3, <1>5, <1>8 DEF ReceiptOf

LEMMA DeltasAreIntegers ==
  ASSUME ReceiptsTypeOK, CountsInv
  PROVE  /\ DOMAIN Deltas = {k \in DOMAIN identities : Single(identities[k])}
         /\ IsFiniteSet(DOMAIN Deltas) /\ Deltas \in [DOMAIN Deltas -> Int]
  <1>1. DOMAIN Deltas = {k \in DOMAIN identities : Single(identities[k])}
    BY DEF Deltas
  <1>2. IsFiniteSet(DOMAIN Deltas)
    BY <1>1, FS_Subset DEF ReceiptsTypeOK
  <1>3. ASSUME NEW k \in DOMAIN Deltas
        PROVE  Deltas[k] \in Int
    <2>1. \A e \in Endpoint : identities[k].receipt[e] \in Receipt
      BY <1>1, SingleReceipts
    <2>2. Deltas[k] = ReceiptDelta(identities[k].receipt["standard"], identities[k].receipt["aws"])
      BY <1>1 DEF Deltas
    <2> QED
      BY <2>1, <2>2, DeltaIsExact DEF Endpoint
  <1>4. Deltas = [k \in DOMAIN Deltas |-> Deltas[k]]
    BY DEF Deltas
  <1> QED
    BY <1>1, <1>2, <1>3, <1>4

\* The report that stands has the exact difference of the receipts of every
\* identity that each endpoint shows once, and of no other: none has been left
\* out, none has overflowed, none has been taken from another round.
THEOREM SamplesAreAlwaysExact == ReceiptsSpec => []SamplesAreExact
  <1>1. ReceiptsInv => SamplesAreExact
    <2> SUFFICES ASSUME ReceiptsInv, report.written
                 PROVE  /\ report # Torn
                        /\ report.deltas =
                             [k \in PairedOnce |-> ReceiptOf("aws", k) - ReceiptOf("standard", k)]
      BY DEF SamplesAreExact
    <2>1. /\ report = Report /\ report # Torn /\ CountsInv /\ ReceiptsTypeOK
          /\ \A k \in DOMAIN Deltas : Deltas[k] # Overflow
      BY WrittenIsReport DEF ReceiptsInv
    <2>2. report.deltas = Deltas
      BY <2>1 DEF Report
    <2>3. PairedOnce = DOMAIN Deltas
      <3>1. \A k \in PairedKey, e \in Endpoint : NumberOf(e, k) = CountOf(e, k)
        BY <2>1 DEF CountsInv
      <3>2. \A k \in PairedKey :
              (\A e \in Endpoint : CountOf(e, k) = 1) <=> k \in DOMAIN identities /\ Single(identities[k])
        BY DEF CountOf, Single, Endpoint
      <3>3. /\ DOMAIN Deltas = {k \in DOMAIN identities : Single(identities[k])}
            /\ DOMAIN identities \subseteq PairedKey
        BY <2>1, DeltasAreIntegers DEF ReceiptsTypeOK
      <3>4. PairedOnce = {k \in PairedKey : \A e \in Endpoint : CountOf(e, k) = 1}
        BY <3>1 DEF PairedOnce
      <3> QED
        BY <3>2, <3>3, <3>4
    <2>4. ASSUME NEW k \in PairedOnce
          PROVE  Deltas[k] = ReceiptOf("aws", k) - ReceiptOf("standard", k)
      <3>1. k \in DOMAIN identities /\ Single(identities[k]) /\ k \in DOMAIN Deltas
        BY <2>1, <2>3, DeltasAreIntegers
      <3>2. \A e \in Endpoint : /\ ReceiptOf(e, k) = identities[k].receipt[e]
                                /\ identities[k].receipt[e] \in Receipt
        BY <2>1, <3>1, SingleReceipts
      <3>3. Deltas[k] = ReceiptDelta(identities[k].receipt["standard"], identities[k].receipt["aws"])
        BY <3>1 DEF Deltas
      <3> QED
        BY <2>1, <3>1, <3>2, <3>3, DeltaIsExact DEF Endpoint
    <2>5. Deltas = [k \in DOMAIN Deltas |-> Deltas[k]]
      BY DEF Deltas
    <2> QED
      BY <2>1, <2>2, <2>3, <2>4, <2>5
  <1> QED
    BY <1>1, ReceiptsInvariant, PTL

\* An identity an endpoint has shown is a sample, unmatched or ambiguous, and
\* only one of them.
LEMMA SeenIsSorted ==
  ASSUME ReceiptsTypeOK, NEW e \in Endpoint
  PROVE  LET Singles == {k \in DOMAIN identities : Single(identities[k])}
             Doubted == {k \in Seen(e) : Ambiguous(identities[k])}
         IN Cardinality(Seen(e)) = Cardinality(Singles) + Cardinality(OnlyOn(e)) + Cardinality(Doubted)
  <1> DEFINE Singles == {k \in DOMAIN identities : Single(identities[k])}
             Doubted == {k \in Seen(e) : Ambiguous(identities[k])}
             Only    == OnlyOn(e)
  <1>1. \A k \in DOMAIN identities, o \in Endpoint : identities[k].count[o] \in Nat
    BY DEF ReceiptsTypeOK, Identity
  <1>2. Singles \subseteq Seen(e) /\ Only \subseteq Seen(e) /\ Doubted \subseteq Seen(e)
    BY DEF Seen, Single, OnlyOn
  <1>3. Singles \cap Only = {}
    BY DEF Single, OnlyOn, Endpoint
  <1>4. (Singles \cup Only) \cap Doubted = {}
    BY DEF Single, OnlyOn, Ambiguous, Endpoint
  <1>5. Seen(e) = (Singles \cup Only) \cup Doubted
    <2>1. SUFFICES ASSUME NEW k \in Seen(e), k \notin Doubted
                   PROVE  k \in Singles \cup Only
      BY <1>2
    <2>2. /\ k \in DOMAIN identities /\ identities[k].count[e] > 0
          /\ \A o \in Endpoint : identities[k].count[o] \in {0, 1}
      BY <1>1, <2>1 DEF Seen, Ambiguous
    <2> QED
      BY <2>2 DEF Single, OnlyOn, Endpoint
  <1>6. IsFiniteSet(Singles) /\ IsFiniteSet(Only) /\ IsFiniteSet(Doubted)
    BY <1>2, CountsAreNumbers, FS_Subset
  <1> HIDE DEF Singles, Only, Doubted
  <1>7. /\ IsFiniteSet(Singles \cup Only)
        /\ Cardinality(Singles \cup Only) = Cardinality(Singles) + Cardinality(Only)
    BY <1>3, <1>6, DisjointUnion
  <1>8. Cardinality(Seen(e)) = Cardinality(Singles \cup Only) + Cardinality(Doubted)
    BY <1>4, <1>5, <1>6, <1>7, DisjointUnion
  <1> QED
    BY <1>7, <1>8 DEF Singles, Only, Doubted

\* The tallies of the report are those of the bundle, and add up: a record of an
\* endpoint with a native id is in a sample, unmatched or of an ambiguous
\* identity, however the identities repeat, and what has none is counted apart.
THEOREM EveryRecordIsAccounted == ReceiptsSpec => []RecordsAreAccounted
  <1>1. ReceiptsInv => RecordsAreAccounted
    <2> DEFINE Doubts == {k \in PairedKey : \E o \in Endpoint : NumberOf(o, k) > 1}
    <2> SUFFICES ASSUME ReceiptsInv, report.written
                 PROVE  /\ report.candidates = Cardinality(InTradeArrays)
                        /\ report.payloads = Cardinality(Invalid)
                        /\ report.ambiguous = Cardinality(Doubts)
                        /\ \A e \in Endpoint :
                             /\ report.invalid[e] = Cardinality(Anonymous(e))
                             /\ Cardinality(Identified(e)) + Cardinality(Anonymous(e))
                                  = Cardinality(DOMAIN report.deltas) + report.unmatched[e]
                                    + report.duplicates[e]
                                    + Cardinality({k \in Doubts : NumberOf(e, k) > 0})
      BY DEF RecordsAreAccounted, Whole
    <2>1. report = Report /\ CountsInv /\ RepeatsInv /\ ReceiptsTypeOK
      BY WrittenIsReport DEF ReceiptsInv
    <2>2. /\ report.candidates = Cardinality(InTradeArrays)
          /\ report.payloads = Cardinality(Invalid)
          /\ \A e \in Endpoint : report.invalid[e] = Cardinality(Anonymous(e))
      BY <2>1 DEF Report, CountsInv
    <2>4. report.ambiguous = Cardinality(Doubts)
      <3>1. report.ambiguous = Cardinality({k \in DOMAIN identities : Ambiguous(identities[k])})
        BY <2>1 DEF Report
      <3>2. \A k \in PairedKey, o \in Endpoint : NumberOf(o, k) = CountOf(o, k)
        BY <2>1 DEF CountsInv
      <3>3. \A k \in PairedKey :
              (\E o \in Endpoint : CountOf(o, k) > 1)
                <=> k \in DOMAIN identities /\ Ambiguous(identities[k])
        BY DEF CountOf, Ambiguous
      <3>4. DOMAIN identities \subseteq PairedKey
        BY <2>1 DEF ReceiptsTypeOK
      <3>5. Doubts = {k \in DOMAIN identities : Ambiguous(identities[k])}
        BY <3>2, <3>3, <3>4
      <3> QED
        BY <3>1, <3>5
    <2>3. ASSUME NEW e \in Endpoint
          PROVE  Cardinality(Identified(e)) + Cardinality(Anonymous(e))
                   = Cardinality(DOMAIN report.deltas) + report.unmatched[e]
                     + report.duplicates[e]
                     + Cardinality({k \in Doubts : NumberOf(e, k) > 0})
      <3> DEFINE Singles == {k \in DOMAIN identities : Single(identities[k])}
                 Doubted == {k \in Seen(e) : Ambiguous(identities[k])}
                 Shown   == {k \in Doubts : NumberOf(e, k) > 0}
      <3>1. DOMAIN report.deltas = Singles
        BY <2>1 DEF Report, Deltas
      <3>2. /\ report.unmatched[e] = missing_native_id[e] + Cardinality(OnlyOn(e))
            /\ missing_native_id[e] = Cardinality(Anonymous(e))
            /\ report.duplicates[e] = SumFunction(Extra(e))
        BY <2>1 DEF Report, CountsInv
      <3>3. /\ missing_native_id[e] \in Nat
            /\ Cardinality(OnlyOn(e)) \in Nat
        <4>1. OnlyOn(e) \subseteq DOMAIN identities
          BY DEF OnlyOn
        <4> QED
          BY <2>1, <4>1, FS_Subset, FS_CardinalityType DEF ReceiptsTypeOK
      <3>4. SumFunction(Extra(e)) = Cardinality(Numbered(Extra(e)))
        <4>1. DOMAIN Extra(e) = DOMAIN identities
          BY DEF Extra
        <4>2. Extra(e) \in [DOMAIN Extra(e) -> Nat]
          <5>1. \A k \in DOMAIN identities : identities[k].count[e] \in Nat
            BY <2>1 DEF ReceiptsTypeOK, Identity
          <5> QED
            BY <5>1 DEF Extra
        <4> QED
          BY <2>1, <4>1, <4>2, SumIsCount DEF ReceiptsTypeOK
      <3>5. Shown = Doubted
        <4>1. \A k \in PairedKey, o \in Endpoint : NumberOf(o, k) = CountOf(o, k)
          BY <2>1 DEF CountsInv
        <4>2. Seen(e) \subseteq PairedKey /\ DOMAIN identities \subseteq PairedKey
          BY <2>1, CountsAreNumbers DEF ReceiptsTypeOK
        <4>3. \A k \in PairedKey : CountOf(e, k) > 0 <=> k \in Seen(e)
          BY <2>1, CountsAreNumbers
        <4>4. \A k \in Seen(e) :
                Ambiguous(identities[k]) <=> \E o \in Endpoint : CountOf(o, k) > 1
          BY DEF Seen, Ambiguous, CountOf
        <4> QED
          BY <4>1, <4>2, <4>3, <4>4
      <3>6. Cardinality(Identified(e)) = Cardinality(Seen(e)) + Cardinality(Numbered(Extra(e)))
        BY <2>1 DEF RepeatsInv
      <3>7. Cardinality(Seen(e))
              = Cardinality(Singles) + Cardinality(OnlyOn(e)) + Cardinality(Doubted)
        BY <2>1, SeenIsSorted
      <3>8. /\ Cardinality(Singles) \in Nat /\ Cardinality(Doubted) \in Nat
            /\ Cardinality(Numbered(Extra(e))) \in Nat
        <4>1. IsFiniteSet(Singles) /\ IsFiniteSet(Doubted) /\ IsFiniteSet(Numbered(Extra(e)))
          BY <2>1, CountsAreNumbers, FS_Subset DEF ReceiptsTypeOK
        <4> QED
          BY <4>1, FS_CardinalityType
      <3> HIDE DEF Singles, Doubted, Shown
      <3>9. Cardinality(Identified(e)) + Cardinality(Anonymous(e))
              = Cardinality(DOMAIN report.deltas) + report.unmatched[e]
                + report.duplicates[e] + Cardinality(Shown)
        BY <3>1, <3>2, <3>3, <3>4, <3>5, <3>6, <3>7, <3>8
      <3> QED
        BY <3>9 DEF Shown
    <2> QED
      BY <2>2, <2>3, <2>4
  <1> QED
    BY <1>1, ReceiptsInvariant, PTL

\* The quantiles of a report are nearest ranks of its samples, for any number of
\* them, and the 95th is never below the median.
THEOREM QuantilesAreTrueRanks == ReceiptsSpec => []QuantilesAreRanks
  <1>1. ReceiptsInv => QuantilesAreRanks
    <2> SUFFICES ASSUME ReceiptsInv, report.written, DOMAIN report.deltas # {}
                 PROVE  QuantilesAreRanks
      BY DEF QuantilesAreRanks, Whole
    <2>1. report = Report /\ CountsInv /\ ReceiptsTypeOK
      BY WrittenIsReport DEF ReceiptsInv
    <2>2. report.deltas = Deltas
      BY <2>1 DEF Report
    <2>3. report.statistics = Percentiles(Sorted(Deltas))
      BY <2>1, <2>2 DEF Report
    <2>4. /\ report.statistics.p50 = Percentile(Sorted(Deltas), 50)
          /\ report.statistics.p95 = Percentile(Sorted(Deltas), 95)
          /\ report.statistics.p99 = Percentile(Sorted(Deltas), 99)
      BY <2>3 DEF Percentiles
    <2>5. /\ IsFiniteSet(DOMAIN Deltas) /\ Deltas \in [DOMAIN Deltas -> Int]
          /\ DOMAIN Deltas # {}
      BY <2>1, <2>2, DeltasAreIntegers
    <2>6. Percentile(Sorted(Deltas), 50) <= Percentile(Sorted(Deltas), 95)
      BY <2>5, PercentilesInOrder
    <2>7. \A p \in {50, 95, 99} :
            LET q      == Percentile(Sorted(Deltas), p)
                Below  == {k \in DOMAIN Deltas : Deltas[k] < q}
                Within == {k \in DOMAIN Deltas : Deltas[k] <= q}
            IN /\ \E k \in DOMAIN Deltas : Deltas[k] = q
               /\ 100 * Cardinality(Below) < p * Cardinality(DOMAIN Deltas)
               /\ 100 * Cardinality(Within) >= p * Cardinality(DOMAIN Deltas)
      BY <2>5, PercentileIsRank
    <2> QED
      BY <2>2, <2>4, <2>6, <2>7 DEF QuantilesAreRanks
  <1> QED
    BY <1>1, ReceiptsInvariant, PTL
================================================================================
