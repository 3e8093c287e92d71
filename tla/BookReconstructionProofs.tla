----------------------- MODULE BookReconstructionProofs -----------------------
(***************************************************************************)
(* Proofs about BookReconstruction, for books of any depth, any number of  *)
(* messages and bundles that lose, repeat and reorder them at will.        *)
(***************************************************************************)
EXTENDS BookReconstruction, FiniteSetTheorems, WellFoundedInduction, TLAPS

-----------------------------------------------------------------------------
(* Best prices *)

\* Among the intervals from 1 that end at a number of T there is a smallest one.
LEMMA LeastNat ==
  ASSUME NEW T \in SUBSET Nat, T # {}
  PROVE  \E n \in T : \A m \in T : n <= m
  <1> DEFINE Intervals == {1 .. n : n \in T}
  <1>1. Intervals \in SUBSET FiniteSubsetsOf(Nat) /\ Intervals # {}
    <2>1. \A n \in Nat : 1 .. n \in SUBSET Nat /\ IsFiniteSet(1 .. n)
      BY FS_Interval
    <2> QED
      BY <2>1 DEF FiniteSubsetsOf
  <1>2. IsWellFoundedOn(StrictSubsetOrdering(Nat), FiniteSubsetsOf(Nat))
    BY FS_StrictSubsetOrderingWellFounded
  <1>3. \E I \in Intervals : \A J \in Intervals : ~ (<<J, I>> \in StrictSubsetOrdering(Nat))
    <2> HIDE DEF Intervals
    <2> QED
      BY <1>1, <1>2, WFMin
  <1>4. PICK n \in T : \A m \in T : ~ (<<1 .. m, 1 .. n>> \in StrictSubsetOrdering(Nat))
    BY <1>3
  <1>5. ASSUME NEW m \in T, m < n
        PROVE  FALSE
    <2>0. m \in Nat /\ n \in Nat
      OBVIOUS
    <2>1. 1 .. m \subseteq 1 .. n /\ n \in 1 .. n /\ n \notin 1 .. m /\ 1 .. n \subseteq Nat
      BY <1>5, <2>0
    <2>2. IsFiniteSet(1 .. n) /\ IsFiniteSet(1 .. m)
      BY <2>0, FS_Interval
    <2> QED
      BY <1>4, <2>1, <2>2 DEF StrictSubsetOrdering, FiniteSubsetsOf
  <1> QED
    BY <1>5

\* The best prices of a side are the side's own, when it has any.
LEMMA BestOfLevels ==
  ASSUME NEW levels \in Levels, levels["bids"] # {}, levels["asks"] # {}
  PROVE  Best(levels)[1] \in levels["bids"] /\ Best(levels)[2] \in levels["asks"]
  <1> DEFINE bids == levels["bids"]
             asks == levels["asks"]
  <1>1. MaxPrice \in Nat
    BY BookAssumption
  <1>2. bids \in SUBSET (1 .. MaxPrice) /\ asks \in SUBSET (1 .. MaxPrice)
    BY DEF Levels, Side, Price
  <1>3. Max(bids) \in bids
    <2> DEFINE T == {MaxPrice - p : p \in bids}
    <2>1. T \in SUBSET Nat /\ T # {}
      BY <1>1, <1>2
    <2>2. PICK n \in T : \A k \in T : n <= k
      <3> HIDE DEF T
      <3> QED
        BY <2>1, LeastNat
    <2>3. PICK p \in bids : n = MaxPrice - p
      OBVIOUS
    <2>4. ASSUME NEW q \in bids PROVE q <= p
      <3>1. n <= MaxPrice - q
        BY <2>2
      <3>2. q \in Int /\ p \in Int
        BY <1>2, <2>3
      <3> QED
        BY <1>1, <2>3, <3>1, <3>2
    <2> QED
      BY <2>4 DEF Max
  <1>4. Min(asks) \in asks
    <2>1. PICK p \in asks : \A q \in asks : p <= q
      BY <1>1, <1>2, LeastNat
    <2> QED
      BY <2>1 DEF Min
  <1> QED
    BY <1>3, <1>4 DEF Best

\* An uncrossed book with both sides is usable when nothing is missing of it.
LEMMA UncrossedIsUsable ==
  ASSUME NEW state \in Books, Uncrossed(state.levels), ~state.invalid_gap, ~state.capacity,
         state.levels["bids"] # {}, state.levels["asks"] # {}
  PROVE  Usable(state)
  <1>1. state.levels \in Levels /\ MaxPrice \in Nat
    BY BookAssumption DEF Books
  <1>2. /\ Best(state.levels)[1] \in state.levels["bids"]
        /\ Best(state.levels)[2] \in state.levels["asks"]
    BY <1>1, BestOfLevels
  <1>3. Best(state.levels)[1] \in 1 .. MaxPrice /\ Best(state.levels)[2] \in 1 .. MaxPrice
    BY <1>1, <1>2 DEF Levels, Side, Price
  <1>4. Best(state.levels)[1] < Best(state.levels)[2]
    BY <1>2 DEF Uncrossed
  <1> QED
    BY <1>1, <1>3, <1>4 DEF Usable, None

LEMMA EmptyBookType ==
  EmptyBook \in Books /\ EmptyLevels \in Levels /\ ~Usable(EmptyBook) /\ ~EmptyBook.valid
  <1>1. EmptyLevels \in Levels /\ EmptyLevels["bids"] = {}
    BY DEF EmptyLevels, Levels, Side
  <1>2. EmptyBook.levels = EmptyLevels
    BY DEF EmptyBook
  <1>3. Best(EmptyBook.levels)[1] = None
    BY <1>1, <1>2 DEF Best
  <1> QED
    BY <1>1, <1>3 DEF EmptyBook, Books, Bests, Usable

LEMMA InitIInv == Init => IInv
  <1> SUFFICES ASSUME Init PROVE IInv
    OBVIOUS
  <1>1. PICK first \in FirstBooks : truth = <<first>>
    BY DEF Init
  <1>2. first \in Levels /\ Uncrossed(first)
    BY BookAssumption
  <1>3. truth \in Seq(Levels) /\ Len(truth) = 1 /\ DOMAIN truth = {1} /\ truth[1] = first
    BY <1>1, <1>2
  <1>4. published \in Seq(Message) /\ Len(published) = 0 /\ DOMAIN published = {}
    BY DEF Init
  <1>5. /\ seen = << >> /\ rows = << >> /\ book = EmptyBook
        /\ seen \in Seq(DOMAIN published) /\ rows \in Seq(Bests) /\ DOMAIN seen = {}
    BY DEF Init
  <1>6. TypeOK
    BY <1>3, <1>4, <1>5, EmptyBookType DEF Init, TypeOK
  <1>7. VenueInv
    BY <1>2, <1>3, <1>4 DEF VenueInv
  <1>8. TruthInv
    BY <1>5 DEF TruthInv, EmptyBook
  <1>9. SeenInv
    BY <1>5 DEF SeenInv
  <1>10. RowsInv
    <2>1. book.last = <<None, None>> /\ book.valid = FALSE
      BY <1>5 DEF EmptyBook
    <2>2. ~Usable(book) /\ Usable(book) \in BOOLEAN
      BY <1>5, EmptyBookType DEF Usable
    <2> QED
      BY <1>5, <2>1, <2>2 DEF RowsInv, LastRow
  <1> QED
    BY <1>6, <1>7, <1>8, <1>9, <1>10 DEF IInv

-----------------------------------------------------------------------------
(* The venue *)

\* Levels stay levels whatever part of a message is applied to them.
LEMMA ChangedType ==
  ASSUME NEW levels \in Levels, NEW m \in Message, NEW part \in Levels
  PROVE  Changed(levels, m, part) \in Levels
  BY DEF Levels, Message, Changed

\* A whole book changes the book it is of into itself.
LEMMA WholeBookChanges ==
  ASSUME NEW levels \in Levels
  PROVE  Changed(levels, [snapshot |-> TRUE, present |-> TRUE, levels |-> levels], levels) = levels
  BY DEF Changed, Levels

LEMMA PublishKeepsIInv ==
  ASSUME IInv, Publish
  PROVE  IInv'
  <1>1. /\ published \in Seq(Message) /\ truth \in Seq(Levels)
        /\ Len(truth) = Len(published) + 1 /\ Len(published) \in Nat
        /\ Current \in Levels
    BY DEF IInv, TypeOK, VenueInv, Current
  <1>2. PICK m \in Message :
          /\ m.snapshot => m.levels = Current /\ m.present
          /\ Uncrossed(Changed(Current, m, m.levels))
          /\ published' = Append(published, m)
          /\ truth' = Append(truth, Changed(Current, m, m.levels))
    <2>1. WholeBook \in Message /\ WholeBook.levels = Current /\ WholeBook.present
      BY <1>1 DEF WholeBook, Message
    <2>2. ASSUME NEW side \in Side, NEW price \in Price, NEW present \in BOOLEAN
          PROVE  Delta(side, price, present) \in Message /\ ~Delta(side, price, present).snapshot
      <3>1. [EmptyLevels EXCEPT ![side] = {price}] \in Levels
        BY EmptyBookType DEF Levels
      <3> QED
        BY <3>1 DEF Delta, Message
    <2>3. CASE Says(WholeBook)
      BY <2>1, <2>3 DEF Says
    <2>4. ASSUME NEW side \in Side, NEW price \in Price, NEW present \in BOOLEAN,
                 Says(Delta(side, price, present))
          PROVE  \E m \in Message : ~m.snapshot /\ Says(m)
      BY <2>2, <2>4
    <2>5. Says(WholeBook) \/ \E m \in Message : ~m.snapshot /\ Says(m)
      BY <2>4 DEF Publish
    <2>6. CASE \E m \in Message : ~m.snapshot /\ Says(m)
      BY <2>6, Zenon DEF Says
    <2> QED
      BY <2>3, <2>5, <2>6
  <1> DEFINE next == Changed(Current, m, m.levels)
  <1>3. next \in Levels /\ (m.snapshot => next = m.levels)
    BY <1>1, <1>2, ChangedType DEF Message, Changed, Levels
  <1> HIDE DEF next
  <1>4. /\ published' \in Seq(Message) /\ truth' \in Seq(Levels)
        /\ Len(published') = Len(published) + 1 /\ Len(truth') = Len(truth) + 1
        /\ \A n \in 1 .. Len(published) : published'[n] = published[n]
        /\ \A n \in 1 .. Len(truth) : truth'[n] = truth[n]
        /\ published'[Len(published) + 1] = m
        /\ truth'[Len(truth)] = Current /\ truth'[Len(truth) + 1] = next
    BY <1>1, <1>2, <1>3 DEF Current, next
  <1>5. VenueInv'
    <2>1. ASSUME NEW n \in 1 .. Len(published) PROVE Follows(n)'
      <3>1. Follows(n)
        BY <1>1 DEF IInv, VenueInv
      <3>2. published'[n] = published[n] /\ truth'[n] = truth[n] /\ truth'[n + 1] = truth[n + 1]
        BY <1>1, <1>4
      <3> QED
        BY <3>1, <3>2, Zenon DEF Follows
    <2>2. ASSUME NEW n, n = Len(published) + 1 PROVE Follows(n)'
      <3>1. published'[n] = m /\ truth'[n] = Current /\ truth'[n + 1] = next
        BY <1>1, <1>4, <2>2
      <3> QED
        BY <1>2, <1>3, <3>1 DEF Follows, next
    <2>3. DOMAIN published' = 1 .. Len(published) \cup {Len(published) + 1}
      BY <1>1, <1>4
    <2>4. \A n \in 1 .. Len(truth) : Uncrossed(truth[n])
      BY <1>1 DEF IInv, VenueInv
    <2>5. DOMAIN truth' = 1 .. Len(truth) \cup {Len(truth) + 1} /\ Uncrossed(next)
      BY <1>1, <1>2, <1>4 DEF next
    <2>6. \A n \in DOMAIN truth' : Uncrossed(truth'[n])
      BY <1>4, <2>4, <2>5
    <2> QED
      BY <1>1, <1>4, <2>1, <2>2, <2>3, <2>6 DEF VenueInv
  <1>6. /\ seen = << >> /\ book = EmptyBook /\ rows = << >>
        /\ UNCHANGED <<mapping, seen, book, rows, unchecked>>
    BY DEF Publish, IInv, SeenInv
  <1>7. TypeOK'
    <2>1. seen' \in Seq(DOMAIN published') /\ rows' \in Seq(Bests)
      BY <1>6
    <2> QED
      BY <1>4, <1>6, <2>1 DEF IInv, TypeOK
  <1>8. TruthInv'
    BY <1>6 DEF TruthInv, EmptyBook
  <1>9. SeenInv'
    BY <1>6 DEF SeenInv
  <1>10. RowsInv'
    BY <1>6 DEF IInv, RowsInv, LastRow, Usable
  <1> QED
    BY <1>5, <1>7, <1>8, <1>9, <1>10 DEF IInv

-----------------------------------------------------------------------------
(* The analysis of a frame *)

LEMMA RenewedFields ==
  ASSUME IInv, NEW n \in DOMAIN published, NEW reading
  PROVE  LET started == Renewed(book, n, reading) IN
         /\ started \in Books
         /\ started.last_native_id = book.last_native_id /\ started.last = book.last
         /\ IF reading # "undecoded" /\ published[n].snapshot
              THEN started.complete /\ ~started.capacity /\ ~started.invalid_gap
              ELSE started = book
  <1>1. book \in Books
    BY DEF IInv, TypeOK
  <1>2. CASE reading # "undecoded" /\ published[n].snapshot
    <2>1. Renewed(book, n, reading)
          = [book EXCEPT !.levels = EmptyLevels, !.invalid_gap = FALSE,
                         !.complete = TRUE, !.capacity = FALSE]
      BY <1>2 DEF Renewed
    <2> QED
      BY <1>1, <1>2, <2>1, EmptyBookType DEF Books
  <1>3. CASE ~(reading # "undecoded" /\ published[n].snapshot)
    BY <1>1, <1>3 DEF Renewed
  <1> QED
    BY <1>2, <1>3

LEMMA AppliedFields ==
  ASSUME IInv, NEW n \in DOMAIN published, NEW state \in Books, NEW applied \in Applied(state, n)
  PROVE  /\ applied \in Books
         /\ applied.invalid_gap = state.invalid_gap
         /\ applied.complete = state.complete
         /\ applied.last_native_id = state.last_native_id
         /\ applied.last = state.last
         /\ ~applied.capacity =>
              /\ ~state.capacity
              /\ applied.levels = Changed(state.levels, published[n], published[n].levels)
  <1> DEFINE m == published[n]
  <1>1. m \in Message
    BY DEF IInv, TypeOK
  <1>2. PICK part \in Levels :
          applied = [state EXCEPT !.levels = Changed(@, m, part), !.capacity = @ \/ part # m.levels]
    BY Zenon DEF Applied, Levels
  <1>3. Changed(state.levels, m, part) \in Levels
    BY <1>1, ChangedType DEF Books
  <1> DEFINE levels == Changed(state.levels, m, part)
             lacks  == state.capacity \/ part # m.levels
  <1>4. applied = [state EXCEPT !.levels = levels, !.capacity = lacks]
    BY <1>2
  <1>5. levels \in Levels /\ lacks \in BOOLEAN
    BY <1>3 DEF Books
  <1> HIDE DEF levels, lacks
  <1>6. /\ applied \in Books
        /\ applied.levels = levels /\ applied.capacity = lacks
        /\ applied.invalid_gap = state.invalid_gap
        /\ applied.complete = state.complete
        /\ applied.last_native_id = state.last_native_id
        /\ applied.last = state.last
    BY <1>4, <1>5 DEF Books
  <1> QED
    BY <1>6 DEF levels, lacks

\* What AnalyzeFrame does, in one place.
LEMMA FrameFacts ==
  ASSUME IInv, NEW n \in DOMAIN published, NEW reading, AnalyzeFrame(n, reading)
  PROVE  LET started == Renewed(book, n, reading)
             broken  == Gap(started, n, reading)
         IN \E applied \in Books :
              /\ applied \in Applied([started EXCEPT !.invalid_gap = @ \/ broken], n)
              /\ applied.last = book.last
              /\ applied.last_native_id = book.last_native_id
              /\ applied.complete = started.complete
              /\ applied.invalid_gap = (started.invalid_gap \/ broken)
              /\ Reports([applied EXCEPT !.last_native_id =
                            IF NativeId(n, reading) # None THEN NativeId(n, reading) ELSE @],
                         Best(applied.levels))
  <1> DEFINE started == Renewed(book, n, reading)
             broken  == Gap(started, n, reading)
             judged  == [started EXCEPT !.invalid_gap = @ \/ broken]
  <1>1. /\ started \in Books
        /\ started.last_native_id = book.last_native_id /\ started.last = book.last
    BY RenewedFields, Zenon
  <1>2. broken \in BOOLEAN
    BY DEF Gap
  <1>3. PICK applied \in Applied(judged, n) :
          Reports([applied EXCEPT !.last_native_id =
                     IF NativeId(n, reading) # None THEN NativeId(n, reading) ELSE @],
                  Best([applied EXCEPT !.last_native_id =
                          IF NativeId(n, reading) # None
                            THEN NativeId(n, reading) ELSE @].levels))
    BY Zenon DEF AnalyzeFrame
  <1> HIDE DEF started, broken
  <1>4. /\ judged \in Books
        /\ judged.invalid_gap = (started.invalid_gap \/ broken)
        /\ judged.complete = started.complete
        /\ judged.last_native_id = started.last_native_id
        /\ judged.last = started.last
    BY <1>1, <1>2 DEF Books
  <1> HIDE DEF judged
  <1>5. /\ applied \in Books
        /\ applied.invalid_gap = judged.invalid_gap
        /\ applied.complete = judged.complete
        /\ applied.last_native_id = judged.last_native_id
        /\ applied.last = judged.last
    BY <1>3, <1>4, AppliedFields
  <1>6. [applied EXCEPT !.last_native_id =
           IF NativeId(n, reading) # None THEN NativeId(n, reading) ELSE @].levels
        = applied.levels
    BY <1>5 DEF Books
  <1>7. Reports([applied EXCEPT !.last_native_id =
                   IF NativeId(n, reading) # None THEN NativeId(n, reading) ELSE @],
                Best(applied.levels))
    BY <1>3, <1>6
  <1>8. /\ applied \in Applied([started EXCEPT !.invalid_gap = @ \/ broken], n)
        /\ applied.last = book.last
        /\ applied.last_native_id = book.last_native_id
        /\ applied.complete = started.complete
        /\ applied.invalid_gap = (started.invalid_gap \/ broken)
    BY <1>1, <1>3, <1>4, <1>5 DEF judged
  <1> QED
    BY <1>5, <1>7, <1>8 DEF started, broken

\* The rows and the book after any book is reported.
LEMMA ReportsKeepsRows ==
  ASSUME NEW state \in Books, rows \in Seq(Bests), state.last = LastRow,
         Reports(state, Best(state.levels))
  PROVE  /\ book' \in Books /\ rows' \in Seq(Bests)
         /\ book'.levels = state.levels /\ book'.complete = state.complete
         /\ book'.invalid_gap = state.invalid_gap /\ book'.capacity = state.capacity
         /\ book'.last_native_id = state.last_native_id
         /\ RowsInv'
         /\ rows' # rows =>
              /\ rows' = Append(rows, Best(book'.levels))
              /\ book'.valid /\ Best(book'.levels) # LastRow
  <1> DEFINE best == Best(state.levels)
  <1>1. best \in Bests
    BY DEF Bests, Books
  <1>2. Usable(state) \in BOOLEAN
    BY DEF Usable
  <1>3. book' = [state EXCEPT !.valid = Usable(state),
                              !.last = IF Usable(state) THEN best ELSE @]
    BY DEF Reports
  <1>4. rows' = IF Usable(state) /\ best # state.last THEN Append(rows, best) ELSE rows
    BY DEF Reports
  <1> HIDE DEF best
  <1>5. /\ book' \in Books
        /\ book'.levels = state.levels /\ book'.complete = state.complete
        /\ book'.invalid_gap = state.invalid_gap /\ book'.capacity = state.capacity
        /\ book'.last_native_id = state.last_native_id
        /\ book'.valid = Usable(state)
        /\ book'.last = IF Usable(state) THEN best ELSE state.last
    BY <1>1, <1>2, <1>3 DEF Books
  <1>6. Best(book'.levels) = best
    BY <1>5 DEF best
  <1>7. Usable(book)' = Usable(state)
    BY <1>5 DEF Usable
  <1>8. /\ rows' \in Seq(Bests)
        /\ LastRow' = IF Usable(state) THEN best ELSE LastRow
    <2>1. CASE Usable(state) /\ best # state.last
      <3>1. /\ rows' = Append(rows, best) /\ Len(rows') = Len(rows) + 1
            /\ rows' \in Seq(Bests) /\ rows' # << >> /\ rows'[Len(rows')] = best
        BY <1>1, <1>4, <2>1
      <3> QED
        BY <2>1, <3>1 DEF LastRow
    <2>2. CASE ~(Usable(state) /\ best # state.last)
      BY <1>4, <2>2 DEF LastRow
    <2> QED
      BY <2>1, <2>2
  <1>9. RowsInv'
    BY <1>2, <1>5, <1>6, <1>7, <1>8 DEF RowsInv
  <1> QED
    BY <1>4, <1>5, <1>6, <1>8, <1>9

LEMMA AnalyzeFrameKeepsIInv ==
  ASSUME IInv, NEW n \in DOMAIN published, NEW reading \in Readings, AnalyzeFrame(n, reading)
  PROVE  /\ IInv'
         /\ rows' # rows =>
              /\ rows' = Append(rows, Best(book'.levels))
              /\ book'.valid /\ Best(book'.levels) # LastRow
  <1> DEFINE started == Renewed(book, n, reading)
             broken  == Gap(started, n, reading)
             judged  == [started EXCEPT !.invalid_gap = @ \/ broken]
             id      == NativeId(n, reading)
             m       == published[n]
  <1>1. PICK applied \in Books :
          /\ applied \in Applied(judged, n)
          /\ applied.last = book.last
          /\ applied.last_native_id = book.last_native_id
          /\ applied.complete = started.complete
          /\ applied.invalid_gap = (started.invalid_gap \/ broken)
          /\ Reports([applied EXCEPT !.last_native_id = IF id # None THEN id ELSE @],
                     Best(applied.levels))
    BY FrameFacts, Zenon
  <1> DEFINE state == [applied EXCEPT !.last_native_id = IF id # None THEN id ELSE @]
  <1>2. /\ seen' = Append(seen, n) /\ UNCHANGED <<mapping, truth, published>>
        /\ unchecked' = (unchecked \/ reading # "whole")
    BY DEF AnalyzeFrame, venue
  <1>3. /\ n \in Nat /\ n >= 1 /\ id \in Nat \cup {None}
        /\ DOMAIN published = 1 .. Len(published) /\ Len(published) \in Nat
        /\ m \in Message
    BY DEF IInv, TypeOK, NativeId
  <1>4. /\ state \in Books
        /\ state.levels = applied.levels /\ state.complete = applied.complete
        /\ state.invalid_gap = applied.invalid_gap /\ state.capacity = applied.capacity
        /\ state.last = applied.last
        /\ state.last_native_id = IF id # None THEN id ELSE applied.last_native_id
    <2> HIDE DEF id
    <2> QED
      BY <1>3 DEF Books
  <1>5. Reports(state, Best(state.levels))
    <2> HIDE DEF id, started, broken
    <2> QED
      BY <1>1, <1>4
  <1>6. /\ book' \in Books /\ rows' \in Seq(Bests) /\ RowsInv'
        /\ book'.levels = applied.levels /\ book'.complete = started.complete
        /\ book'.invalid_gap = (started.invalid_gap \/ broken)
        /\ book'.capacity = applied.capacity
        /\ book'.last_native_id = IF id # None THEN id ELSE book.last_native_id
        /\ rows' # rows =>
             /\ rows' = Append(rows, Best(book'.levels))
             /\ book'.valid /\ Best(book'.levels) # LastRow
    <2> HIDE DEF state, id, started, broken
    <2>1. state.last = LastRow /\ rows \in Seq(Bests)
      BY <1>1, <1>4 DEF IInv, TypeOK, RowsInv
    <2> QED
      BY <1>1, <1>4, <1>5, <2>1, ReportsKeepsRows
  <1>7. ~book'.capacity =>
          ~started.capacity /\ book'.levels = Changed(started.levels, m, m.levels)
    <2>1. started \in Books /\ broken \in BOOLEAN
      BY RenewedFields, Zenon DEF Gap
    <2>2. /\ judged \in Books
          /\ judged.capacity = started.capacity /\ judged.levels = started.levels
      <3> HIDE DEF started, broken
      <3> QED
        BY <2>1 DEF Books
    <2> HIDE DEF started, broken, judged
    <2>3. ~applied.capacity =>
            ~judged.capacity /\ applied.levels = Changed(judged.levels, m, m.levels)
      BY <1>1, <2>2, AppliedFields
    <2> QED
      BY <1>6, <2>2, <2>3
  <1>8. ASSUME reading = "whole", m.snapshot
        PROVE  /\ started.complete /\ ~started.invalid_gap
               /\ ~book'.capacity => book'.levels = truth[n + 1]
    <2>1. started.levels = EmptyLevels /\ started.complete /\ ~started.invalid_gap
      <3>1. started = [book EXCEPT !.levels = EmptyLevels, !.invalid_gap = FALSE,
                                   !.complete = TRUE, !.capacity = FALSE]
        BY <1>8 DEF Renewed
      <3> HIDE DEF started
      <3> QED
        BY <3>1 DEF IInv, TypeOK, Books
    <2>2. m.present /\ truth[n + 1] = m.levels
      BY <1>8 DEF IInv, VenueInv, Follows
    <2>3. Changed(EmptyLevels, m, m.levels) = m.levels
      BY <1>3, <2>2 DEF Changed, EmptyLevels, Message, Levels
    <2> QED
      BY <1>7, <2>1, <2>2, <2>3
  <1>9. ASSUME ~m.snapshot
        PROVE  /\ started = book
               /\ ~book'.capacity /\ (~book.capacity => book.levels = truth[n]) =>
                    book'.levels = truth[n + 1]
    <2>1. started = book
      BY <1>9 DEF Renewed
    <2>2. truth[n + 1] = Changed(truth[n], m, m.levels)
      BY DEF IInv, VenueInv, Follows
    <2> QED
      BY <1>7, <2>1, <2>2
  <1>10. started.last_native_id = book.last_native_id
    BY RenewedFields, Zenon
  <1>11. ASSUME reading = "whole"
         PROVE  /\ mapping.id => id = n /\ book'.last_native_id = n
                /\ PreviousId(n, reading) # None => PreviousId(n, reading) = n - 1 /\ mapping.previous
    <2>1. mapping.id => id = n /\ id # None
      BY <1>3, <1>11 DEF NativeId, None
    <2>2. PreviousId(n, reading) # None => PreviousId(n, reading) = n - 1 /\ mapping.previous
      BY DEF PreviousId
    <2> QED
      BY <1>6, <2>1, <2>2
  <1>12. mapping.previous => mapping.id
    BY DEF IInv, TypeOK
  <1>13. seen \in Seq(DOMAIN published) /\ Len(seen) \in Nat
    BY DEF IInv, TypeOK
  <1>14. /\ Len(seen') = Len(seen) + 1 /\ seen'[Len(seen')] = n
         /\ \A i \in 1 .. Len(seen) : seen'[i] = seen[i]
         /\ DOMAIN seen = 1 .. Len(seen) /\ DOMAIN seen' = 1 .. Len(seen) + 1
         /\ seen' \in Seq(DOMAIN published') /\ seen' # << >>
    BY <1>2, <1>13
  <1>15. TypeOK'
    <2>1. unchecked' \in BOOLEAN
      BY <1>2 DEF IInv, TypeOK
    <2> QED
      BY <1>2, <1>6, <1>14, <2>1 DEF IInv, TypeOK
  <1>16. VenueInv'
    BY <1>2 DEF IInv, VenueInv, Follows
  <1> HIDE DEF started, broken, judged, state, id
  <1>17. TruthInv'
    <2> SUFFICES ASSUME mapping'.previous, ~unchecked', book'.complete,
                        ~book'.invalid_gap, ~book'.capacity
                 PROVE  /\ book'.last_native_id \in DOMAIN published'
                        /\ book'.levels = truth'[book'.last_native_id + 1]
      BY DEF TruthInv
    <2>1. reading = "whole" /\ ~unchecked /\ mapping.previous /\ mapping.id
      BY <1>2, <1>12
    <2>2. book'.last_native_id = n
      BY <1>11, <2>1
    <2>3. CASE m.snapshot
      BY <1>2, <1>8, <2>1, <2>2, <2>3
    <2>4. CASE ~m.snapshot
      <3>1. started = book /\ book.complete /\ ~book.invalid_gap /\ ~broken
        BY <1>6, <1>9, <2>4
      <3>2. ~book.capacity =>
              /\ book.last_native_id \in DOMAIN published
              /\ book.levels = truth[book.last_native_id + 1]
        BY <2>1, <3>1 DEF IInv, TruthInv
      <3>3. PreviousId(n, reading) = n - 1 /\ n - 1 # None
        BY <1>3, <2>1, <2>4 DEF PreviousId, None
      <3>4. book.last_native_id = None \/ book.last_native_id = n - 1
        BY <1>10, <3>1, <3>3 DEF Gap, broken
      <3>5. ~book.capacity => book.levels = truth[n]
        <4>1. None \notin DOMAIN published
          BY <1>3 DEF None
        <4> QED
          BY <1>3, <3>2, <3>4, <4>1
      <3> QED
        BY <1>2, <1>9, <2>2, <2>4, <3>5
    <2> QED
      BY <2>3, <2>4
  <1>18. ASSUME ~unchecked', seen # << >>, n = seen[Len(seen)] + 1
         PROVE  ~broken
    <2>1. seen[Len(seen)] \in Nat
      <3>1. Len(seen) \in DOMAIN seen
        BY <1>13, <1>14, <1>18
      <3>2. seen[Len(seen)] \in DOMAIN published
        BY <1>13, <3>1
      <3> QED
        BY <1>3, <3>2
    <2>2. mapping.id => book.last_native_id = seen[Len(seen)]
      BY <1>2, <1>18 DEF IInv, SeenInv
    <2>3. PreviousId(n, reading) # None => PreviousId(n, reading) = book.last_native_id
      <3>1. reading = "whole"
        BY <1>2, <1>18
      <3>2. PreviousId(n, reading) # None => PreviousId(n, reading) = n - 1 /\ mapping.id
        BY <1>11, <1>12, <3>1
      <3>3. n - 1 = seen[Len(seen)]
        BY <1>18, <2>1
      <3> QED
        BY <2>2, <3>2, <3>3
    <2> QED
      BY <1>10, <2>3 DEF Gap, broken
  <1>19. SeenInv'
    <2>1. ~unchecked' /\ mapping'.id /\ seen' # << >> => book'.last_native_id = seen'[Len(seen')]
      BY <1>2, <1>11, <1>14
    <2>2. ASSUME NEW i \in DOMAIN seen', ~unchecked', Unbroken(i)'
          PROVE  /\ ~book'.invalid_gap /\ book'.complete
                 /\ ~book'.capacity => book'.levels = truth'[seen'[Len(seen')] + 1]
      <3>1. reading = "whole" /\ ~unchecked
        BY <1>2, <2>2
      <3>2. /\ published[seen'[i]].snapshot
            /\ mapping.linked_snapshots /\ i # 1 => seen'[i] = seen'[i - 1] + 1
            /\ \A j \in i + 1 .. Len(seen') : seen'[j] = seen'[j - 1] + 1
        BY <1>2, <2>2 DEF Unbroken
      <3>3. i \in 1 .. Len(seen) \/ i = Len(seen) + 1
        BY <1>13, <1>14
      <3>4. CASE i = Len(seen) + 1
        <4>1. m.snapshot
          BY <1>14, <3>2, <3>4
        <4>2. ~broken
          <5>1. CASE seen = << >>
            <6>1. book.last_native_id = None
              BY <5>1 DEF IInv, SeenInv, EmptyBook
            <6> QED
              BY <1>10, <6>1 DEF Gap, broken
          <5>2. CASE seen # << >> /\ mapping.linked_snapshots
            <6>1. Len(seen) \in 1 .. Len(seen) /\ i # 1 /\ i - 1 = Len(seen)
              BY <1>13, <3>4, <5>2
            <6>2. n = seen[Len(seen)] + 1
              BY <1>14, <3>2, <3>4, <5>2, <6>1
            <6> QED
              BY <1>18, <2>2, <5>2, <6>2
          <5>3. CASE ~mapping.linked_snapshots
            <6>1. PreviousId(n, reading) = None
              BY <4>1, <5>3 DEF PreviousId
            <6> QED
              BY <6>1 DEF Gap, broken
          <5> QED
            BY <5>1, <5>2, <5>3
        <4> QED
          BY <1>2, <1>6, <1>8, <1>14, <3>1, <4>1, <4>2
      <3>5. CASE i \in 1 .. Len(seen)
        <4>1. /\ Len(seen) \in 1 .. Len(seen) /\ seen # << >>
              /\ i + 1 <= Len(seen) + 1 /\ i - 1 \in 0 .. Len(seen)
          BY <1>13, <3>5
        <4>2. n = seen[Len(seen)] + 1
          <5>1. Len(seen) + 1 \in i + 1 .. Len(seen')
            BY <1>13, <1>14, <3>5
          <5>2. seen'[Len(seen) + 1] = seen'[(Len(seen) + 1) - 1] + 1
            BY <3>2, <5>1
          <5>3. (Len(seen) + 1) - 1 = Len(seen) /\ seen'[Len(seen)] = seen[Len(seen)]
            BY <1>13, <1>14, <4>1
          <5> QED
            BY <1>14, <5>2, <5>3
        <4>3. Unbroken(i)
          <5>1. seen'[i] = seen[i] /\ (i # 1 => seen'[i - 1] = seen[i - 1])
            BY <1>13, <1>14, <3>5
          <5>2. ASSUME NEW j \in i + 1 .. Len(seen)
                PROVE  seen[j] = seen[j - 1] + 1
            <6>1. j \in 1 .. Len(seen) /\ j - 1 \in 1 .. Len(seen) /\ j \in i + 1 .. Len(seen')
              BY <1>13, <1>14, <3>5
            <6> QED
              BY <1>14, <3>2, <6>1
          <5> QED
            BY <3>2, <5>1, <5>2 DEF Unbroken
        <4>4. /\ ~book.invalid_gap /\ book.complete
              /\ ~book.capacity => book.levels = truth[n]
          BY <1>14, <3>1, <3>5, <4>2, <4>3 DEF IInv, SeenInv
        <4>5. ~broken
          BY <1>18, <2>2, <4>1, <4>2
        <4>6. CASE m.snapshot
          BY <1>2, <1>6, <1>8, <1>14, <3>1, <4>5, <4>6
        <4>7. CASE ~m.snapshot
          BY <1>2, <1>6, <1>9, <1>14, <4>4, <4>5, <4>7
        <4> QED
          BY <4>6, <4>7
      <3> QED
        BY <3>3, <3>4, <3>5
    <2> QED
      BY <1>14, <2>1, <2>2 DEF SeenInv
  <1> QED
    BY <1>6, <1>15, <1>16, <1>17, <1>19 DEF IInv

LEMMA NextKeepsIInv == IInv /\ [Next]_vars => IInv'
  <1> SUFFICES ASSUME IInv, [Next]_vars PROVE IInv'
    OBVIOUS
  <1>1. CASE Publish
    BY <1>1, PublishKeepsIInv
  <1>2. ASSUME NEW n \in DOMAIN published, NEW reading \in Readings, AnalyzeFrame(n, reading)
        PROVE  IInv'
    BY <1>2, AnalyzeFrameKeepsIInv
  <1>3. CASE UNCHANGED vars
    BY <1>3 DEF vars, venue, IInv, TypeOK, VenueInv, Follows, TruthInv, SeenInv, Unbroken,
                RowsInv, LastRow, Usable
  <1> QED
    BY <1>1, <1>2, <1>3 DEF Next, Done

-----------------------------------------------------------------------------
(* The theorems *)

\* The invariant of the reconstruction holds in every behaviour.
THEOREM BookInvariant == Spec => []IInv
  BY InitIInv, NextKeepsIInv, PTL DEF Spec

\* Type correctness of the reconstruction.
THEOREM BookTypeCorrect == Spec => []TypeOK
  <1>1. IInv => TypeOK
    BY DEF IInv
  <1> QED
    BY <1>1, BookInvariant, PTL

\* A valid, complete book whose deltas name their predecessors is the venue's
\* as of the message it last saw, whatever the bundle lost or repeated.
THEOREM BookIsTheVenues == Spec => []ReconstructionIsTrue
  <1>1. IInv => ReconstructionIsTrue
    BY DEF IInv, RowsInv, Usable, TruthInv, ReconstructionIsTrue
  <1> QED
    BY <1>1, BookInvariant, PTL

\* A book whose messages since some whole book are unbroken, with every level
\* kept, is complete and the venue's, and valid if the venue has both sides:
\* what was lost before that whole book no longer hides it.
THEOREM UnbrokenBooksAreValid == Spec => []UnbrokenBookIsValid
  <1>1. ASSUME IInv, ~unchecked, ~book.capacity, NEW i \in DOMAIN seen, Unbroken(i)
        PROVE  LET now == truth[seen[Len(seen)] + 1]
               IN /\ book.complete /\ book.levels = now
                  /\ now["bids"] # {} /\ now["asks"] # {} => book.valid
    <2> DEFINE last == seen[Len(seen)]
    <2>1. /\ ~book.invalid_gap /\ book.complete /\ book.levels = truth[last + 1]
          /\ book \in Books
      BY <1>1 DEF IInv, TypeOK, SeenInv
    <2>2. last + 1 \in DOMAIN truth
      BY <1>1 DEF IInv, TypeOK, VenueInv
    <2>3. Uncrossed(book.levels)
      BY <1>1, <2>1, <2>2 DEF IInv, VenueInv
    <2>4. book.levels["bids"] # {} /\ book.levels["asks"] # {} => book.valid
      BY <1>1, <2>1, <2>3, UncrossedIsUsable DEF IInv, RowsInv
    <2> QED
      BY <2>1, <2>4
  <1>2. IInv => UnbrokenBookIsValid
    BY <1>1 DEF UnbrokenBookIsValid
  <1> QED
    BY <1>2, BookInvariant, PTL

\* Every step: a row is appended of a valid book only, with its best prices and
\* never those of the row before it; and a valid book's are always the last row's.
THEOREM RowsAreTheBook == Spec => RowsFollowTheBook
  <1> DEFINE Step == LET best == Best(book'.levels)
                     IN /\ rows' # rows =>
                             rows' = Append(rows, best) /\ book'.valid /\ best # LastRow
                        /\ book'.valid => LastRow' = best
  <1>1. ASSUME IInv, IInv', [Next]_vars
        PROVE  [Step]_vars
    <2>1. book'.valid => LastRow' = Best(book'.levels)
      BY <1>1 DEF IInv, RowsInv
    <2>2. rows' # rows =>
            rows' = Append(rows, Best(book'.levels)) /\ book'.valid /\ Best(book'.levels) # LastRow
      <3>1. CASE Publish
        BY <3>1 DEF Publish
      <3>2. ASSUME NEW n \in DOMAIN published, NEW reading \in Readings, AnalyzeFrame(n, reading)
            PROVE  rows' # rows =>
                     /\ rows' = Append(rows, Best(book'.levels))
                     /\ book'.valid /\ Best(book'.levels) # LastRow
        BY <1>1, <3>2, AnalyzeFrameKeepsIInv
      <3>3. CASE UNCHANGED vars
        BY <3>3 DEF vars
      <3> QED
        BY <1>1, <3>1, <3>2, <3>3 DEF Next, Done
    <2> QED
      BY <2>1, <2>2
  <1> QED
    BY <1>1, BookInvariant, PTL DEF Spec, RowsFollowTheBook
=============================================================================
