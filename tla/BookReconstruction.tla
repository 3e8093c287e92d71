-------------------------- MODULE BookReconstruction --------------------------
(***************************************************************************)
(* The book of one depth channel and round as analyze_research_bundle      *)
(* rebuilds it (src/src/Research/ResearchAnalysis.cpp, Analysis/Book.cpp,  *)
(* Analysis/Normalization.cpp), against the venue that published it.       *)
(*                                                                         *)
(* The venue numbers its messages; a bundle holds any of them, in any      *)
(* order and any number of times: sessions lose messages and come back,    *)
(* venues repeat themselves.  A quantity is zero or not, ids and prices    *)
(* are the numbers their texts stand for.                                  *)
(***************************************************************************)
EXTENDS Integers, Sequences, FiniteSets, FiniteSetsExt

CONSTANTS
  MaxPrice,       \* bound: prices are 1..MaxPrice
  MaxLevels,      \* kMaximumBookLevelsPerSide
  FirstBooks,     \* the books the venue may have before its first message
  MaxPublished,   \* bound: messages of the venue
  MaxFrames       \* bound: frames of the channel in the bundle

Price  == 1..MaxPrice
Side   == {"bids", "asks"}
Levels == [Side -> SUBSET Price]
None   == 0 - 1           \* an id or a best price that is not there

Uncrossed(levels) == \A b \in levels["bids"], a \in levels["asks"] : b < a

ASSUME BookAssumption ==
  /\ {MaxPrice, MaxLevels, MaxPublished, MaxFrames} \subseteq Nat \ {0}
  /\ FirstBooks \subseteq {levels \in Levels : Uncrossed(levels)}

VARIABLES
  mapping,    \* what the profile's mapping finds: [id, previous, linked_snapshots],
              \* and whether it declares gzip
  truth,      \* the venue: its book before and after each message
  published,  \* the venue's messages: [snapshot, side, price, present]
  seen,       \* the frames analysed: the numbers of the messages they hold
  book,       \* BookState
  rows,       \* state_transitions.jsonl: the best prices of each row of the channel
  observed,   \* full_reconstruction_observed
  gaps,
  out_of_order,
  unchecked   \* ghost: levels were applied of a message whose ids were not seen

venue == <<mapping, truth, published>>
vars  == <<venue, seen, book, rows, observed, gaps, out_of_order, unchecked>>

EmptyLevels == [side \in Side |-> {}]

EmptyBook ==
  [levels |-> EmptyLevels, invalid_gap |-> FALSE, complete |-> FALSE, capacity |-> FALSE,
   last_native_id |-> None, last |-> <<None, None>>, valid |-> FALSE]

\* best_levels.
Best(levels) ==
  <<IF levels["bids"] = {} THEN None ELSE Max(levels["bids"]),
    IF levels["asks"] = {} THEN None ELSE Min(levels["asks"])>>

Init ==
  /\ mapping \in [id : BOOLEAN, previous : BOOLEAN, linked_snapshots : BOOLEAN, gzip : BOOLEAN]
  /\ mapping.previous => mapping.id
  /\ mapping.linked_snapshots => mapping.previous
  /\ \E first \in FirstBooks : truth = <<first>>
  /\ published = << >>
  /\ seen = << >>
  /\ book = EmptyBook
  /\ rows = << >>
  /\ observed = FALSE
  /\ gaps = 0
  /\ out_of_order = 0
  /\ unchecked = FALSE

-----------------------------------------------------------------------------
(* The venue: deltas of one level, or its whole book *)

Current == truth[Len(truth)]

\* Levels after the part of message m that is applied to them.
Changed(levels, m, part) ==
  [side \in Side |-> IF m.present THEN levels[side] \cup part[side] ELSE levels[side] \ part[side]]

WholeBook == [snapshot |-> TRUE, present |-> TRUE, levels |-> Current]

Delta(side, price, present) ==
  [snapshot |-> FALSE, present |-> present, levels |-> [EmptyLevels EXCEPT ![side] = {price}]]

Says(m) ==
  LET next == Changed(Current, m, m.levels)
  IN /\ Uncrossed(next)
     /\ published' = Append(published, m)
     /\ truth' = Append(truth, next)

Publish ==
  /\ Len(published) < MaxPublished
  /\ seen = << >>
  /\ \/ Says(WholeBook)
     \/ \E side \in Side, price \in Price, present \in BOOLEAN :
          /\ present \/ price \in Current[side]
          /\ Says(Delta(side, price, present))
  /\ UNCHANGED <<mapping, seen, book, rows, observed, gaps, out_of_order, unchecked>>

-----------------------------------------------------------------------------
(* The analysis of a frame that holds message number n *)

\* How a payload can be read: as it is meant; with fields too long to keep
\* (enforce_normalized_capacity clears them all); or as plain JSON where gzip is
\* declared, which does not decompress and is an event without any field.
Readings == {"whole", "cleared"} \cup (IF mapping.gzip THEN {"undecoded"} ELSE {})

\* normalize_event: what the mapping finds of the ids.
NativeId(n, reading) == IF reading = "whole" /\ mapping.id THEN n ELSE None

PreviousId(n, reading) ==
  IF reading = "whole" /\ mapping.previous /\ (published[n].snapshot => mapping.linked_snapshots)
    THEN n - 1 ELSE None

\* native_id_less, on ids that are numbers.
NativeIdLess(lhs, rhs) == lhs < rhs

\* Faulty variant: only a snapshot looks at what its predecessor was.
Gap_AtSnapshotsOnly(state, n, reading) ==
  /\ published[n].snapshot
  /\ PreviousId(n, reading) # None
  /\ state.last_native_id # None
  /\ PreviousId(n, reading) # state.last_native_id

Gap(state, n, reading) ==
  /\ PreviousId(n, reading) # None
  /\ state.last_native_id # None
  /\ PreviousId(n, reading) # state.last_native_id

\* Faulty variant: a snapshot does not take the gap before it away.
Renewed_KeepsGap(state, n, reading) ==
  IF reading # "undecoded" /\ published[n].snapshot
    THEN [state EXCEPT !.levels = EmptyLevels, !.complete = TRUE, !.capacity = FALSE]
    ELSE state

\* A snapshot starts the book anew; an event that was not decoded is none.
Renewed(state, n, reading) ==
  IF reading # "undecoded" /\ published[n].snapshot
    THEN [state EXCEPT !.levels = EmptyLevels, !.invalid_gap = FALSE,
                       !.complete = TRUE, !.capacity = FALSE]
    ELSE state

\* apply_levels of what message n carries: a level whose price or quantity is
\* too long to keep and a new one on a full side are left out, whatever the
\* others are, and the book says so from then on.
Applied(state, n) ==
  LET m == published[n] IN
  {[state EXCEPT !.levels = Changed(@, m, part), !.capacity = @ \/ part # m.levels] :
     part \in {kept \in [Side -> SUBSET Price] :
                 \A side \in Side :
                   /\ kept[side] \subseteq m.levels[side]
                   /\ Cardinality(Changed(state.levels, m, kept)[side]) <= MaxLevels}}

Usable(state) ==
  LET best == Best(state.levels)
  IN /\ ~state.invalid_gap
     /\ best[1] # None /\ best[2] # None
     /\ ~state.capacity
     /\ best[1] < best[2]

\* Faulty variant: the book remembers its best prices, reported or not.
Reports_Anything(state, best) ==
  /\ rows' = IF Usable(state) /\ best # state.last THEN Append(rows, best) ELSE rows
  /\ book' = [state EXCEPT !.valid = Usable(state), !.last = best]

\* Faulty variant: the best prices of a row are forgotten with the gap after it.
Reports_Forgetful(state, best) ==
  /\ rows' = IF Usable(state) /\ best # state.last THEN Append(rows, best) ELSE rows
  /\ book' = [state EXCEPT !.valid = Usable(state),
                           !.last = IF Usable(state) THEN best ELSE <<None, None>>]

\* A row for a usable book whose best prices are not those of its last row.
Reports(state, best) ==
  /\ rows' = IF Usable(state) /\ best # state.last THEN Append(rows, best) ELSE rows
  /\ book' = [state EXCEPT !.valid = Usable(state),
                           !.last = IF Usable(state) THEN best ELSE @]

\* A frame of the channel: whatever became of its fields, its levels count.
AnalyzeFrame(n, reading) ==
  LET started == Renewed(book, n, reading)
      broken  == Gap(started, n, reading)
      id      == NativeId(n, reading)
  IN /\ Len(seen) < MaxFrames
     /\ reading \in Readings
     /\ seen' = Append(seen, n)
     /\ gaps' = gaps + (IF broken THEN 1 ELSE 0)
     /\ out_of_order' = out_of_order +
          (IF id # None /\ started.last_native_id # None
              /\ NativeIdLess(id, started.last_native_id) THEN 1 ELSE 0)
     /\ \E applied \in Applied([started EXCEPT !.invalid_gap = @ \/ broken], n) :
          LET state == [applied EXCEPT !.last_native_id = IF id # None THEN id ELSE @]
          IN /\ Reports(state, Best(state.levels))
             /\ observed' = (observed \/ (Usable(state) /\ state.complete))
     /\ unchecked' = (unchecked \/ reading # "whole")
     /\ UNCHANGED venue

Done == Len(seen) = MaxFrames /\ UNCHANGED vars

Next ==
  \/ Publish
  \/ \E n \in DOMAIN published, reading \in Readings : AnalyzeFrame(n, reading)
  \/ Done

Spec == Init /\ [][Next]_vars

-----------------------------------------------------------------------------
\* A valid and complete book is the venue's, as of the message it last saw,
\* whatever was lost, repeated or reordered on the way, where the mapping
\* finds the predecessor of every delta and no payload slipped in without its
\* ids (ResearchAnalysis.cpp:213, 236).
ReconstructionIsTrue ==
  mapping.previous /\ ~unchecked /\ book.valid /\ book.complete =>
    book.levels = truth[book.last_native_id + 1]

\* The messages since the one that frame i holds are the venue's, in its order
\* and each once, and that one was its whole book; a whole book that names its
\* predecessor, which the first frame of a channel cannot miss, follows it.
Unbroken(i) ==
  /\ published[seen[i]].snapshot
  /\ mapping.linked_snapshots /\ i # 1 => seen[i] = seen[i - 1] + 1
  /\ \A j \in i + 1 .. Len(seen) : seen[j] = seen[j - 1] + 1

\* A book is withheld no longer than its gap: when the messages since some whole
\* book came one after the other, with every level kept, the book is complete
\* and the venue's, and valid if the venue has both sides, whatever was lost,
\* repeated or reordered before (ResearchAnalysis.cpp:209, 213).
UnbrokenBookIsValid ==
  ~unchecked /\ ~book.capacity /\ (\E i \in DOMAIN seen : Unbroken(i)) =>
    LET now == truth[seen[Len(seen)] + 1]
    IN /\ book.complete /\ book.levels = now
       /\ now["bids"] # {} /\ now["asks"] # {} => book.valid

LastRow == IF rows = << >> THEN <<None, None>> ELSE rows[Len(rows)]

\* A row is written of a valid book only, with its best bid and ask, and never
\* the row that is already the last one, across gaps and new snapshots; and
\* whenever a frame leaves the book valid, its best prices are those of the last
\* row (ResearchAnalysis.cpp:243).
RowsFollowTheBook ==
  [][LET best == Best(book'.levels)
     IN /\ rows' # rows => rows' = Append(rows, best) /\ book'.valid /\ best # LastRow
        /\ book'.valid => LastRow' = best]_vars

-----------------------------------------------------------------------------
(* The invariant behind them *)

Message == [snapshot : BOOLEAN, present : BOOLEAN, levels : Levels]

Bests == {<<None, None>>} \cup {Best(levels) : levels \in Levels}

Books ==
  [levels : Levels, invalid_gap : BOOLEAN, complete : BOOLEAN, capacity : BOOLEAN,
   last_native_id : Nat \cup {None}, last : Bests, valid : BOOLEAN]

TypeOK ==
  /\ mapping \in [id : BOOLEAN, previous : BOOLEAN, linked_snapshots : BOOLEAN, gzip : BOOLEAN]
  /\ mapping.previous => mapping.id
  /\ truth \in Seq(Levels)
  /\ published \in Seq(Message)
  /\ seen \in Seq(DOMAIN published)
  /\ rows \in Seq(Bests)
  /\ book \in Books
  /\ unchecked \in BOOLEAN

\* What message n made of the venue's book.
Follows(n) ==
  LET m == published[n]
  IN /\ truth[n + 1] = Changed(truth[n], m, m.levels)
     /\ m.snapshot => truth[n + 1] = m.levels /\ m.present

VenueInv ==
  /\ Len(truth) = Len(published) + 1
  /\ \A n \in DOMAIN published : Follows(n)
  /\ \A n \in DOMAIN truth : Uncrossed(truth[n])

\* A book without a gap is the venue's as of the last message, valid or not.
TruthInv ==
  mapping.previous /\ ~unchecked /\ book.complete /\ ~book.invalid_gap /\ ~book.capacity =>
    /\ book.last_native_id \in DOMAIN published
    /\ book.levels = truth[book.last_native_id + 1]

\* What the frames seen have made of the book.
SeenInv ==
  /\ seen = << >> => book = EmptyBook /\ rows = << >>
  /\ ~unchecked /\ mapping.id /\ seen # << >> => book.last_native_id = seen[Len(seen)]
  /\ \A i \in DOMAIN seen :
       ~unchecked /\ Unbroken(i) =>
         /\ ~book.invalid_gap /\ book.complete
         /\ ~book.capacity => book.levels = truth[seen[Len(seen)] + 1]

RowsInv ==
  /\ book.last = LastRow
  /\ book.valid = Usable(book)
  /\ book.valid => book.last = Best(book.levels)

IInv == TypeOK /\ VenueInv /\ TruthInv /\ SeenInv /\ RowsInv
=============================================================================
