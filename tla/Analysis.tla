------------------------------- MODULE Analysis -------------------------------
(***************************************************************************)
(* analyze_research_bundle (src/src/Research/ResearchAnalysis.cpp) over    *)
(* the events of one bundle: its relations                                 *)
(* (src/src/Research/Analysis/Relations.cpp), the files it derives and     *)
(* their order.  BookReconstruction is about the books.                    *)
(*                                                                         *)
(* The events are what normalisation makes of the frames, in the order of  *)
(* the index, so that their time never goes back.  The analysis may fail   *)
(* or end with its process anywhere, and be run again.                     *)
(***************************************************************************)
EXTENDS Integers, Sequences, FiniteSets, FiniteSetsExt, SequencesExt

CONSTANTS
  Events,             \* events a frame can come to
  MaxEvents,          \* bound: frames of the bundle
  MaxAnalyses,        \* bound: times the bundle is analysed
  Window,             \* kMarketEffectWindowNs
  MaxCandidates,      \* kMaximumMarketCandidatesPerEvent
  MaximumRelations,   \* kMaximumRelations
  Rooms               \* kMaximumDerivedJsonlBytes, as the rows of relations.jsonl it may
                      \* be room for: they differ in length

ASSUME AnalysisAssumption ==
  {MaxEvents, MaxAnalyses, Window, MaxCandidates, MaximumRelations} \cup Rooms \subseteq Nat

\* The value of a field that may hold one: std::optional, or a string that is empty.
Optional(field) == \A v, w \in field : v = w

ASSUME EventsAssumption ==
  \A e \in Events :
    /\ e.at \in Nat
    /\ Optional(e.native_id)
    /\ Optional(e.exchange_event_ns)
    /\ Optional(e.exchange_transaction_ns)
    /\ Optional(e.bbo)
    /\ Optional(e.price)

Modes == {"identity", "event_time", "transaction_time", "state", "market_effect"}

VARIABLES
  content,     \* the events the frames of the bundle come to
  room,        \* the rows of relations.jsonl that fit
  stage,       \* of the analysis: "idle", "frames", "relations", "summary", "done", "failed"
  analyses,    \* analyses begun
  events,      \* vector of NormalizedEvent
  target,      \* events related so far
  index,       \* the last event of every key: identity_index, exchange_time_index, ...
  recent,      \* recent_market_events
  relations,   \* the rows: [mode, source, target]
  relation_id,
  output_full, \* relation_output_full
  dropped,     \* relation_candidates_dropped
  files        \* the bundle's derived files: "absent", "partial", "whole"

bundle   == <<content, room>>
relating == <<target, index, recent, relations, relation_id, output_full, dropped>>
vars     == <<bundle, stage, analyses, events, relating, files>>

Derived == {"events", "states", "relations"}
Summary == {"findings", "report"}

InTime(sequence) ==
  \A i, j \in 1..Len(sequence) : i <= j => sequence[i].at <= sequence[j].at

NoIndex == [mode \in Modes \ {"market_effect"} |-> << >>]

Init ==
  /\ content \in {s \in BoundedSeq(Events, MaxEvents) : InTime(s)}
  /\ room \in Rooms
  /\ stage = "idle"
  /\ analyses = 0
  /\ events = << >>
  /\ target = 0
  /\ index = NoIndex
  /\ recent = << >>
  /\ relations = << >>
  /\ relation_id = 0
  /\ output_full = FALSE
  /\ dropped = 0
  /\ files = [f \in Derived \cup Summary |-> "absent"]

-----------------------------------------------------------------------------
(* The frames *)

\* The manifest, the index and the outputs are in order: the outputs are
\* opened, and what they held is gone.
Open ==
  /\ stage \in {"idle", "done", "failed"}
  /\ analyses < MaxAnalyses
  /\ analyses' = analyses + 1
  /\ stage' = "frames"
  /\ events' = << >>
  /\ target' = 0
  /\ index' = NoIndex
  /\ recent' = << >>
  /\ relations' = << >>
  /\ relation_id' = 0
  /\ output_full' = FALSE
  /\ dropped' = 0
  /\ files' = [f \in DOMAIN files |-> IF f \in Derived THEN "partial" ELSE files[f]]
  /\ UNCHANGED bundle

AddEvent ==
  /\ stage = "frames"
  /\ Len(events) < Len(content)
  /\ events' = Append(events, content[Len(events) + 1])
  /\ UNCHANGED <<bundle, stage, analyses, relating, files>>

EndOfFrames ==
  /\ stage = "frames"
  /\ Len(events) = Len(content)
  /\ stage' = "relations"
  /\ UNCHANGED <<bundle, analyses, events, relating, files>>

\* A frame that cannot be read, a derived file that grows too large, or the
\* end of the process.
Fail ==
  /\ stage \in {"frames", "relations", "summary"}
  /\ stage' = "failed"
  /\ UNCHANGED <<bundle, analyses, events, relating, files>>

-----------------------------------------------------------------------------
(* The relations of one event *)

\* A field of an event is a set: it holds the value, or nothing.
Book(e) == e.kind \in {"BookTicker", "Depth"}

Field(mode, e) ==
  CASE mode = "identity"         -> e.native_id
    [] mode = "event_time"       -> e.exchange_event_ns
    [] mode = "transaction_time" -> e.exchange_transaction_ns
    [] mode = "state"            -> IF Book(e) THEN e.bbo ELSE {}

\* What an event is indexed by, if it has such a key.
Keys(mode, e) == {<<e.round, value>> : value \in Field(mode, e)}

\* The last event before with the same key, if it is of another channel.
Linked(mode, e) ==
  {j \in {index[mode][key] : key \in Keys(mode, e) \cap DOMAIN index[mode]} :
     events[j].channel # e.channel}

\* A trade of one channel that touches or crosses the best prices of another.
MarketEffect(source, e) ==
  LET book  == IF Book(source) THEN source ELSE e
      trade == IF source.kind = "Trade" THEN source ELSE e
  IN /\ source.round = e.round
     /\ source.channel # e.channel
     /\ \/ Book(source) /\ e.kind = "Trade"
        \/ Book(e) /\ source.kind = "Trade"
     /\ \E price \in trade.price, best \in book.bbo : price <= best[1] \/ price >= best[2]

TooOld(j, e) == events[j].at + Window < e.at

\* The window, once what is too old has left it by its front.
InWindow(e) ==
  LET front == CHOOSE k \in 1..(Len(recent) + 1) :
                 /\ \A n \in 1..(k - 1) : TooOld(recent[n], e)
                 /\ k <= Len(recent) => ~TooOld(recent[k], e)
  IN SubSeq(recent, front, Len(recent))

\* Faulty variant: a row that does not fit leaves the file open for the next.
Emitted_TooLate(out, row) ==
  IF out.id >= MaximumRelations \/ Len(out.rows) >= room
    THEN [out EXCEPT !.id = @ + 1, !.full = TRUE]
    ELSE [out EXCEPT !.id = @ + 1, !.rows = Append(@, row)]

\* emit_relation, and its caller: the id is taken before the room for the row is
\* known, and once the file is full nothing is written any more.
Emitted(out, row) ==
  IF out.full \/ out.id >= MaximumRelations
    THEN [out EXCEPT !.full = TRUE, !.dropped = @ + 1]
    ELSE IF Len(out.rows) >= room
      THEN [out EXCEPT !.id = @ + 1, !.full = TRUE, !.dropped = @ + 1]
      ELSE [out EXCEPT !.id = @ + 1, !.rows = Append(@, row)]

\* What is looked at for one event, in the order of the code: each is a set that
\* holds the row to write, or nothing.
Row(mode, j, i) == [mode |-> mode, source |-> j, target |-> i]

Of(mode, i) == {Row(mode, j, i) : j \in Linked(mode, events[i])}

Candidates(i) ==
  LET latest == Reverse(InWindow(events[i]))
  IN <<Of("identity", i), Of("event_time", i), Of("transaction_time", i), Of("state", i)>>
       \o [k \in 1..Min({MaxCandidates, Len(latest)}) |->
             IF MarketEffect(events[latest[k]], events[i])
               THEN {Row("market_effect", latest[k], i)} ELSE {}]

Considered(out, found) ==
  IF found = {} THEN out ELSE Emitted(out, CHOOSE row \in found : TRUE)

\* Faulty variant: an index keeps the first event of a key.
Indexed_First(mode, i) ==
  [key \in DOMAIN index[mode] \cup Keys(mode, events[i]) |->
     IF key \in DOMAIN index[mode] THEN index[mode][key] ELSE i]

Indexed(mode, i) ==
  [key \in DOMAIN index[mode] \cup Keys(mode, events[i]) |->
     IF key \in Keys(mode, events[i]) THEN i ELSE index[mode][key]]

Relate ==
  LET i   == target + 1
      e   == events[i]
      out == FoldLeft(Considered,
                      [rows |-> relations, id |-> relation_id, full |-> output_full,
                       dropped |-> dropped],
                      Candidates(i))
  IN /\ stage = "relations"
     /\ target < Len(events)
     /\ target' = i
     /\ relations' = out.rows
     /\ relation_id' = out.id
     /\ output_full' = out.full
     /\ dropped' = out.dropped + (IF Len(InWindow(e)) > MaxCandidates THEN 1 ELSE 0)
     /\ index' = [mode \in DOMAIN index |-> Indexed(mode, i)]
     /\ recent' = InWindow(e) \o (IF Book(e) \/ e.kind = "Trade" THEN <<i>> ELSE << >>)
     /\ UNCHANGED <<bundle, stage, analyses, events, files>>

-----------------------------------------------------------------------------
(* The files *)

\* Faulty variant: the findings are written whatever became of the rows.
FlushDerived_Unchecked ==
  /\ stage = "relations"
  /\ target = Len(events)
  /\ \E written \in SUBSET Derived :
       /\ files' = [f \in DOMAIN files |-> IF f \in written THEN "whole" ELSE files[f]]
       /\ stage' = "summary"
  /\ UNCHANGED <<bundle, analyses, events, relating>>

\* All three are flushed before any of them is looked at.
FlushDerived ==
  /\ stage = "relations"
  /\ target = Len(events)
  /\ \E written \in SUBSET Derived :
       /\ files' = [f \in DOMAIN files |-> IF f \in written THEN "whole" ELSE files[f]]
       /\ stage' = IF written = Derived THEN "summary" ELSE "failed"
  /\ UNCHANGED <<bundle, analyses, events, relating>>

\* Both are opened, which empties them, and written.
WriteSummary ==
  /\ stage = "summary"
  /\ \E written \in SUBSET Summary :
       /\ files' = [f \in DOMAIN files |-> IF f \in Derived THEN files[f]
                                           ELSE IF f \in written THEN "whole" ELSE "partial"]
       /\ stage' = IF written = Summary THEN "done" ELSE "failed"
  /\ UNCHANGED <<bundle, analyses, events, relating>>

Over == stage \in {"done", "failed"} /\ UNCHANGED vars

AnalysisNext ==
  \/ Open \/ AddEvent \/ EndOfFrames \/ Fail
  \/ Relate \/ FlushDerived \/ WriteSummary

AnalysisSpec == Init /\ [][AnalysisNext \/ Over]_vars

-----------------------------------------------------------------------------
(* What the relations should be, from the events alone *)

Follows(mode, j, i) ==
  LET Shared(k) == Keys(mode, events[k]) \cap Keys(mode, events[i]) # {}
  IN Shared(j) /\ \A k \in (j + 1)..(i - 1) : ~Shared(k)

Effect(j, i) == events[i].at - events[j].at <= Window /\ MarketEffect(events[j], events[i])

Expected ==
  {r \in [mode : Modes, source : 1..target, target : 1..target] :
     /\ r.source < r.target
     /\ events[r.source].channel # events[r.target].channel
     /\ IF r.mode = "market_effect" THEN Effect(r.source, r.target)
                                    ELSE Follows(r.mode, r.source, r.target)}

Rows == {relations[i] : i \in DOMAIN relations}

\* A relation is always an observation of two events that the events themselves
\* bear out, and it is there once; unless relation_candidates_dropped says
\* otherwise none of them is missing (ResearchAnalysis.cpp:301, 378, 401).
RelationsAreObservations ==
  /\ Rows \subseteq Expected
  /\ Cardinality(Rows) = Len(relations)
  /\ dropped = 0 => Rows = Expected

\* The number of relations the findings report is that of the rows, or one more
\* when the file is full by its bytes, and what is missing is counted as dropped
\* (Relations.cpp:16, 20, 35).
RelationsAreCounted ==
  /\ relation_id \in {Len(relations), Len(relations) + 1}
  /\ relation_id # Len(relations) => output_full
  /\ output_full => dropped > 0

\* Findings and report are written last: when they are whole, so are the rows
\* they count, as long as nobody has begun to analyse the bundle anew
\* (ResearchAnalysis.cpp:419).
FindingsComeLast ==
  analyses = 1 /\ (\E f \in Summary : files[f] = "whole") =>
    \A f \in Derived : files[f] = "whole"

-----------------------------------------------------------------------------
(* The invariant behind them *)

Stages == {"idle", "frames", "relations", "summary", "done", "failed"}

TypeOK ==
  /\ content \in Seq(Events)
  /\ InTime(content)
  /\ room \in Rooms
  /\ stage \in Stages
  /\ analyses \in Nat
  /\ events \in Seq(Events)
  /\ Len(events) <= Len(content)
  /\ \A i \in 1..Len(events) : events[i] = content[i]
  /\ target \in 0..Len(events)
  /\ stage \in {"idle", "frames"} => target = 0
  /\ relations \in Seq([mode : Modes, source : Nat, target : Nat])
  /\ relation_id \in Nat
  /\ output_full \in BOOLEAN
  /\ dropped \in Nat

\* An index holds, for every key of an event so far, the last event with it.
IndexInv ==
  /\ DOMAIN index = Modes \ {"market_effect"}
  /\ \A mode \in DOMAIN index :
       /\ \A i \in 1..target : Keys(mode, events[i]) \subseteq DOMAIN index[mode]
       /\ \A key \in DOMAIN index[mode] :
            /\ index[mode][key] \in 1..target
            /\ key \in Keys(mode, events[index[mode][key]])
            /\ \A i \in (index[mode][key] + 1)..target : key \notin Keys(mode, events[i])

\* The window is in order, and what of the market it misses is too old.
Market(e) == Book(e) \/ e.kind = "Trade"

WindowInv ==
  /\ recent \in Seq(1..target)
  /\ \A k, n \in 1..Len(recent) : k < n => recent[k] < recent[n]
  /\ \A i \in 1..target :
       Market(events[i]) => i \in ToSet(recent) \/ TooOld(i, events[target])

\* The rows are relations of the events so far, each there once.
RowsInv ==
  /\ Rows \subseteq Expected
  /\ \A k, n \in 1..Len(relations) : relations[k] = relations[n] => k = n
  /\ dropped = 0 => Expected \subseteq Rows

\* The first analysis opens the summary only when the derived files are whole.
FilesInv ==
  /\ files \in [Derived \cup Summary -> {"absent", "partial", "whole"}]
  /\ analyses = 0 => stage = "idle"
  /\ analyses = 0 \/ (analyses = 1 /\ stage \in {"frames", "relations"}) =>
       \A f \in Summary : files[f] = "absent"
  /\ stage = "summary" => \A f \in Derived : files[f] = "whole"

IInv ==
  /\ TypeOK
  /\ IndexInv
  /\ WindowInv
  /\ RowsInv
  /\ RelationsAreCounted
  /\ FilesInv
  /\ FindingsComeLast
=============================================================================
