---------------------------- MODULE PairedReceipts ----------------------------
(***************************************************************************)
(* analyze_paired_research_receipts (src/src/Research/Analysis/            *)
(* Relations.cpp): the same trades received over two endpoints, matched    *)
(* by their native identity, and how much later the one endpoint was.      *)
(*                                                                         *)
(* The index, the manifest and the session log have been read; the frames  *)
(* of the bundle are drawn as the analysis comes to them.  A frame or a    *)
(* trade that makes the analysis refuse the bundle is one of a kind, what  *)
(* it counts is one of a few.  Symbols agree, or the bundle is refused.    *)
(***************************************************************************)
EXTENDS Integers, Sequences, FiniteSets, Functions, Bags

CONSTANTS
  Round,               \* rounds of the bundle
  NativeIdentity,      \* numeric native ids of trades
  PositiveMax,         \* the largest std::int64_t
  MaximumPairedEvents, \* kMaximumPairedEvents
  MaxFrames            \* bound: frames of the two channels

\* A record without a native id: a trade whose id is not a number, what stands in
\* the place of a trade and is none, a frame whose payload holds no trades to read.
Nameless == {"no_id", "no_trade", "unread"}

ASSUME PairedReceiptsAssumption ==
  /\ PositiveMax \in Nat
  /\ MaximumPairedEvents \in Nat /\ MaxFrames \in Nat
  /\ Nameless \cap NativeIdentity = {}

Endpoint == {"standard", "aws"}

\* std::uint64_t, the clock of the receipts.
Receipt == 0..(2 * PositiveMax + 1)

\* PairedKey: symbol and kind are the same throughout.
PairedKey == Round \X NativeIdentity

NoReceipt  == 0 - 1
NoIdentity == [receipt |-> [e \in Endpoint |-> NoReceipt], count |-> [e \in Endpoint |-> 0]]
NoReport   == [written |-> FALSE]
Torn       == [written |-> TRUE, torn |-> TRUE]

VARIABLES
  pc,
  frame,               \* the frame in hand: [endpoint, round, receipt]
  selected_frames,
  candidate_records,
  invalid_payload_records,
  missing_native_id,   \* invalid_id_standard, invalid_id_aws
  identities,
  temporary,           \* paired_receipts.json.tmp
  report,              \* paired_receipts.json
  records              \* ghost: the bag of the records in the bundle

counters       == <<selected_frames, candidate_records, invalid_payload_records,
                    missing_native_id, identities>>
receipts_files == <<temporary, report>>
receipts_vars  == <<pc, frame, counters, receipts_files, records>>

NoFrame == [endpoint |-> "none"]

ReceiptsInit ==
  /\ pc = "frames"
  /\ frame = NoFrame
  /\ selected_frames = 0
  /\ candidate_records = 0
  /\ invalid_payload_records = 0
  /\ missing_native_id = [e \in Endpoint |-> 0]
  /\ identities = << >>
  /\ temporary = NoReport
  /\ report = NoReport
  /\ records = EmptyBag

-----------------------------------------------------------------------------
(* Reading the frames *)

\* A frame of a selected channel, or one more than the analysis will keep.
StartFrame(endpoint, round, receipt) ==
  /\ pc = "frames"
  /\ selected_frames < MaxFrames
  /\ selected_frames' = selected_frames + 1
  /\ IF selected_frames + 1 > MaximumPairedEvents
       THEN pc' = "refused" /\ UNCHANGED frame
       ELSE /\ pc' = "trades"
            /\ frame' = [endpoint |-> endpoint, round |-> round, receipt |-> receipt]
  /\ UNCHANGED <<candidate_records, invalid_payload_records, missing_native_id, identities,
                 receipts_files, records>>

\* No receipt time, a payload that cannot be read or decompressed, the wrong
\* opcode, the wrong symbol, a field that is too long, a failing stream.
Refuse ==
  /\ pc \in {"frames", "trades", "write"}
  /\ pc' = "refused"
  /\ UNCHANGED <<frame, counters, receipts_files, records>>

InBundle(record) == records' = records (+) SetToBag({record})

\* A payload that does not parse, or whose data is no array.
BrokenFrame(endpoint) ==
  /\ pc = "frames"
  /\ selected_frames < MaxFrames
  /\ selected_frames + 1 <= MaximumPairedEvents
  /\ selected_frames' = selected_frames + 1
  /\ invalid_payload_records' = invalid_payload_records + 1
  /\ InBundle([endpoint |-> endpoint, id |-> "unread"])
  /\ UNCHANGED <<pc, frame, candidate_records, missing_native_id, identities, receipts_files>>

\* An acknowledgement, a heartbeat, the end of the array: no trade is left in the
\* frame.
EndFrame ==
  /\ pc = "trades"
  /\ pc' = "frames"
  /\ frame' = NoFrame
  /\ UNCHANGED <<counters, receipts_files, records>>

RecordOf(id) ==
  IF id \in Nameless
    THEN [endpoint |-> frame.endpoint, id |-> id]
    ELSE [endpoint |-> frame.endpoint, id |-> id, round |-> frame.round, receipt |-> frame.receipt]

\* Faulty variant: what does not fit is left out of the report.
TooMany_Sampled(id) ==
  /\ pc = "trades"
  /\ InBundle(RecordOf(id))
  /\ \/ candidate_records + 1 > MaximumPairedEvents
     \/ /\ <<frame.round, id>> \notin DOMAIN identities
        /\ Cardinality(DOMAIN identities) >= MaximumPairedEvents
  /\ pc' = "frames"
  /\ frame' = NoFrame
  /\ UNCHANGED <<counters, receipts_files>>

\* More records, or more identities, than the analysis keeps.
TooMany(id) ==
  /\ pc = "trades"
  /\ InBundle(RecordOf(id))
  /\ \/ candidate_records + 1 > MaximumPairedEvents
     \/ /\ <<frame.round, id>> \notin DOMAIN identities
        /\ Cardinality(DOMAIN identities) >= MaximumPairedEvents
  /\ pc' = "refused"
  /\ UNCHANGED <<frame, counters, receipts_files>>

\* A trade without a numeric native id.
TradeWithoutId ==
  /\ pc = "trades"
  /\ candidate_records + 1 <= MaximumPairedEvents
  /\ candidate_records' = candidate_records + 1
  /\ missing_native_id' = [missing_native_id EXCEPT ![frame.endpoint] = @ + 1]
  /\ InBundle(RecordOf("no_id"))
  /\ UNCHANGED <<pc, frame, selected_frames, invalid_payload_records, identities, receipts_files>>

\* Only the first record of an endpoint leaves its receipt.
Noted(identity, endpoint, receipt) ==
  [receipt |-> [identity.receipt EXCEPT ![endpoint] =
                  IF identity.count[endpoint] = 0 THEN receipt ELSE @],
   count   |-> [identity.count EXCEPT ![endpoint] = @ + 1]]

\* What stands in the place of a trade and is none is a candidate all the same.
NotATrade ==
  /\ pc = "trades"
  /\ candidate_records + 1 <= MaximumPairedEvents
  /\ candidate_records' = candidate_records + 1
  /\ invalid_payload_records' = invalid_payload_records + 1
  /\ InBundle(RecordOf("no_trade"))
  /\ UNCHANGED <<pc, frame, selected_frames, missing_native_id, identities, receipts_files>>

Trade(id) ==
  LET key == <<frame.round, id>>
      old == IF key \in DOMAIN identities THEN identities[key] ELSE NoIdentity
      new == Noted(old, frame.endpoint, frame.receipt)
  IN /\ pc = "trades"
     /\ candidate_records + 1 <= MaximumPairedEvents
     /\ key \in DOMAIN identities \/ Cardinality(DOMAIN identities) < MaximumPairedEvents
     /\ candidate_records' = candidate_records + 1
     /\ identities' = [k \in DOMAIN identities \cup {key} |-> IF k = key THEN new ELSE identities[k]]
     /\ InBundle(RecordOf(id))
     /\ UNCHANGED <<pc, frame, selected_frames, invalid_payload_records, missing_native_id,
                    receipts_files>>

-----------------------------------------------------------------------------
(* The report *)

\* std::nullopt.
Overflow == PositiveMax + 1

\* receipt_delta: the difference of two unsigned numbers as a signed one, where
\* there is one.
ReceiptDelta(standard, aws) ==
  IF aws >= standard
    THEN IF aws - standard > PositiveMax THEN Overflow ELSE aws - standard
    ELSE IF standard - aws > PositiveMax + 1 THEN Overflow ELSE 0 - (standard - aws)

Ambiguous(identity) == \E e \in Endpoint : identity.count[e] > 1

Single(identity) == \A e \in Endpoint : identity.count[e] = 1

\* Faulty variant: an identity without the other endpoint is unmatched, however
\* often this one has shown it.
OnlyOn_Repeated(e) ==
  {k \in DOMAIN identities : identities[k].count[e] > 0
     /\ \A other \in Endpoint \ {e} : identities[k].count[other] = 0}

\* Identities that one endpoint alone has shown, once.
OnlyOn(e) ==
  {k \in DOMAIN identities : identities[k].count[e] = 1
     /\ \A other \in Endpoint \ {e} : identities[k].count[other] = 0}

Deltas ==
  [k \in {k \in DOMAIN identities : Single(identities[k])} |->
     ReceiptDelta(identities[k].receipt["standard"], identities[k].receipt["aws"])]

\* Faulty variant: the rank counts from zero.
Percentile_Zero(sorted, percentage) == sorted[(Len(sorted) * percentage) \div 100 + 1]

\* Nearest rank of a sorted sequence, which is not empty.
Percentile(sorted, percentage) == sorted[(Len(sorted) * percentage + 99) \div 100]

\* An order of the identities in which no delta is followed by a smaller one.
Orders(deltas) ==
  {order \in Bijection(1..Cardinality(DOMAIN deltas), DOMAIN deltas) :
     \A i, j \in DOMAIN order : i <= j => deltas[order[i]] <= deltas[order[j]]}

Sorted(deltas) ==
  LET order == CHOOSE o \in Orders(deltas) : TRUE
  IN [i \in 1..Cardinality(DOMAIN deltas) |-> deltas[order[i]]]

Percentiles(sorted) ==
  [p50 |-> Percentile(sorted, 50), p95 |-> Percentile(sorted, 95), p99 |-> Percentile(sorted, 99)]

\* The records of an identity after its first.
Extra(e) ==
  [k \in DOMAIN identities |->
     IF identities[k].count[e] > 0 THEN identities[k].count[e] - 1 ELSE 0]

Report ==
  [written    |-> TRUE,
   deltas     |-> Deltas,
   statistics |-> IF DOMAIN Deltas = {} THEN "none" ELSE Percentiles(Sorted(Deltas)),
   candidates |-> candidate_records,
   payloads   |-> invalid_payload_records,
   invalid    |-> missing_native_id,
   unmatched  |-> [e \in Endpoint |-> missing_native_id[e] + Cardinality(OnlyOn(e))],
   duplicates |-> [e \in Endpoint |-> SumFunction(Extra(e))],
   ambiguous  |-> Cardinality({k \in DOMAIN identities : Ambiguous(identities[k])})]

\* The last frame has been read.
Match ==
  /\ pc = "frames"
  /\ pc' = IF \E k \in DOMAIN Deltas : Deltas[k] = Overflow THEN "refused" ELSE "write"
  /\ UNCHANGED <<frame, counters, receipts_files, records>>

\* A write that may come no further than a part of the file, when the process
\* ends or the flush fails.
WriteTemporary ==
  /\ pc = "write"
  /\ \/ temporary' = Torn /\ pc' = "refused"
     \/ temporary' = Report /\ pc' = "rename"
  /\ UNCHANGED <<frame, counters, report, records>>

Rename ==
  /\ pc = "rename"
  /\ pc' \in {"done", "refused"}
  /\ IF pc' = "done" THEN report' = temporary /\ temporary' = NoReport
                     ELSE UNCHANGED receipts_files
  /\ UNCHANGED <<frame, counters, records>>

Stopped == pc \in {"done", "refused"} /\ UNCHANGED receipts_vars

ReceiptsNext ==
  \/ \E e \in Endpoint, r \in Round, t \in Receipt : StartFrame(e, r, t)
  \/ \E e \in Endpoint : BrokenFrame(e)
  \/ Refuse
  \/ EndFrame
  \/ \E id \in NativeIdentity : Trade(id)
  \/ \E id \in NativeIdentity \cup {"no_id", "no_trade"} : TooMany(id)
  \/ TradeWithoutId
  \/ NotATrade
  \/ Match \/ WriteTemporary \/ Rename
  \/ Stopped

ReceiptsSpec == ReceiptsInit /\ [][ReceiptsNext]_receipts_vars

-----------------------------------------------------------------------------
(* What the report should say, from the records of the bundle alone *)

\* What a function counts, its copies told apart by a number.
Numbered(counts) == UNION {{x} \X (1..counts[x]) : x \in DOMAIN counts}

RecordsOf(e, r, id) ==
  {n \in Numbered(records) : n[1].endpoint = e /\ n[1].id = id /\ n[1].round = r}

NumberOf(e, k) == Cardinality(RecordsOf(e, k[1], k[2]))

\* The trades, and what stands in the place of one.
InTradeArrays == {n \in Numbered(records) : n[1].id # "unread"}

\* The trades of an endpoint without a native id.
Anonymous(e) == {n \in Numbered(records) : n[1].endpoint = e /\ n[1].id = "no_id"}

\* What is no trade, and the frames whose payload holds none to read.
Invalid == {n \in Numbered(records) : n[1].id \in {"no_trade", "unread"}}

\* The records of an endpoint with a native id.
Identified(e) == {n \in Numbered(records) : n[1].endpoint = e /\ n[1].id \in NativeIdentity}

PairedOnce == {k \in PairedKey : \A e \in Endpoint : NumberOf(e, k) = 1}

ReceiptOf(e, k) == (CHOOSE n \in RecordsOf(e, k[1], k[2]) : TRUE)[1].receipt

Whole == report.written /\ report # Torn

\* What stands in paired_receipts.json, at any time, is a whole report over all
\* the records of the bundle: its samples are the exact differences of the
\* identities that each endpoint shows once, in the same round, and a bundle
\* that is too large or whose differences overflow has no report
\* ("Overflow refuses the report rather than silently sampling a prefix",
\* Relations.cpp:48; Relations.cpp:460, 523).
SamplesAreExact ==
  report.written =>
    report # Torn /\ report.deltas =
      [k \in PairedOnce |-> ReceiptOf("aws", k) - ReceiptOf("standard", k)]

\* The tallies of a report are those of the bundle.  Every record with a native
\* id is accounted for once at its endpoint: in a sample, as unmatched, or as one
\* of an ambiguous identity, of which the report counts the identity and, as
\* duplicates, the records after the first (Relations.cpp:446, 451, 458); a trade
\* without an id is unmatched too; and what could be read as no trade, or no
\* payload, is counted apart from both (Relations.cpp:385, 399, 405).
RecordsAreAccounted ==
  Whole =>
    LET Doubted == {k \in PairedKey : \E o \in Endpoint : NumberOf(o, k) > 1}
    IN /\ report.candidates = Cardinality(InTradeArrays)
       /\ report.payloads = Cardinality(Invalid)
       /\ report.ambiguous = Cardinality(Doubted)
       /\ \A e \in Endpoint :
            /\ report.invalid[e] = Cardinality(Anonymous(e))
            /\ Cardinality(Identified(e)) + Cardinality(Anonymous(e))
                 = Cardinality(DOMAIN report.deltas) + report.unmatched[e] + report.duplicates[e]
                   + Cardinality({k \in Doubted : NumberOf(e, k) > 0})

\* The quantiles of a report are nearest ranks of its samples: each is one of
\* them, with less than its share of them below and at least its share not
\* above, and the jitter taken from them is never negative (Relations.cpp:467,
\* 473).
QuantilesAreRanks ==
  Whole /\ DOMAIN report.deltas # {} =>
    LET Samples == DOMAIN report.deltas
        Ranked(quantile, percentage) ==
          LET Below  == {k \in Samples : report.deltas[k] < quantile}
              Within == {k \in Samples : report.deltas[k] <= quantile}
          IN /\ \E k \in Samples : report.deltas[k] = quantile
             /\ 100 * Cardinality(Below) < percentage * Cardinality(Samples)
             /\ 100 * Cardinality(Within) >= percentage * Cardinality(Samples)
    IN /\ Ranked(report.statistics.p50, 50)
       /\ Ranked(report.statistics.p95, 95)
       /\ Ranked(report.statistics.p99, 99)
       /\ report.statistics.p50 <= report.statistics.p95

-----------------------------------------------------------------------------
(* The inductive invariant *)

Frame    == [endpoint : Endpoint, round : Round, receipt : Receipt]
Record   == [endpoint : Endpoint, id : NativeIdentity, round : Round, receipt : Receipt]
              \cup [endpoint : Endpoint, id : Nameless]
Identity == [receipt : [Endpoint -> Receipt \cup {NoReceipt}], count : [Endpoint -> Nat]]

ReceiptsTypeOK ==
  /\ pc \in {"frames", "trades", "write", "rename", "done", "refused"}
  /\ pc = "trades" => frame \in Frame
  /\ selected_frames \in Nat /\ candidate_records \in Nat /\ invalid_payload_records \in Nat
  /\ missing_native_id \in [Endpoint -> Nat]
  /\ DOMAIN identities \subseteq PairedKey /\ IsFiniteSet(DOMAIN identities)
  /\ identities \in [DOMAIN identities -> Identity]
  /\ DOMAIN records \subseteq Record /\ IsFiniteSet(Numbered(records))
  /\ records \in [DOMAIN records -> Nat \ {0}]

CountOf(e, k) == IF k \in DOMAIN identities THEN identities[k].count[e] ELSE 0

Seen(e) == {k \in DOMAIN identities : identities[k].count[e] > 0}

\* An identity has counted the records that have it, and its receipt is one of theirs.
CountsInv ==
  /\ candidate_records = Cardinality(InTradeArrays)
  /\ invalid_payload_records = Cardinality(Invalid)
  /\ \A e \in Endpoint : missing_native_id[e] = Cardinality(Anonymous(e))
  /\ \A e \in Endpoint, k \in PairedKey :
       NumberOf(e, k) = CountOf(e, k)
  /\ \A e \in Endpoint : \A k \in Seen(e) :
       \E n \in RecordsOf(e, k[1], k[2]) : n[1].receipt = identities[k].receipt[e]

\* A record with an id is the first of its identity or one more of it.
RepeatsInv ==
  \A e \in Endpoint :
    Cardinality(Identified(e)) = Cardinality(Seen(e)) + Cardinality(Numbered(Extra(e)))

ReportInv ==
  /\ pc \in {"write", "rename", "done"} => \A k \in DOMAIN Deltas : Deltas[k] # Overflow
  /\ pc = "rename" => temporary = Report
  /\ \/ report = NoReport
     \/ pc = "done" /\ report = Report

ReceiptsInv ==
  /\ ReceiptsTypeOK
  /\ pc # "refused" => CountsInv /\ RepeatsInv
  /\ ReportInv
=============================================================================
