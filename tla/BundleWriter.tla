---------------------------- MODULE BundleWriter ----------------------------
(***************************************************************************)
(* ResearchBundleWriter (src/src/Research/ResearchCapture.cpp): the one    *)
(* owner of a capture directory, shared by a worker thread per channel.    *)
(*                                                                         *)
(* Four buffered streams (frames.bin, frames.jsonl, controls.jsonl,        *)
(* sessions.jsonl), a manifest replaced by rename and a COMPLETE marker.   *)
(* One mutex serialises the records, but a record begins before the mutex  *)
(* is taken: session() and control() stamp their row outside it, and the   *)
(* read that produced a frame has stamped its receipt.                     *)
(*                                                                         *)
(* Streams are counted in bytes: size is what was inserted into a stream,  *)
(* durable how much of it is known to be in the file.  The process may end *)
(* at any point; a reader then finds a prefix of what was inserted into    *)
(* each stream, no shorter than what was flushed.                          *)
(***************************************************************************)
EXTENDS Naturals, Sequences

CONSTANTS
  Thread,      \* worker threads, one per captured channel
  NoRecord,    \* a thread that is not recording
  ByteLimit,   \* --max-artifact-bytes, less the share given to the pcap
  Sizes,       \* possible byte counts of a payload, and, but for 0, of a row of the logs
  IndexLine,   \* bytes of one line of frames.jsonl
  MaxRecords,  \* bound: records offered in one run
  MaxClock     \* bound: the monotonic clock

ASSUME WriterAssumption ==
  /\ NoRecord \notin [kind : {"frame", "session", "control"}, len : Sizes, stamp : Nat]
  /\ ByteLimit \in Nat
  /\ Sizes \subseteq Nat
  /\ IndexLine \in Nat \ {0}
  /\ MaxRecords \in Nat
  /\ MaxClock \in Nat

Stream == {"frames", "index", "controls", "sessions"}

Record == [kind : {"frame", "session", "control"}, len : Sizes, stamp : Nat]

\* A line of frames.jsonl.  at is not in the file: it is the position of the
\* stream frames_ at which the payload of this line was really inserted.
IndexRow ==
  [frame_id : Nat, channel_id : Thread, monotonic_ns : Nat,
   received_monotonic_ns : Nat, offset : Nat, length : Sizes, at : Nat]

NoManifest == "none"
Status     == {"running", "complete", "incomplete", "failed"}

VARIABLES
  clock,                  \* steady_clock, nanoseconds from origin_
  pc,                     \* where the owner of the writer is
  pending,                \* the record a thread carries to the mutex
  offered,                \* records that have entered the mutex
  index,                  \* the lines inserted into frames.jsonl
  size,                   \* bytes inserted into each stream
  durable,                \* bytes of each stream that are in its file
  good,                   \* the stream's state
  bytes_written,
  frame_bytes,
  next_frame_id,
  records_not_persisted,
  artifact_complete,
  storage_failed,
  finished_successfully,
  manifest,               \* status in manifest.json
  marker                  \* the file COMPLETE

counters == <<bytes_written, frame_bytes, next_frame_id, records_not_persisted>>
flags    == <<artifact_complete, storage_failed>>
verdicts == <<finished_successfully, manifest, marker>>
vars     == <<clock, pc, pending, offered, index, size, durable, good,
              counters, flags, verdicts>>

-----------------------------------------------------------------------------
Init ==
  /\ clock = 0
  /\ pc = "constructing"
  /\ pending = [t \in Thread |-> NoRecord]
  /\ offered = 0
  /\ index = << >>
  /\ size = [s \in Stream |-> 0]
  /\ durable = [s \in Stream |-> 0]
  /\ good = [s \in Stream |-> TRUE]
  /\ bytes_written = 0
  /\ frame_bytes = 0
  /\ next_frame_id = 0
  /\ records_not_persisted = 0
  /\ artifact_complete = TRUE
  /\ storage_failed = FALSE
  /\ finished_successfully = FALSE
  /\ manifest = NoManifest
  /\ marker = "absent"

\* The constructor: an unusable directory (not empty, not creatable, a stream
\* that does not open) leaves no manifest and a writer that is not ok().
ConstructRefused ==
  /\ pc = "constructing"
  /\ pc' = "refused"
  /\ UNCHANGED <<clock, pending, offered, index, size, durable, good,
                 counters, flags, verdicts>>

\* write_manifest: the file is replaced by a rename or not at all.
WriteManifest(status, written) ==
  IF written
    THEN /\ manifest' = status
         /\ UNCHANGED flags
    ELSE /\ storage_failed' = TRUE
         /\ artifact_complete' = FALSE
         /\ UNCHANGED manifest

Construct ==
  /\ pc = "constructing"
  /\ \E written \in BOOLEAN :
       /\ WriteManifest("running", written)
       /\ pc' = IF written THEN "open" ELSE "refused"
  /\ UNCHANGED <<clock, pending, offered, index, size, durable, good,
                 counters, finished_successfully, marker>>

-----------------------------------------------------------------------------
\* A thread builds its record before it takes the mutex: the row of session()
\* and control() with its time stamp, or a frame with the receipt time its
\* read completion took.
Begin(t, kind, len) ==
  /\ pc = "open"
  /\ pending[t] = NoRecord
  /\ offered < MaxRecords
  /\ kind = "frame" \/ len > 0
  /\ pending' = [pending EXCEPT ![t] = [kind |-> kind, len |-> len, stamp |-> clock]]
  /\ UNCHANGED <<clock, pc, offered, index, size, durable, good,
                 counters, flags, verdicts>>

\* Faulty variant: a record that fits is taken although one was lost before.
Fits_AfterLoss(amount) == bytes_written + amount <= ByteLimit

\* reserve_bytes: the first record that does not fit closes the budget for
\* every record after it, however small.
Fits(amount) == artifact_complete /\ bytes_written + amount <= ByteLimit

\* A record that reserve_bytes refuses.
Refuse(t) ==
  /\ artifact_complete' = FALSE
  /\ records_not_persisted' = records_not_persisted + 1
  /\ pending' = [pending EXCEPT ![t] = NoRecord]
  /\ offered' = offered + 1
  /\ UNCHANGED <<clock, pc, index, size, durable, good, bytes_written,
                 frame_bytes, next_frame_id, storage_failed, verdicts>>

Demand(record) == IF record.kind = "frame" THEN record.len + IndexLine ELSE record.len

RefuseRecord(t) ==
  /\ pc = "open"
  /\ pending[t] # NoRecord
  /\ ~Fits(Demand(pending[t]))
  /\ Refuse(t)

\* What inserting len bytes into stream s may do: a good stream takes them all,
\* or fails after some of them; a stream that is not good takes nothing.
Inserted(s, len) == IF good[s] THEN 0 .. len ELSE {0}

\* An insertion of n bytes out of len leaves the stream good.
Took(s, n, len) == good[s] /\ n = len

LogStream == [session |-> "sessions", control |-> "controls"]

\* session() and control() inside the mutex.
WriteRow(t) ==
  LET record == pending[t]
      s      == LogStream[record.kind]
  IN
  /\ pc = "open"
  /\ record # NoRecord
  /\ record.kind # "frame"
  /\ Fits(Demand(record))
  /\ bytes_written' = bytes_written + Demand(record)
  /\ \E n \in Inserted(s, record.len) :
       /\ size' = [size EXCEPT ![s] = @ + n]
       /\ good' = [good EXCEPT ![s] = Took(s, n, record.len)]
       /\ artifact_complete' = (artifact_complete /\ Took(s, n, record.len))
       /\ storage_failed' = (storage_failed \/ ~Took(s, n, record.len))
  /\ pending' = [pending EXCEPT ![t] = NoRecord]
  /\ offered' = offered + 1
  /\ UNCHANGED <<clock, pc, index, durable, frame_bytes, next_frame_id,
                 records_not_persisted, verdicts>>

\* Faulty variant: the row carries the time stamp taken before the mutex.
FrameRow_StampedOutside(t) ==
  [frame_id |-> next_frame_id, channel_id |-> t, monotonic_ns |-> pending[t].stamp,
   received_monotonic_ns |-> pending[t].stamp, offset |-> frame_bytes,
   length |-> pending[t].len, at |-> size["frames"]]

\* The line frame() writes: identity, offset and time stamp are all taken
\* inside the mutex.
FrameRow(t) ==
  [frame_id |-> next_frame_id, channel_id |-> t, monotonic_ns |-> clock,
   received_monotonic_ns |-> pending[t].stamp, offset |-> frame_bytes,
   length |-> pending[t].len, at |-> size["frames"]]

\* frame() inside the mutex.  Payload and line go to two streams and either
\* insertion may stop short; a line that stops short is not a row.
WriteFrame(t) ==
  LET len == pending[t].len IN
  /\ pc = "open"
  /\ pending[t] # NoRecord
  /\ pending[t].kind = "frame"
  /\ Fits(Demand(pending[t]))
  /\ bytes_written' = bytes_written + Demand(pending[t])
  /\ next_frame_id' = next_frame_id + 1
  /\ \E n \in Inserted("frames", len), m \in Inserted("index", IndexLine) :
       LET taken == Took("frames", n, len)
           lined == Took("index", m, IndexLine)
           whole == taken /\ lined
       IN
       /\ size' = [size EXCEPT !["frames"] = @ + n, !["index"] = @ + m]
       /\ good' = [good EXCEPT !["frames"] = taken, !["index"] = lined]
       /\ index' = IF lined THEN Append(index, FrameRow(t)) ELSE index
       /\ frame_bytes' = IF whole THEN frame_bytes + len ELSE frame_bytes
       /\ artifact_complete' = (artifact_complete /\ whole)
       /\ storage_failed' = (storage_failed \/ ~whole)
  /\ pending' = [pending EXCEPT ![t] = NoRecord]
  /\ offered' = offered + 1
  /\ UNCHANGED <<clock, pc, durable, records_not_persisted, verdicts>>

-----------------------------------------------------------------------------
\* finish() runs after the workers were joined.  It flushes the four streams;
\* a flush that fails marks the storage failed.
FinishFlush ==
  /\ pc = "open"
  /\ \A t \in Thread : pending[t] = NoRecord
  /\ \E failing \in SUBSET {s \in Stream : size[s] > durable[s]} :
       /\ good' = [s \in Stream |-> good[s] /\ s \notin failing]
       /\ durable' = [s \in Stream |->
                        IF good[s] /\ s \notin failing THEN size[s] ELSE durable[s]]
  /\ IF \A s \in Stream : good'[s]
       THEN UNCHANGED flags
       ELSE storage_failed' = TRUE /\ artifact_complete' = FALSE
  /\ pc' = "flushed"
  /\ UNCHANGED <<clock, pending, offered, index, size, counters, verdicts>>

\* Faulty variant: the verdict looks at the sessions only.
Judgement_SessionsOnly(sessions_ok) == IF sessions_ok THEN "complete" ELSE "failed"

Judgement(sessions_ok) ==
  CASE sessions_ok /\ artifact_complete /\ ~storage_failed -> "complete"
    [] sessions_ok /\ (~artifact_complete \/ storage_failed) -> "incomplete"
    [] OTHER -> "failed"

FinishManifest(sessions_ok) ==
  /\ pc = "flushed"
  /\ \E written \in BOOLEAN :
       /\ WriteManifest(Judgement(sessions_ok), written)
       /\ pc' = IF written /\ Judgement(sessions_ok) = "complete"
                  THEN "judged" ELSE "finished"
  /\ UNCHANGED <<clock, pending, offered, index, size, durable, good,
                 counters, finished_successfully, marker>>

\* The marker may not open, may open and stay empty, or be written.
FinishMarker ==
  /\ pc = "judged"
  /\ marker' \in {"absent", "empty", "written"}
  /\ finished_successfully' = (marker' = "written")
  /\ storage_failed' = (storage_failed \/ marker' # "written")
  /\ pc' = "finished"
  /\ UNCHANGED <<clock, pending, offered, index, size, durable, good,
                 counters, artifact_complete, manifest>>

-----------------------------------------------------------------------------
Tick ==
  /\ pc = "open"
  /\ clock < MaxClock
  /\ clock' = clock + 1
  /\ UNCHANGED <<pc, pending, offered, index, size, durable, good,
                 counters, flags, verdicts>>

\* The process ends, by itself or killed at any point.  Each buffer may have
\* spilled any part of what was inserted after the last flush.
ProcessEnds ==
  /\ pc \notin {"refused", "ended"}
  /\ pc' = "ended"
  /\ \E f \in durable["frames"] .. size["frames"],
        i \in durable["index"] .. size["index"],
        c \in durable["controls"] .. size["controls"],
        r \in durable["sessions"] .. size["sessions"] :
       durable' = [durable EXCEPT !["frames"] = f, !["index"] = i,
                                  !["controls"] = c, !["sessions"] = r]
  /\ UNCHANGED <<clock, pending, offered, index, size, good,
                 counters, flags, verdicts>>

Next ==
  \/ ConstructRefused
  \/ Construct
  \/ \E t \in Thread, kind \in {"frame", "session", "control"}, len \in Sizes :
       Begin(t, kind, len)
  \/ \E t \in Thread : RefuseRecord(t) \/ WriteRow(t) \/ WriteFrame(t)
  \/ FinishFlush
  \/ \E sessions_ok \in BOOLEAN : FinishManifest(sessions_ok)
  \/ FinishMarker
  \/ Tick
  \/ ProcessEnds

Spec == Init /\ [][Next]_vars
-----------------------------------------------------------------------------
(* Properties *)

\* Every variable has its type; a file never holds more than was inserted.
TypeOK ==
  /\ clock \in Nat
  /\ pc \in {"constructing", "refused", "open", "flushed", "judged", "finished", "ended"}
  /\ pending \in [Thread -> Record \cup {NoRecord}]
  /\ offered \in Nat
  /\ index \in Seq(IndexRow)
  /\ size \in [Stream -> Nat]
  /\ durable \in [Stream -> Nat]
  /\ good \in [Stream -> BOOLEAN]
  /\ bytes_written \in Nat
  /\ frame_bytes \in Nat
  /\ next_frame_id \in Nat
  /\ records_not_persisted \in Nat
  /\ artifact_complete \in BOOLEAN
  /\ storage_failed \in BOOLEAN
  /\ finished_successfully \in BOOLEAN
  /\ manifest \in Status \cup {NoManifest}
  /\ marker \in {"absent", "empty", "written"}
  /\ \A s \in Stream : durable[s] <= size[s]

\* What read_frame_index demands of the first lines of frames.jsonl: the n-th
\* line is frame n-1, its bytes follow those of the line before it, and the
\* persistence time stamps never go back.
IndexPrefixAccepted(rows) ==
  /\ \A i \in DOMAIN rows :
       /\ rows[i].frame_id = i - 1
       /\ rows[i].offset = IF i = 1 THEN 0 ELSE rows[i-1].offset + rows[i-1].length
  /\ \A i, j \in DOMAIN rows : i <= j => rows[i].monotonic_ns <= rows[j].monotonic_ns

\* However the workers interleave, whatever is refused or fails, and wherever
\* the process dies, the lines of frames.jsonl satisfy the reader's contract:
\* a capture never leaves an index its own analysis calls a contract violation.
IndexContract == IndexPrefixAccepted(index)

\* The whole lines of frames.jsonl that survive the process.
DurableRows == {i \in DOMAIN index : i * IndexLine <= durable["index"]}

\* A surviving line whose bytes lie inside the surviving frames.bin, which is
\* all the analysis checks, points at the payload it was written for and never
\* at another frame's bytes.
RowsPointAtTheirPayload ==
  \A i \in DurableRows :
    index[i].offset + index[i].length <= durable["frames"]
      => index[i].at = index[i].offset

\* The files never hold more than was charged to the budget, nor the budget
\* more than the limit.
BudgetKept ==
  /\ size["frames"] + size["index"] + size["controls"] + size["sessions"]
       <= bytes_written
  /\ bytes_written <= ByteLimit

\* A manifest that says complete describes files that are whole on disk: no
\* record was refused, no stream failed, and its counters are those of the
\* files.
CompleteIsDurable ==
  manifest = "complete" =>
    /\ durable = size
    /\ records_not_persisted = 0
    /\ next_frame_id = Len(index)
    /\ frame_bytes = durable["frames"]
    /\ bytes_written = durable["frames"] + durable["index"]
                         + durable["controls"] + durable["sessions"]

\* The marker is created only under a complete manifest, and the run reports
\* success only when the marker is whole.  (The converse fails by design of
\* the code: a marker that cannot be written leaves a complete manifest and a
\* run that reports failure.)
MarkerMeansComplete ==
  /\ marker # "absent" => manifest = "complete"
  /\ finished_successfully => marker = "written" /\ ~storage_failed

-----------------------------------------------------------------------------
(* The inductive invariant behind these properties *)

Written == size["frames"] + size["index"] + size["controls"] + size["sessions"]

\* Where the payload of the next frame goes, by the lines written so far.
IndexEnd == IF index = << >> THEN 0 ELSE index[Len(index)].offset + index[Len(index)].length

IndexInv ==
  /\ IndexContract
  /\ \A i \in DOMAIN index :
       index[i].monotonic_ns <= clock /\ index[i].at = index[i].offset

\* As long as nothing was lost, counters, streams and lines agree.
WholeInv ==
  artifact_complete =>
    /\ \A s \in Stream : good[s]
    /\ next_frame_id = Len(index)
    /\ frame_bytes = size["frames"]
    /\ frame_bytes = IndexEnd
    /\ records_not_persisted = 0
    /\ bytes_written = Written

\* What the place of the owner says of the manifest, the marker and the files.
OwnerInv ==
  /\ pc \in {"constructing", "refused"} => manifest = NoManifest
  /\ pc \in {"open", "flushed"} => manifest = "running"
  /\ pc = "flushed" /\ artifact_complete => durable = size
  /\ pc = "judged" => manifest = "complete"
  /\ pc \notin {"finished", "ended"} /\ artifact_complete => ~storage_failed
  /\ pc \notin {"finished", "ended"} => marker = "absent" /\ ~finished_successfully
  /\ manifest = "complete" =>
       pc \in {"judged", "finished", "ended"} /\ artifact_complete /\ durable = size

\* Inductive: a loss of any kind clears artifact_complete for good, while it is
\* set the lines, the offsets and the budget describe the same bytes, and only
\* then is the manifest judged complete.
IInv ==
  /\ TypeOK
  /\ IndexInv
  /\ BudgetKept
  /\ WholeInv
  /\ OwnerInv
  /\ MarkerMeansComplete

-----------------------------------------------------------------------------
\* The writer implements the evidence log: a record is kept when reserve_bytes
\* admits it.
Log == INSTANCE EvidenceLog WITH
         offered <- offered,
         kept    <- offered - records_not_persisted,
         intact  <- artifact_complete /\ ~storage_failed,
         verdict <- IF manifest = NoManifest THEN "running" ELSE manifest

\* Records kept are a prefix of those offered, loss is never undone, the
\* verdict is complete only without loss and is final.
ImplementsEvidenceLog == Log!Spec
=============================================================================
