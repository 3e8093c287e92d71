------------------------- MODULE BundleWriterProofs -------------------------
(***************************************************************************)
(* Proofs about BundleWriter, for every set of threads, byte limit, row    *)
(* length and bound.  IInv is inductive: one lemma per action, and the     *)
(* properties of the writer and the step simulation of the evidence log    *)
(* follow from it.                                                         *)
(***************************************************************************)
EXTENDS BundleWriter, TLAPS

-----------------------------------------------------------------------------
(* The index *)

\* The row of a frame has the type of a row of the index.
LEMMA FrameRowType ==
  ASSUME TypeOK, NEW t \in Thread, pending[t] # NoRecord
  PROVE  FrameRow(t) \in IndexRow
  <1>1. pending[t] \in Record
    BY DEF TypeOK
  <1>2. pending[t].len \in Sizes /\ pending[t].stamp \in Nat
    BY <1>1 DEF Record
  <1>3. /\ next_frame_id \in Nat /\ clock \in Nat
        /\ frame_bytes \in Nat /\ size["frames"] \in Nat
    BY DEF TypeOK, Stream
  <1> QED
    BY <1>2, <1>3 DEF FrameRow, IndexRow

\* While nothing was lost, the line of the next frame extends the index as the
\* reader demands, and its payload goes where the line says.
LEMMA AppendExtendsIndex ==
  ASSUME TypeOK, IndexInv, WholeInv, artifact_complete,
         NEW t \in Thread, pending[t] # NoRecord,
         NEW rows, rows = Append(index, FrameRow(t))
  PROVE  /\ rows \in Seq(IndexRow)
         /\ IndexPrefixAccepted(rows)
         /\ \A i \in DOMAIN rows :
              rows[i].monotonic_ns <= clock /\ rows[i].at = rows[i].offset
         /\ Len(rows) = next_frame_id + 1
         /\ rows # << >>
         /\ rows[Len(rows)].offset + rows[Len(rows)].length = frame_bytes + pending[t].len
  <1> DEFINE row == FrameRow(t)
  <1>1. row \in IndexRow
    BY FrameRowType
  <1>2. index \in Seq(IndexRow) /\ clock \in Nat
    BY DEF TypeOK
  <1>3. /\ row.frame_id = next_frame_id
        /\ row.monotonic_ns = clock
        /\ row.offset = frame_bytes
        /\ row.length = pending[t].len
        /\ row.at = size["frames"]
    BY DEF FrameRow
  <1>4. /\ next_frame_id = Len(index)
        /\ frame_bytes = size["frames"]
        /\ frame_bytes = IndexEnd
    BY DEF WholeInv
  <1> HIDE DEF row
  <1>5. /\ rows \in Seq(IndexRow)
        /\ Len(rows) = Len(index) + 1
        /\ DOMAIN rows = 1 .. Len(index) + 1
        /\ \A i \in 1 .. Len(index) : rows[i] = index[i]
        /\ rows[Len(index) + 1] = row
    BY <1>1, <1>2 DEF row
  <1>6. Len(index) \in Nat /\ DOMAIN index = 1 .. Len(index)
    BY <1>2
  <1>7. \A i \in DOMAIN rows :
          rows[i].monotonic_ns <= clock /\ rows[i].at = rows[i].offset
    BY <1>2, <1>3, <1>4, <1>5, <1>6 DEF IndexInv
  <1>8. ASSUME NEW i \in DOMAIN rows
        PROVE  /\ rows[i].frame_id = i - 1
               /\ rows[i].offset = IF i = 1 THEN 0 ELSE rows[i-1].offset + rows[i-1].length
    <2>1. CASE i \in 1 .. Len(index)
      <3>1. rows[i] = index[i] /\ (i # 1 => rows[i-1] = index[i-1])
        BY <1>5, <1>6, <2>1
      <3> QED
        BY <1>6, <2>1, <3>1 DEF IndexInv, IndexContract, IndexPrefixAccepted
    <2>2. CASE i = Len(index) + 1
      <3>1. CASE Len(index) = 0
        BY <1>2, <1>3, <1>4, <1>5, <2>2, <3>1 DEF IndexEnd
      <3>2. CASE Len(index) # 0
        <4>1. i - 1 = Len(index) /\ i # 1 /\ Len(index) \in 1 .. Len(index)
          BY <1>6, <2>2, <3>2
        <4>2. rows[i-1] = index[Len(index)]
          BY <1>5, <4>1
        <4>3. index # << >>
          BY <3>2
        <4> QED
          BY <1>3, <1>4, <1>5, <2>2, <4>1, <4>2, <4>3 DEF IndexEnd
      <3> QED
        BY <3>1, <3>2
    <2> QED
      BY <1>5, <1>6, <2>1, <2>2
  <1>9. ASSUME NEW i \in DOMAIN rows, NEW j \in DOMAIN rows, i <= j
        PROVE  rows[i].monotonic_ns <= rows[j].monotonic_ns
    <2>1. CASE j \in 1 .. Len(index)
      <3>1. i \in DOMAIN index /\ j \in DOMAIN index
        BY <1>5, <1>6, <1>9, <2>1
      <3>2. rows[i] = index[i] /\ rows[j] = index[j]
        BY <1>5, <1>6, <3>1
      <3> QED
        BY <1>9, <3>1, <3>2 DEF IndexInv, IndexContract, IndexPrefixAccepted
    <2>2. CASE j = Len(index) + 1
      BY <1>3, <1>5, <1>7, <2>2
    <2> QED
      BY <1>5, <1>6, <2>1, <2>2
  <1>10. IndexPrefixAccepted(rows)
    BY <1>8, <1>9 DEF IndexPrefixAccepted
  <1> QED
    BY <1>3, <1>4, <1>5, <1>6, <1>7, <1>10

-----------------------------------------------------------------------------
(* The actions preserve the invariant *)

LEMMA InitIInv == Init => IInv
  <1> SUFFICES ASSUME Init PROVE IInv
    OBVIOUS
  <1> USE DEF Init
  <1>1. TypeOK
    <2>1. \A s \in Stream : durable[s] <= size[s]
      OBVIOUS
    <2>2. index \in Seq(IndexRow)
      OBVIOUS
    <2>3. pending \in [Thread -> Record \cup {NoRecord}]
      OBVIOUS
    <2> QED
      BY <2>1, <2>2, <2>3 DEF TypeOK, NoManifest
  <1>2. IndexInv /\ WholeInv
    BY DEF IndexInv, IndexContract, IndexPrefixAccepted, WholeInv, IndexEnd, Written, Stream
  <1>3. BudgetKept
    BY WriterAssumption DEF BudgetKept, Stream
  <1>4. OwnerInv /\ MarkerMeansComplete
    BY DEF OwnerInv, MarkerMeansComplete, NoManifest
  <1> QED
    BY <1>1, <1>2, <1>3, <1>4 DEF IInv

\* The steps of the constructor touch no record.
LEMMA ConstructKeeps ==
  ASSUME IInv, ConstructRefused \/ Construct
  PROVE  IInv'
  <1> USE DEF counters, flags, verdicts
  <1>1. CASE ConstructRefused
    <2> USE <1>1 DEF ConstructRefused
    <2>1. TypeOK'
      BY DEF IInv, TypeOK
    <2>2. IndexInv' /\ BudgetKept' /\ WholeInv'
      BY DEF IInv, IndexInv, IndexContract, BudgetKept, WholeInv, IndexEnd, Written
    <2>3. OwnerInv' /\ MarkerMeansComplete'
      BY DEF IInv, OwnerInv, MarkerMeansComplete, NoManifest
    <2> QED
      BY <2>1, <2>2, <2>3 DEF IInv
  <1>2. CASE Construct
    <2>1. PICK written \in BOOLEAN :
            /\ WriteManifest("running", written)
            /\ pc' = IF written THEN "open" ELSE "refused"
      BY <1>2 DEF Construct
    <2> USE <1>2, <2>1 DEF Construct, WriteManifest
    <2>2. TypeOK'
      BY DEF IInv, TypeOK, Status
    <2>3. IndexInv' /\ BudgetKept'
      BY DEF IInv, IndexInv, IndexContract, BudgetKept
    <2>4. WholeInv'
      BY DEF IInv, WholeInv, IndexEnd, Written
    <2>5. OwnerInv' /\ MarkerMeansComplete'
      BY DEF IInv, OwnerInv, MarkerMeansComplete, NoManifest
    <2> QED
      BY <2>2, <2>3, <2>4, <2>5 DEF IInv
  <1> QED
    BY <1>1, <1>2

LEMMA BeginKeeps ==
  ASSUME IInv, NEW t \in Thread, NEW kind \in {"frame", "session", "control"},
         NEW len \in Sizes, Begin(t, kind, len)
  PROVE  IInv'
  <1> USE DEF Begin, counters, flags, verdicts
  <1>1. [kind |-> kind, len |-> len, stamp |-> clock] \in Record
    BY DEF IInv, TypeOK, Record
  <1>2. TypeOK'
    BY <1>1 DEF IInv, TypeOK
  <1>3. IndexInv' /\ BudgetKept' /\ WholeInv'
    BY DEF IInv, IndexInv, IndexContract, BudgetKept, WholeInv, IndexEnd, Written
  <1>4. OwnerInv' /\ MarkerMeansComplete'
    BY DEF IInv, OwnerInv, MarkerMeansComplete
  <1> QED
    BY <1>2, <1>3, <1>4 DEF IInv

LEMMA RefuseRecordKeeps ==
  ASSUME IInv, NEW t \in Thread, RefuseRecord(t)
  PROVE  IInv'
  <1> USE DEF RefuseRecord, Refuse, counters, flags, verdicts
  <1>1. TypeOK'
    <2>1. pending' \in [Thread -> Record \cup {NoRecord}]
      BY DEF IInv, TypeOK
    <2>2. artifact_complete' \in BOOLEAN
      OBVIOUS
    <2>3. records_not_persisted' \in Nat /\ offered' \in Nat
      BY DEF IInv, TypeOK
    <2> QED
      BY <2>1, <2>2, <2>3 DEF IInv, TypeOK
  <1>2. IndexInv' /\ BudgetKept' /\ WholeInv'
    BY DEF IInv, IndexInv, IndexContract, BudgetKept, WholeInv
  <1>3. OwnerInv' /\ MarkerMeansComplete'
    BY DEF IInv, OwnerInv, MarkerMeansComplete
  <1> QED
    BY <1>1, <1>2, <1>3 DEF IInv

\* The bytes in the four files are a number, whatever wrote them.
LEMMA WrittenIsNat ==
  ASSUME TypeOK
  PROVE  Written \in Nat
  <1>1. size["frames"] \in Nat /\ size["index"] \in Nat
    BY DEF TypeOK, Stream
  <1>2. size["controls"] \in Nat /\ size["sessions"] \in Nat
    BY DEF TypeOK, Stream
  <1> QED
    BY <1>1, <1>2 DEF Written

LEMMA WriteRowKeeps ==
  ASSUME IInv, NEW t \in Thread, WriteRow(t)
  PROVE  IInv'
  <1> DEFINE len == pending[t].len
             s   == LogStream[pending[t].kind]
  <1>1. pending[t] \in Record /\ pending[t].kind \in {"session", "control"}
    BY DEF IInv, TypeOK, WriteRow, Record
  <1>2. len \in Nat /\ Demand(pending[t]) = len
    BY <1>1, WriterAssumption DEF Demand, Record
  <1>3. s \in {"sessions", "controls"} /\ s \in Stream
    BY <1>1 DEF LogStream, Stream
  <1>4. artifact_complete /\ bytes_written + len <= ByteLimit
    BY <1>2 DEF WriteRow, Fits
  <1>5. PICK n \in Inserted(s, len) :
          /\ size' = [size EXCEPT ![s] = @ + n]
          /\ good' = [good EXCEPT ![s] = n = len]
          /\ artifact_complete' = (artifact_complete /\ n = len)
          /\ storage_failed' = (storage_failed \/ n # len)
    <2>1. good[s]
      BY <1>3, <1>4 DEF IInv, WholeInv
    <2> QED
      BY <2>1 DEF WriteRow, Took
  <1>6. /\ pc = "open" /\ UNCHANGED <<clock, pc, index, durable, frame_bytes,
                            next_frame_id, records_not_persisted, verdicts>>
        /\ bytes_written' = bytes_written + len
        /\ pending' = [pending EXCEPT ![t] = NoRecord]
        /\ offered' = offered + 1
    BY <1>2 DEF WriteRow
  <1> HIDE DEF len, s
  <1>7. n \in Nat /\ n <= len
    BY <1>2, <1>5 DEF Inserted
  <1>8. TypeOK'
    <2>1. size' \in [Stream -> Nat] /\ good' \in [Stream -> BOOLEAN]
      BY <1>3, <1>5, <1>7 DEF IInv, TypeOK
    <2>2. \A x \in Stream : durable'[x] <= size'[x]
      BY <1>3, <1>5, <1>6, <1>7 DEF IInv, TypeOK
    <2>3. pending' \in [Thread -> Record \cup {NoRecord}]
      BY <1>6 DEF IInv, TypeOK
    <2> QED
      BY <1>2, <1>5, <1>6, <2>1, <2>2, <2>3 DEF IInv, TypeOK, verdicts
  <1>9. Written' = Written + n
    BY <1>3, <1>5, <1>7 DEF IInv, TypeOK, Written, Stream
  <1>10. IndexInv'
    BY <1>6 DEF IInv, IndexInv, IndexContract
  <1>11. BudgetKept'
    <2>1. Written <= bytes_written
      BY DEF IInv, BudgetKept, Written
    <2>2. Written \in Nat /\ bytes_written \in Nat
      BY WrittenIsNat DEF IInv, TypeOK
    <2> HIDE DEF Written
    <2>3. Written' <= bytes_written'
      BY <1>2, <1>6, <1>7, <1>9, <2>1, <2>2
    <2>4. bytes_written' <= ByteLimit
      BY <1>4, <1>6
    <2> QED
      BY <2>3, <2>4 DEF BudgetKept, Written
  <1>12. WholeInv'
    <2> SUFFICES ASSUME artifact_complete' PROVE WholeInv!2'
      BY DEF WholeInv
    <2>1. n = len
      BY <1>5
    <2>2. \A x \in Stream : good'[x]
      BY <1>3, <1>4, <1>5, <2>1 DEF IInv, TypeOK, WholeInv
    <2>3. size'["frames"] = size["frames"]
      BY <1>3, <1>5 DEF IInv, TypeOK, Stream
    <2> QED
      BY <1>4, <1>6, <1>9, <2>1, <2>2, <2>3 DEF IInv, WholeInv, IndexEnd
  <1>13. artifact_complete' => ~storage_failed'
    BY <1>4, <1>5, <1>6 DEF IInv, OwnerInv
  <1>14. OwnerInv' /\ MarkerMeansComplete'
    BY <1>6, <1>13 DEF IInv, OwnerInv, MarkerMeansComplete, verdicts
  <1> QED
    BY <1>8, <1>10, <1>11, <1>12, <1>14 DEF IInv

LEMMA WriteFrameKeeps ==
  ASSUME IInv, NEW t \in Thread, WriteFrame(t)
  PROVE  IInv'
  <1> DEFINE len == pending[t].len
             rows == Append(index, FrameRow(t))
  <1>1. pending[t] \in Record /\ pending[t].kind = "frame" /\ pending[t] # NoRecord
    BY DEF IInv, TypeOK, WriteFrame
  <1>2. /\ len \in Nat /\ IndexLine \in Nat \ {0}
        /\ Demand(pending[t]) = len + IndexLine
    BY <1>1, WriterAssumption DEF Demand, Record
  <1>3. artifact_complete /\ bytes_written + (len + IndexLine) <= ByteLimit
    BY <1>2 DEF WriteFrame, Fits
  <1>4. PICK n \in Inserted("frames", len), m \in Inserted("index", IndexLine) :
          LET whole == n = len /\ m = IndexLine IN
          /\ size' = [size EXCEPT !["frames"] = @ + n, !["index"] = @ + m]
          /\ good' = [good EXCEPT !["frames"] = n = len, !["index"] = m = IndexLine]
          /\ index' = IF m = IndexLine THEN rows ELSE index
          /\ frame_bytes' = IF whole THEN frame_bytes + len ELSE frame_bytes
          /\ artifact_complete' = (artifact_complete /\ whole)
          /\ storage_failed' = (storage_failed \/ ~whole)
    <2>1. good["frames"] /\ good["index"]
      BY <1>3 DEF IInv, WholeInv, Stream
    <2> QED
      BY <2>1 DEF WriteFrame, Took
  <1>5. /\ pc = "open"
        /\ UNCHANGED <<clock, pc, durable, records_not_persisted, verdicts>>
        /\ bytes_written' = bytes_written + (len + IndexLine)
        /\ next_frame_id' = next_frame_id + 1
        /\ pending' = [pending EXCEPT ![t] = NoRecord]
        /\ offered' = offered + 1
    BY <1>2 DEF WriteFrame
  <1>6. /\ rows \in Seq(IndexRow)
        /\ IndexPrefixAccepted(rows)
        /\ \A i \in DOMAIN rows :
             rows[i].monotonic_ns <= clock /\ rows[i].at = rows[i].offset
        /\ Len(rows) = next_frame_id + 1
        /\ rows # << >>
        /\ rows[Len(rows)].offset + rows[Len(rows)].length = frame_bytes + len
    BY <1>1, <1>3, AppendExtendsIndex DEF IInv
  <1> HIDE DEF len, rows
  <1>7. n \in Nat /\ n <= len /\ m \in Nat /\ m <= IndexLine
    BY <1>2, <1>4 DEF Inserted
  <1>8. size' = [x \in Stream |-> IF x = "frames" THEN size[x] + n
                                   ELSE IF x = "index" THEN size[x] + m ELSE size[x]]
    <2>1. size \in [Stream -> Nat]
      BY DEF IInv, TypeOK
    <2> QED
      BY <1>4, <2>1 DEF Stream
  <1>9. TypeOK'
    <2>1. size' \in [Stream -> Nat]
      <3>1. \A x \in Stream : size[x] + n \in Nat /\ size[x] + m \in Nat /\ size[x] \in Nat
        BY <1>7 DEF IInv, TypeOK
      <3> QED
        BY <1>8, <3>1
    <2>2. \A x \in Stream : durable'[x] <= size'[x]
      BY <1>5, <1>7, <1>8 DEF IInv, TypeOK
    <2>3. good' \in [Stream -> BOOLEAN]
      BY <1>4 DEF IInv, TypeOK
    <2>4. pending' \in [Thread -> Record \cup {NoRecord}]
      BY <1>5 DEF IInv, TypeOK
    <2>5. index' \in Seq(IndexRow) /\ frame_bytes' \in Nat
      BY <1>2, <1>4, <1>6 DEF IInv, TypeOK
    <2>6. artifact_complete' \in BOOLEAN /\ storage_failed' \in BOOLEAN
      BY <1>4
    <2> QED
      BY <1>2, <1>5, <2>1, <2>2, <2>3, <2>4, <2>5, <2>6 DEF IInv, TypeOK, verdicts
  <1>10. Written' = Written + (n + m)
    <2>1. /\ size'["frames"] = size["frames"] + n
          /\ size'["index"] = size["index"] + m
          /\ size'["controls"] = size["controls"]
          /\ size'["sessions"] = size["sessions"]
      BY <1>8 DEF Stream
    <2>2. \A x \in Stream : size[x] \in Nat
      BY DEF IInv, TypeOK
    <2> QED
      BY <1>7, <2>1, <2>2 DEF Written, Stream
  <1>11. IndexInv'
    BY <1>4, <1>5, <1>6 DEF IInv, IndexInv, IndexContract
  <1>12. BudgetKept'
    <2>1. Written <= bytes_written
      BY DEF IInv, BudgetKept, Written
    <2>2. Written \in Nat /\ bytes_written \in Nat
      BY WrittenIsNat DEF IInv, TypeOK
    <2> HIDE DEF Written
    <2>3. Written' <= bytes_written'
      BY <1>2, <1>5, <1>7, <1>10, <2>1, <2>2
    <2>4. bytes_written' <= ByteLimit
      BY <1>3, <1>5
    <2> QED
      BY <2>3, <2>4 DEF BudgetKept, Written
  <1>13. WholeInv'
    <2> SUFFICES ASSUME artifact_complete' PROVE WholeInv!2'
      BY DEF WholeInv
    <2>1. n = len /\ m = IndexLine
      BY <1>4
    <2>2. \A x \in Stream : good'[x]
      BY <1>3, <1>4, <2>1 DEF IInv, TypeOK, WholeInv, Stream
    <2>3. size'["frames"] = size["frames"] + len
      BY <1>4, <2>1 DEF IInv, TypeOK, Stream
    <2>4. index' = rows /\ frame_bytes' = frame_bytes + len
      BY <1>4, <2>1
    <2>5. /\ next_frame_id' = Len(index')
          /\ frame_bytes' = IndexEnd'
      BY <1>5, <1>6, <2>4 DEF IndexEnd
    <2>6. /\ frame_bytes = size["frames"]
          /\ records_not_persisted = 0
          /\ bytes_written = Written
      BY <1>3 DEF IInv, WholeInv
    <2> QED
      BY <1>5, <1>10, <2>1, <2>2, <2>3, <2>4, <2>5, <2>6
  <1>14. artifact_complete' => ~storage_failed'
    BY <1>3, <1>4, <1>5 DEF IInv, OwnerInv
  <1>15. OwnerInv' /\ MarkerMeansComplete'
    BY <1>5, <1>14 DEF IInv, OwnerInv, MarkerMeansComplete, verdicts
  <1> QED
    BY <1>9, <1>11, <1>12, <1>13, <1>15 DEF IInv

\* A flush that succeeds on every stream leaves the files whole.
LEMMA FinishFlushKeeps ==
  ASSUME IInv, FinishFlush
  PROVE  IInv'
  <1>1. PICK failing \in SUBSET {s \in Stream : size[s] > durable[s]} :
          /\ good' = [s \in Stream |-> good[s] /\ s \notin failing]
          /\ durable' = [s \in Stream |->
                           IF good[s] /\ s \notin failing THEN size[s] ELSE durable[s]]
    BY DEF FinishFlush
  <1>2. IF \A s \in Stream : good'[s]
          THEN UNCHANGED flags
          ELSE storage_failed' = TRUE /\ artifact_complete' = FALSE
    BY DEF FinishFlush
  <1>3. /\ pc = "open" /\ pc' = "flushed"
        /\ UNCHANGED <<clock, pending, offered, index, size, counters, verdicts>>
    BY DEF FinishFlush
  <1>4. TypeOK'
    <2>1. durable' \in [Stream -> Nat] /\ good' \in [Stream -> BOOLEAN]
      BY <1>1 DEF IInv, TypeOK
    <2>2. \A s \in Stream : durable'[s] <= size'[s]
      BY <1>1, <1>3 DEF IInv, TypeOK
    <2>3. artifact_complete' \in BOOLEAN /\ storage_failed' \in BOOLEAN
      BY <1>2 DEF IInv, TypeOK, flags
    <2> QED
      BY <1>3, <2>1, <2>2, <2>3 DEF IInv, TypeOK, counters, verdicts
  <1>5. IndexInv' /\ BudgetKept'
    BY <1>3 DEF IInv, IndexInv, IndexContract, BudgetKept, counters
  <1>6. ASSUME artifact_complete'
        PROVE  artifact_complete /\ \A s \in Stream : good'[s]
    BY <1>2, <1>6 DEF flags
  <1>7. WholeInv'
    BY <1>3, <1>6 DEF IInv, WholeInv, IndexEnd, Written, counters
  <1>8. ASSUME artifact_complete'
        PROVE  durable' = size'
    <2>1. durable' = [s \in Stream |-> size[s]]
      BY <1>1, <1>6, <1>8
    <2> QED
      BY <1>3, <2>1 DEF IInv, TypeOK
  <1>9. artifact_complete' => ~storage_failed'
    BY <1>2, <1>3, <1>6 DEF IInv, OwnerInv, flags
  <1>10. OwnerInv' /\ MarkerMeansComplete'
    BY <1>3, <1>8, <1>9 DEF IInv, OwnerInv, MarkerMeansComplete, verdicts, NoManifest
  <1> QED
    BY <1>4, <1>5, <1>7, <1>10 DEF IInv

LEMMA FinishManifestKeeps ==
  ASSUME IInv, NEW sessions_ok \in BOOLEAN, FinishManifest(sessions_ok)
  PROVE  IInv'
  <1> DEFINE status == Judgement(sessions_ok)
  <1>1. PICK written \in BOOLEAN :
          /\ WriteManifest(status, written)
          /\ pc' = IF written /\ status = "complete" THEN "judged" ELSE "finished"
    BY DEF FinishManifest
  <1>2. /\ pc = "flushed"
        /\ UNCHANGED <<clock, pending, offered, index, size, durable, good,
                       counters, finished_successfully, marker>>
    BY DEF FinishManifest
  <1>3. /\ status \in Status
        /\ status = "complete" => artifact_complete /\ ~storage_failed
    BY DEF Judgement, Status
  <1> HIDE DEF status
  <1>4. CASE written
    <2>1. manifest' = status /\ UNCHANGED flags
      BY <1>1, <1>4 DEF WriteManifest
    <2>2. TypeOK'
      BY <1>1, <1>2, <1>3, <2>1 DEF IInv, TypeOK, counters, flags
    <2>3. IndexInv' /\ BudgetKept' /\ WholeInv'
      BY <1>2, <2>1 DEF IInv, IndexInv, IndexContract, BudgetKept, WholeInv,
                        IndexEnd, Written, counters, flags
    <2>4. OwnerInv' /\ MarkerMeansComplete'
      BY <1>1, <1>2, <1>3, <1>4, <2>1 DEF IInv, OwnerInv, MarkerMeansComplete, flags
    <2> QED
      BY <2>2, <2>3, <2>4 DEF IInv
  <1>5. CASE ~written
    <2>1. /\ storage_failed' = TRUE /\ artifact_complete' = FALSE
          /\ manifest' = manifest /\ pc' = "finished"
      BY <1>1, <1>5 DEF WriteManifest
    <2>2. TypeOK'
      BY <1>2, <2>1 DEF IInv, TypeOK, counters
    <2>3. IndexInv' /\ BudgetKept' /\ WholeInv'
      BY <1>2, <2>1 DEF IInv, IndexInv, IndexContract, BudgetKept, WholeInv, counters
    <2>4. OwnerInv' /\ MarkerMeansComplete'
      BY <1>2, <2>1 DEF IInv, OwnerInv, MarkerMeansComplete
    <2> QED
      BY <2>2, <2>3, <2>4 DEF IInv
  <1> QED
    BY <1>4, <1>5

LEMMA FinishMarkerKeeps ==
  ASSUME IInv, FinishMarker
  PROVE  IInv'
  <1> USE DEF FinishMarker
  <1>1. TypeOK'
    BY DEF IInv, TypeOK, counters
  <1>2. IndexInv' /\ BudgetKept' /\ WholeInv'
    BY DEF IInv, IndexInv, IndexContract, BudgetKept, WholeInv, IndexEnd, Written, counters
  <1>3. OwnerInv' /\ MarkerMeansComplete'
    BY DEF IInv, OwnerInv, MarkerMeansComplete
  <1> QED
    BY <1>1, <1>2, <1>3 DEF IInv

LEMMA TickKeeps ==
  ASSUME IInv, Tick
  PROVE  IInv'
  <1> USE DEF Tick, counters, flags, verdicts
  <1>1. TypeOK'
    BY DEF IInv, TypeOK
  <1>2. IndexInv'
    <2>1. \A i \in DOMAIN index : index[i].monotonic_ns \in Nat
      <3>1. \A row \in IndexRow : row.monotonic_ns \in Nat
        BY DEF IndexRow
      <3>2. \A i \in DOMAIN index : index[i] \in IndexRow
        BY DEF IInv, TypeOK
      <3> QED
        BY <3>1, <3>2
    <2> QED
      BY <2>1 DEF IInv, TypeOK, IndexInv, IndexContract
  <1>3. BudgetKept' /\ WholeInv'
    BY DEF IInv, BudgetKept, WholeInv, IndexEnd, Written
  <1>4. OwnerInv' /\ MarkerMeansComplete'
    BY DEF IInv, OwnerInv, MarkerMeansComplete
  <1> QED
    BY <1>1, <1>2, <1>3, <1>4 DEF IInv

\* What the buffers spill when the process ends lies between what was flushed
\* and what was inserted.
LEMMA ProcessEndsKeeps ==
  ASSUME IInv, ProcessEnds
  PROVE  IInv'
  <1> USE DEF ProcessEnds, counters, flags, verdicts
  <1>1. /\ durable' \in [Stream -> Nat]
        /\ \A s \in Stream : durable[s] <= durable'[s] /\ durable'[s] <= size[s]
    BY DEF IInv, TypeOK, Stream
  <1>2. TypeOK'
    BY <1>1 DEF IInv, TypeOK
  <1>3. IndexInv' /\ BudgetKept' /\ WholeInv'
    BY DEF IInv, IndexInv, IndexContract, BudgetKept, WholeInv, IndexEnd, Written
  <1>4. durable = size => durable' = size
    <2> SUFFICES ASSUME durable = size
                 PROVE  \A s \in Stream : durable'[s] = size[s]
      BY <1>1 DEF IInv, TypeOK
    <2> QED
      BY <1>1 DEF IInv, TypeOK
  <1>5. OwnerInv' /\ MarkerMeansComplete'
    BY <1>4 DEF IInv, OwnerInv, MarkerMeansComplete, NoManifest
  <1> QED
    BY <1>2, <1>3, <1>5 DEF IInv

-----------------------------------------------------------------------------
(* The theorems *)

LEMMA NextKeepsIInv == IInv /\ [Next]_vars => IInv'
  <1> SUFFICES ASSUME IInv, [Next]_vars PROVE IInv'
    OBVIOUS
  <1>1. CASE ConstructRefused \/ Construct
    BY <1>1, ConstructKeeps
  <1>2. ASSUME NEW t \in Thread, NEW kind \in {"frame", "session", "control"},
               NEW len \in Sizes, Begin(t, kind, len)
        PROVE  IInv'
    BY <1>2, BeginKeeps
  <1>3. ASSUME NEW t \in Thread, RefuseRecord(t) \/ WriteRow(t) \/ WriteFrame(t)
        PROVE  IInv'
    BY <1>3, RefuseRecordKeeps, WriteRowKeeps, WriteFrameKeeps
  <1>4. CASE FinishFlush
    BY <1>4, FinishFlushKeeps
  <1>5. ASSUME NEW sessions_ok \in BOOLEAN, FinishManifest(sessions_ok)
        PROVE  IInv'
    BY <1>5, FinishManifestKeeps
  <1>6. CASE FinishMarker \/ Tick \/ ProcessEnds
    BY <1>6, FinishMarkerKeeps, TickKeeps, ProcessEndsKeeps
  <1>7. CASE UNCHANGED vars
    <2> USE <1>7 DEF vars, counters, flags, verdicts
    <2>1. TypeOK' /\ OwnerInv' /\ MarkerMeansComplete'
      BY DEF IInv, TypeOK, OwnerInv, MarkerMeansComplete
    <2>2. IndexInv' /\ BudgetKept' /\ WholeInv'
      BY DEF IInv, IndexInv, IndexContract, BudgetKept, WholeInv, IndexEnd, Written
    <2> QED
      BY <2>1, <2>2 DEF IInv
  <1> QED
    BY <1>1, <1>2, <1>3, <1>4, <1>5, <1>6, <1>7 DEF Next

\* The invariant behind the properties of the writer holds in every behaviour.
THEOREM WriterInvariant == Spec => []IInv
  BY InitIInv, NextKeepsIInv, PTL DEF Spec

\* Type correctness of the writer; no file holds more than was inserted.
THEOREM WriterTypeCorrect == Spec => []TypeOK
  <1>1. IInv => TypeOK
    BY DEF IInv
  <1> QED
    BY <1>1, WriterInvariant, PTL

\* Whatever interleaving, refusal, short write or crash: frames.jsonl satisfies
\* the contract of read_frame_index.
THEOREM IndexAlwaysAccepted == Spec => []IndexContract
  <1>1. IInv => IndexContract
    BY DEF IInv, IndexInv
  <1> QED
    BY <1>1, WriterInvariant, PTL

\* A line of the index that survives points at its own payload.
THEOREM RowsAreSound == Spec => []RowsPointAtTheirPayload
  <1>1. IInv => RowsPointAtTheirPayload
    BY DEF IInv, IndexInv, RowsPointAtTheirPayload, DurableRows
  <1> QED
    BY <1>1, WriterInvariant, PTL

\* The byte budget is never exceeded.
THEOREM BudgetIsKept == Spec => []BudgetKept
  <1>1. IInv => BudgetKept
    BY DEF IInv
  <1> QED
    BY <1>1, WriterInvariant, PTL

\* A manifest that says complete describes whole files.
THEOREM CompleteMeansDurable == Spec => []CompleteIsDurable
  <1>1. ASSUME IInv PROVE CompleteIsDurable
    <2> SUFFICES ASSUME manifest = "complete" PROVE CompleteIsDurable!2
      BY DEF CompleteIsDurable
    <2>1. artifact_complete /\ durable = size
      BY <1>1 DEF IInv, OwnerInv
    <2>2. /\ next_frame_id = Len(index) /\ frame_bytes = size["frames"]
          /\ records_not_persisted = 0 /\ bytes_written = Written
      BY <1>1, <2>1 DEF IInv, WholeInv
    <2> QED
      BY <2>1, <2>2 DEF Written
  <1> QED
    BY <1>1, WriterInvariant, PTL

\* The marker and the status of success only follow a complete manifest.
THEOREM MarkerFollowsManifest == Spec => []MarkerMeansComplete
  <1>1. IInv => MarkerMeansComplete
    BY DEF IInv
  <1> QED
    BY <1>1, WriterInvariant, PTL

-----------------------------------------------------------------------------
(* The writer implements the evidence log *)

LEMMA LogInit == Init => Log!Init
  BY DEF Init, Log!Init, NoManifest

\* A record that is taken or refused is offered to the log; the failures of a
\* write, a flush and the manifest are losses; a manifest that replaces the
\* "running" one is the verdict.
LEMMA LogStep ==
  ASSUME IInv, Next
  PROVE  Log!Next \/ UNCHANGED Log!vars
  <1> DEFINE kept    == offered - records_not_persisted
             verdict == IF manifest = NoManifest THEN "running" ELSE manifest
             intact  == artifact_complete /\ ~storage_failed
  <1>1. CASE ConstructRefused
    BY <1>1 DEF ConstructRefused, counters, flags, verdicts, Log!vars
  <1>2. CASE Construct
    <2>1. PICK written \in BOOLEAN : WriteManifest("running", written)
      BY <1>2 DEF Construct
    <2>2. /\ UNCHANGED <<offered, records_not_persisted>>
          /\ manifest = NoManifest
      BY <1>2 DEF Construct, counters, IInv, OwnerInv
    <2>3. CASE written
      BY <2>1, <2>2, <2>3 DEF WriteManifest, flags, Log!vars, NoManifest
    <2>4. CASE ~written
      BY <2>1, <2>2, <2>4 DEF WriteManifest, Log!Next, Log!Lose, NoManifest
    <2> QED
      BY <2>3, <2>4
  <1>3. ASSUME NEW t \in Thread, NEW kind \in {"frame", "session", "control"},
               NEW len \in Sizes, Begin(t, kind, len)
        PROVE  UNCHANGED Log!vars
    BY <1>3 DEF Begin, counters, flags, verdicts, Log!vars
  <1>4. ASSUME NEW t \in Thread, RefuseRecord(t)
        PROVE  Log!Next
    <2>1. /\ offered' = offered + 1
          /\ records_not_persisted' = records_not_persisted + 1
          /\ ~artifact_complete' /\ manifest = "running" /\ manifest' = manifest
      BY <1>4 DEF RefuseRecord, Refuse, verdicts, IInv, OwnerInv
    <2>2. kept' = kept
      BY <2>1 DEF IInv, TypeOK
    <2> QED
      BY <2>1, <2>2 DEF Log!Next, Log!Offer, NoManifest
  <1>5. ASSUME NEW t \in Thread, WriteRow(t) \/ WriteFrame(t)
        PROVE  Log!Next
    <2>1. /\ offered' = offered + 1
          /\ records_not_persisted' = records_not_persisted
          /\ artifact_complete /\ manifest = "running" /\ manifest' = manifest
      BY <1>5 DEF WriteRow, WriteFrame, Fits, verdicts, IInv, OwnerInv
    <2>2. kept' = kept + 1
      BY <2>1 DEF IInv, TypeOK
    <2>3. intact /\ intact' \in BOOLEAN
      BY <1>5, <2>1 DEF WriteRow, WriteFrame, IInv, OwnerInv
    <2> QED
      BY <2>1, <2>2, <2>3 DEF Log!Next, Log!Offer, NoManifest
  <1>6. CASE FinishFlush
    <2>1. /\ UNCHANGED <<offered, records_not_persisted>>
          /\ manifest = "running" /\ manifest' = manifest
      BY <1>6 DEF FinishFlush, counters, verdicts, IInv, OwnerInv
    <2>2. UNCHANGED flags \/ (storage_failed' = TRUE /\ artifact_complete' = FALSE)
      BY <1>6 DEF FinishFlush
    <2> QED
      BY <2>1, <2>2 DEF Log!Next, Log!Lose, Log!vars, flags, NoManifest
  <1>7. ASSUME NEW sessions_ok \in BOOLEAN, FinishManifest(sessions_ok)
        PROVE  Log!Next
    <2>1. PICK written \in BOOLEAN : WriteManifest(Judgement(sessions_ok), written)
      BY <1>7 DEF FinishManifest
    <2>2. /\ UNCHANGED <<offered, records_not_persisted>>
          /\ manifest = "running"
      BY <1>7 DEF FinishManifest, counters, IInv, OwnerInv
    <2>3. CASE written
      BY <2>1, <2>2, <2>3 DEF WriteManifest, Judgement, flags, Log!Next, Log!Seal, NoManifest
    <2>4. CASE ~written
      BY <2>1, <2>2, <2>4 DEF WriteManifest, Log!Next, Log!Lose, NoManifest
    <2> QED
      BY <2>3, <2>4
  <1>8. CASE FinishMarker
    <2>1. /\ UNCHANGED <<offered, records_not_persisted, manifest>>
          /\ manifest = "complete" /\ artifact_complete' = artifact_complete
          /\ storage_failed' = (storage_failed \/ marker' # "written")
      BY <1>8 DEF FinishMarker, counters, IInv, OwnerInv
    <2>2. CASE marker' = "written"
      BY <2>1, <2>2 DEF Log!vars, IInv, TypeOK
    <2>3. CASE marker' # "written"
      BY <2>1, <2>3 DEF Log!Next, Log!FailAfterVerdict, NoManifest
    <2> QED
      BY <2>2, <2>3
  <1>9. CASE Tick \/ ProcessEnds
    BY <1>9 DEF Tick, ProcessEnds, counters, flags, verdicts, Log!vars
  <1> QED
    BY <1>1, <1>2, <1>3, <1>4, <1>5, <1>6, <1>7, <1>8, <1>9 DEF Next

\* Every behaviour of the writer is one of the evidence log: what is kept is a
\* prefix of what was offered, loss is final, and so is the verdict.
THEOREM WriterImplementsEvidenceLog == Spec => ImplementsEvidenceLog
  <1>1. UNCHANGED vars => UNCHANGED Log!vars
    BY DEF vars, counters, flags, verdicts, Log!vars
  <1>2. IInv /\ [Next]_vars => [Log!Next]_(Log!vars)
    BY <1>1, LogStep
  <1> QED
    BY <1>2, LogInit, WriterInvariant, PTL DEF Spec, ImplementsEvidenceLog, Log!Spec

-----------------------------------------------------------------------------
(* What the evidence log promises, and with it the writer *)

LogKept    == offered - records_not_persisted
LogIntact  == artifact_complete /\ ~storage_failed
LogVerdict == IF manifest = NoManifest THEN "running" ELSE manifest

LogInv ==
  /\ Log!TypeOK
  /\ LogIntact => LogKept = offered
  /\ Log!CompleteKeptAll

\* The steps of the log, in the terms of the writer.
LEMMA LogSteps ==
  ASSUME Log!Next
  PROVE  \/ /\ LogVerdict = "running" /\ LogVerdict' = LogVerdict
            /\ offered' = offered + 1
            /\ \/ LogIntact /\ LogKept' = LogKept + 1 /\ LogIntact' \in BOOLEAN
               \/ LogKept' = LogKept /\ LogIntact' = FALSE
         \/ /\ LogVerdict' = LogVerdict /\ LogIntact' = FALSE
            /\ offered' = offered /\ LogKept' = LogKept
         \/ /\ LogVerdict = "running" /\ LogVerdict' \in {"complete", "incomplete", "failed"}
            /\ LogVerdict' = "complete" => LogIntact
            /\ offered' = offered /\ LogKept' = LogKept /\ LogIntact' = LogIntact
  BY DEF Log!Next, Log!Offer, Log!Lose, Log!Seal, Log!FailAfterVerdict, LogKept, LogIntact, LogVerdict

LEMMA LogInvInductive ==
  /\ Log!Init => LogInv
  /\ LogInv /\ [Log!Next]_(Log!vars) => LogInv'
  <1>0. LogInv <=> /\ offered \in Nat /\ LogKept \in Nat /\ LogIntact \in BOOLEAN
                   /\ LogVerdict \in {"running", "complete", "incomplete", "failed"}
                   /\ LogIntact => LogKept = offered
                   /\ LogVerdict = "complete" => LogKept = offered
    BY DEF LogInv, Log!TypeOK, Log!CompleteKeptAll, Log!Verdict, LogKept, LogIntact, LogVerdict
  <1>9. LogInv' <=> /\ offered' \in Nat /\ LogKept' \in Nat /\ LogIntact' \in BOOLEAN
                    /\ LogVerdict' \in {"running", "complete", "incomplete", "failed"}
                    /\ LogIntact' => LogKept' = offered'
                    /\ LogVerdict' = "complete" => LogKept' = offered'
    BY DEF LogInv, Log!TypeOK, Log!CompleteKeptAll, Log!Verdict, LogKept, LogIntact, LogVerdict
  <1>1. Log!Init => LogInv
    BY <1>0 DEF Log!Init, LogKept, LogIntact, LogVerdict
  <1>2. ASSUME LogInv, [Log!Next]_(Log!vars) PROVE LogInv'
    <2>1. CASE Log!Next
      <3>1. /\ offered' \in {offered, offered + 1} /\ LogKept' \in {LogKept, LogKept + 1}
            /\ LogVerdict' \in {LogVerdict, "complete", "incomplete", "failed"}
            /\ LogVerdict' = "complete" =>
                 (LogVerdict = "complete" \/ LogIntact) /\ offered' = offered /\ LogKept' = LogKept
        BY <2>1, LogSteps
      <3>2. LogIntact' => /\ LogIntact
                          /\ \/ offered' = offered + 1 /\ LogKept' = LogKept + 1
                             \/ offered' = offered /\ LogKept' = LogKept
        BY <2>1, LogSteps
      <3>3. LogIntact' \in BOOLEAN
        BY Zenon DEF LogIntact
      <3> QED
        BY <1>0, <1>9, <1>2, <3>1, <3>2, <3>3
    <2>2. CASE UNCHANGED Log!vars
      <3>1. offered' = offered /\ LogKept' = LogKept /\ LogVerdict' = LogVerdict
            /\ LogIntact' = LogIntact
        BY <2>2 DEF Log!vars, LogKept, LogIntact, LogVerdict
      <3> QED
        BY <1>0, <1>9, <1>2, <3>1
    <2> QED
      BY <1>2, <2>1, <2>2
  <1> QED
    BY <1>1, <1>2

\* A log judged complete kept every record it was offered: so does the writer,
\* whatever failed before and after its verdict.
THEOREM CompleteLogIsWhole == Spec => []Log!CompleteKeptAll
  <1>1. LogInv => Log!CompleteKeptAll
    BY DEF LogInv
  <1>2. Log!Spec => []LogInv
    BY LogInvInductive, PTL DEF Log!Spec
  <1> QED
    BY <1>1, <1>2, WriterImplementsEvidenceLog, PTL DEF ImplementsEvidenceLog

\* A verdict of the log, and so a manifest that has replaced the "running" one,
\* is never replaced.
THEOREM VerdictsAreFinal == Spec => Log!VerdictIsFinal
  <1>1. [Log!Next]_(Log!vars) =>
          [LogVerdict # "running" => LogVerdict' = LogVerdict]_(Log!vars)
    BY LogSteps
  <1>2. Log!VerdictIsFinal <=>
          [][LogVerdict # "running" => LogVerdict' = LogVerdict]_(Log!vars)
    BY DEF Log!VerdictIsFinal, LogVerdict
  <1> QED
    BY <1>1, <1>2, WriterImplementsEvidenceLog, PTL DEF ImplementsEvidenceLog, Log!Spec
=============================================================================
