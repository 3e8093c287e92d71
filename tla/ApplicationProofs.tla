-------------------------- MODULE ApplicationProofs --------------------------
(***************************************************************************)
(* Proofs about Application, for command lines of any length, any number   *)
(* of cases, candidates and attempts.                                      *)
(***************************************************************************)
EXTENDS Application, TLAPS

\* The commands with an action, and the options are other fields.
LEMMA CommandShape ==
  ASSUME TypeOK
  PROVE  /\ line["command"] \in {"help", "matrix", "sandbox", "placement", "discover", "serve"} =>
              line["action"] = ""
         /\ line["command"] = "research" => line["action"] \in {"run", "analyze"}
         /\ line["command"] = "profile" =>
              line["action"] \in {"show", "list", "validate", "scaffold", "promote", "unknown"}
  BY DEF TypeOK, Commands

LEMMA OptionsAreFields == "command" \notin Fields /\ "action" \notin Fields
  BY DEF Fields, Options

LEMMA InitIInv == Init => IInv
  <1> SUFFICES ASSUME Init PROVE IInv
    OBVIOUS
  <1>1. PICK command \in Commands : line = Unset(command)
    BY DEF Init
  <1>0. command \in Commands /\ \E c, a : command = <<c, a>>
    BY DEF Commands
  <1>2. /\ {"command", "action"} \subseteq DOMAIN line
        /\ line["command"] = command[1] /\ line["action"] = command[2]
    BY <1>1 DEF Unset
  <1>3. <<command[1], command[2]>> = command
    BY <1>0
  <1>4. TypeOK
    BY <1>2, <1>3 DEF Init, TypeOK, Stages
  <1> QED
    BY <1>4 DEF Init, IInv, StageInv, CaptureInv, EvidenceInv, ZeroMeansDone

-----------------------------------------------------------------------------
\* A step that touches neither the line nor the rows.
LEMMA QuietKeeps ==
  ASSUME IInv, UNCHANGED <<line, at, outcomes, discovery>>, pc' \in Stages,
         exit' \in {0 - 1, 0, 1, 2, 4}, StageInv', "capture" \in done' => "capture" \in done,
         ZeroMeansDone'
  PROVE  IInv'
  <1>1. TypeOK'
    BY DEF IInv, TypeOK, discovery
  <1>2. CaptureInv'
    BY DEF IInv, CaptureInv
  <1>3. EvidenceInv'
    BY DEF IInv, EvidenceInv, discovery
  <1> QED
    BY <1>1, <1>2, <1>3 DEF IInv

LEMMA NotZero == exit' # 0 => ZeroMeansDone'
  BY DEF ZeroMeansDone

LEMMA NotOver == IInv /\ pc # "exited" => exit = 0 - 1 /\ exit # 0
  <1> SUFFICES ASSUME IInv, pc # "exited" PROVE exit = 0 - 1 /\ exit # 0
    OBVIOUS
  <1>1. exit = 0 - 1
    BY DEF IInv, StageInv
  <1> QED
    BY <1>1

LEMMA StepKeepsIInv ==
  ASSUME IInv, [Next]_vars
  PROVE  IInv'
  <1>1. /\ line["command"] \in {"help", "matrix", "sandbox", "placement", "discover", "serve"} =>
             line["action"] = ""
        /\ line["command"] = "research" => line["action"] \in {"run", "analyze"}
        /\ line["command"] = "profile" =>
             line["action"] \in {"show", "list", "validate", "scaffold", "promote", "unknown"}
    BY CommandShape DEF IInv
  <1>2. CASE Reject \/ RefuseSandbox \/ AnalyzeNeedsOneInput \/ RefuseCapture \/ RefuseDiscovery
             \/ InternalError
    <2>1. /\ UNCHANGED <<line, at, outcomes, discovery, done>>
          /\ pc' = "exited" /\ exit' \in {2, 4}
      BY <1>2 DEF Reject, RefuseSandbox, AnalyzeNeedsOneInput, RefuseCapture, RefuseDiscovery,
         InternalError, Exit, Quiet
    <2>2. StageInv' /\ ZeroMeansDone'
      <3>1. exit' # 0
        BY <2>1
      <3> QED
        BY <2>1, <3>1, NotZero DEF IInv, StageInv
    <2> QED
      BY <2>1, <2>2, QuietKeeps DEF Stages
  <1>3. ASSUME NEW x \in BOOLEAN, PrintOnly(x) PROVE IInv'
    <2>1. UNCHANGED <<line, at, outcomes, discovery>> /\ pc' \in Stages /\ exit' \in {0 - 1, 0, 1, 2, 4}
      BY <1>3 DEF PrintOnly, Quiet, Exit, Stages, IInv, TypeOK, discovery
    <2>2. StageInv'
      BY <1>1, <1>3 DEF PrintOnly, Quiet, Exit, IInv, StageInv
    <2>3. "capture" \in done' => "capture" \in done
      BY <1>3 DEF PrintOnly, Quiet
    <2>5. ZeroMeansDone'
      BY <1>3, <1>1 DEF PrintOnly, Quiet, Exit, discovery, IInv, StageInv, ZeroMeansDone, ResearchRun, Analyze
    <2> QED
      BY <2>1, <2>2, <2>3, <2>5, QuietKeeps
  <1>4. CASE StartSandbox \/ StartViewer \/ StartPlacement \/ StartProfile \/ StartResearch
    <2>1. /\ UNCHANGED <<line, at, outcomes, discovery, done, exit>>
          /\ pc = "main" /\ ~Rejected(line)
          /\ pc' \in {"sandbox", "viewing", "placing", "writing", "catalog", "analysing",
                      "ws_capture", "rest_capture"}
      BY <1>4 DEF StartSandbox, StartViewer, StartPlacement, StartProfile, StartResearch,
         Start, Quiet
    <2>2. exit = 0 - 1 /\ exit # 0 /\ done = {}
      BY <2>1, NotOver DEF IInv, StageInv
    <2>3. StageInv'
      BY <1>1, <1>4, <2>1, <2>2 DEF StartSandbox, StartViewer, StartPlacement, StartProfile,
         StartResearch, Start, StageInv, ResearchRun, Analyze
    <2>4. ZeroMeansDone'
      BY <2>1, <2>2, NotZero
    <2> QED
      BY <2>1, <2>2, <2>3, <2>4, QuietKeeps DEF Stages
  <1>5. CASE PassProbeGates
    <2>1. UNCHANGED <<line, at, outcomes, discovery>> /\ pc' \in Stages /\ exit' \in {0 - 1, 0, 1, 2, 4}
      BY <1>5 DEF PassProbeGates, Quiet, Exit, Stages, IInv, TypeOK, discovery
    <2>2. StageInv'
      BY <1>1, <1>5 DEF PassProbeGates, Quiet, Exit, IInv, StageInv
    <2>3. "capture" \in done' => "capture" \in done
      BY <1>5 DEF PassProbeGates, Quiet
    <2>5. ZeroMeansDone'
      BY <1>5, NotOver, NotZero DEF PassProbeGates
    <2> QED
      BY <2>1, <2>2, <2>3, <2>5, QuietKeeps
  <1>6. CASE JudgeProbes
    <2>1. UNCHANGED <<line, at, outcomes, discovery>> /\ pc' \in Stages /\ exit' \in {0 - 1, 0, 1, 2, 4}
      BY <1>6 DEF JudgeProbes, Quiet, Exit, Stages, IInv, TypeOK, discovery
    <2>2. StageInv'
      BY <1>1, <1>6 DEF JudgeProbes, Quiet, Exit, IInv, StageInv
    <2>3. "capture" \in done' => "capture" \in done
      BY <1>6 DEF JudgeProbes, Quiet
    <2>5. ZeroMeansDone'
      <3> SUFFICES ASSUME exit' = 0 PROVE ZeroMeansDone!2'
        BY DEF ZeroMeansDone
      <3>1. pc = "probing" /\ outcomes # << >> /\ \A i \in DOMAIN outcomes : outcomes[i]
        BY <1>6 DEF JudgeProbes, Exit, IInv, StageInv
      <3>2. line["command"] = "sandbox" /\ line["action"] = ""
        BY <1>1, <3>1 DEF IInv, StageInv, ResearchRun, Analyze
      <3> QED
        BY <2>1, <3>1, <3>2 DEF ResearchRun, Analyze
    <2> QED
      BY <2>1, <2>2, <2>3, <2>5, QuietKeeps
  <1>7. CASE ViewerFails
    <2>1. UNCHANGED <<line, at, outcomes, discovery>> /\ pc' \in Stages /\ exit' \in {0 - 1, 0, 1, 2, 4}
      BY <1>7 DEF ViewerFails, Quiet, Exit, Stages, IInv, TypeOK, discovery
    <2>2. StageInv'
      BY <1>1, <1>7 DEF ViewerFails, Quiet, Exit, IInv, StageInv
    <2>3. "capture" \in done' => "capture" \in done
      BY <1>7 DEF ViewerFails, Quiet
    <2>5. ZeroMeansDone'
      BY <1>7, <1>1 DEF ViewerFails, Quiet, Exit, discovery, IInv, StageInv, ZeroMeansDone, ResearchRun, Analyze
    <2> QED
      BY <2>1, <2>2, <2>3, <2>5, QuietKeeps
  <1>8. ASSUME NEW x \in BOOLEAN, WsCaptureEnds(x) PROVE IInv'
    <2>1. UNCHANGED <<line, at, outcomes, discovery>> /\ pc' \in Stages /\ exit' \in {0 - 1, 0, 1, 2, 4}
      BY <1>8 DEF WsCaptureEnds, Quiet, Exit, Stages, IInv, TypeOK, discovery
    <2>2. StageInv'
      BY <1>1, <1>8 DEF WsCaptureEnds, Quiet, Exit, IInv, StageInv
    <2>3. "capture" \in done' => "capture" \in done
      BY <1>8 DEF WsCaptureEnds, Quiet
    <2>5. ZeroMeansDone'
      <3>1. pc = "ws_capturing" /\ (exit' = exit \/ exit' = 1)
        BY <1>8 DEF WsCaptureEnds, Exit
      <3> QED
        <4>1. exit # 0
          BY <3>1, NotOver
        <4>2. exit' # 0
          BY <3>1, <4>1
        <4> QED
          BY <4>2, NotZero
    <2> QED
      BY <2>1, <2>2, <2>3, <2>5, QuietKeeps
  <1>9. ASSUME NEW x \in BOOLEAN, RestCaptureEnds(x) PROVE IInv'
    <2>1. UNCHANGED <<line, at, outcomes, discovery>> /\ pc' \in Stages /\ exit' \in {0 - 1, 0, 1, 2, 4}
      BY <1>9 DEF RestCaptureEnds, Quiet, Exit, Stages, IInv, TypeOK, discovery
    <2>2. StageInv'
      BY <1>1, <1>9 DEF RestCaptureEnds, Quiet, Exit, IInv, StageInv
    <2>3. "capture" \in done' => "capture" \in done
      BY <1>9 DEF RestCaptureEnds, Quiet
    <2>5. ZeroMeansDone'
      <3> SUFFICES ASSUME exit' = 0 PROVE ZeroMeansDone!2'
        BY DEF ZeroMeansDone
      <3>1. pc = "rest_capturing" /\ "complete" \in done'
        <4>1. CASE x
          BY <1>9, <4>1 DEF RestCaptureEnds
        <4>2. CASE ~x
          <5>1. exit' = 1
            BY <1>9, <4>2, Zenon DEF RestCaptureEnds, Exit
          <5> QED
            BY <5>1
        <4> QED
          BY <4>1, <4>2
      <3>2. line["command"] = "research" /\ line["action"] = "run" /\ line["transport"] = "rest"
        BY <1>1, <3>1 DEF IInv, StageInv, ResearchRun, Analyze
      <3> QED
        BY <2>1, <3>1, <3>2 DEF ResearchRun, Analyze
    <2> QED
      BY <2>1, <2>2, <2>3, <2>5, QuietKeeps
  <1>10. ASSUME NEW x \in BOOLEAN, AnalysisEnds(x) PROVE IInv'
    <2>1. UNCHANGED <<line, at, outcomes, discovery>> /\ pc' \in Stages /\ exit' \in {0 - 1, 0, 1, 2, 4}
      BY <1>10 DEF AnalysisEnds, Quiet, Exit, Stages, IInv, TypeOK, discovery
    <2>2. StageInv'
      BY <1>1, <1>10 DEF AnalysisEnds, Quiet, Exit, IInv, StageInv, ResearchRun, Analyze
    <2>3. "capture" \in done' => "capture" \in done
      BY <1>10 DEF AnalysisEnds, Quiet
    <2>5. ZeroMeansDone'
      <3> SUFFICES ASSUME exit' = 0 PROVE ZeroMeansDone!2'
        BY DEF ZeroMeansDone
      <3>1. pc = "analysing" /\ "analysis" \in done' /\ done \subseteq done'
        BY <1>10 DEF AnalysisEnds, Exit, IInv, StageInv
      <3>2. /\ line["command"] = "research" /\ line["action"] \in {"run", "analyze"}
            /\ line["action"] = "run" => "complete" \in done
        BY <1>1, <3>1 DEF IInv, StageInv, ResearchRun, Analyze
      <3> QED
        BY <2>1, <3>1, <3>2 DEF ResearchRun, Analyze
    <2> QED
      BY <2>1, <2>2, <2>3, <2>5, QuietKeeps
  <1>11. ASSUME NEW x \in {0, 2}, PlacementEnds(x) PROVE IInv'
    <2>1. UNCHANGED <<line, at, outcomes, discovery>> /\ pc' \in Stages /\ exit' \in {0 - 1, 0, 1, 2, 4}
      BY <1>11 DEF PlacementEnds, Quiet, Exit, Stages, IInv, TypeOK, discovery
    <2>2. StageInv'
      BY <1>1, <1>11 DEF PlacementEnds, Quiet, Exit, IInv, StageInv
    <2>3. "capture" \in done' => "capture" \in done
      BY <1>11 DEF PlacementEnds, Quiet
    <2>5. ZeroMeansDone'
      BY <1>11, <1>1 DEF PlacementEnds, Quiet, Exit, discovery, IInv, StageInv, ZeroMeansDone, ResearchRun, Analyze
    <2> QED
      BY <2>1, <2>2, <2>3, <2>5, QuietKeeps
  <1>12. ASSUME NEW x \in BOOLEAN, LoadCatalog(x) PROVE IInv'
    <2>1. UNCHANGED <<line, at, outcomes, discovery>> /\ pc' \in Stages /\ exit' \in {0 - 1, 0, 1, 2, 4}
      BY <1>12 DEF LoadCatalog, Quiet, Exit, Stages, IInv, TypeOK, discovery
    <2>2. StageInv'
      BY <1>1, <1>12 DEF LoadCatalog, Quiet, Exit, IInv, StageInv
    <2>3. "capture" \in done' => "capture" \in done
      BY <1>12 DEF LoadCatalog, Quiet
    <2>5. ZeroMeansDone'
      BY <1>12, NotOver, NotZero DEF LoadCatalog, Exit
    <2> QED
      BY <2>1, <2>2, <2>3, <2>5, QuietKeeps
  <1>13. ASSUME NEW x \in BOOLEAN, WriteDocument(x) PROVE IInv'
    <2>1. UNCHANGED <<line, at, outcomes, discovery>> /\ pc' \in Stages /\ exit' \in {0 - 1, 0, 1, 2, 4}
      BY <1>13 DEF WriteDocument, Quiet, Exit, Stages, IInv, TypeOK, discovery
    <2>2. StageInv'
      BY <1>1, <1>13 DEF WriteDocument, Quiet, Exit, IInv, StageInv
    <2>3. "capture" \in done' => "capture" \in done
      BY <1>13 DEF WriteDocument, Quiet
    <2>5. ZeroMeansDone'
      <3> SUFFICES ASSUME exit' = 0 PROVE ZeroMeansDone!2'
        BY DEF ZeroMeansDone
      <3>1. pc = "writing" /\ (Unwatched \/ "document" \in done')
        BY <1>13 DEF WriteDocument, Exit, IInv, StageInv
      <3>3. Unwatched' <=> Unwatched
        BY <2>1 DEF Unwatched, Has
      <3>2. line["command"] = "profile" /\ line["action"] # "show"
            /\ line["action"] \notin {"run", "analyze"}
        BY <1>1, <3>1 DEF IInv, StageInv, ResearchRun, Analyze
      <3> QED
        BY <2>1, <3>1, <3>2, <3>3 DEF ResearchRun, Analyze
    <2> QED
      BY <2>1, <2>2, <2>3, <2>5, QuietKeeps
  <1>14. ASSUME NEW x \in 0..2, PrintMatches(x) PROVE IInv'
    <2>1. UNCHANGED <<line, at, outcomes, discovery>> /\ pc' \in Stages /\ exit' \in {0 - 1, 0, 1, 2, 4}
      BY <1>14 DEF PrintMatches, Quiet, Exit, Stages, IInv, TypeOK, discovery
    <2>2. StageInv'
      BY <1>1, <1>14 DEF PrintMatches, Quiet, Exit, IInv, StageInv
    <2>3. "capture" \in done' => "capture" \in done
      BY <1>14 DEF PrintMatches, Quiet
    <2>5. ZeroMeansDone'
      <3> SUFFICES ASSUME exit' = 0 PROVE ZeroMeansDone!2'
        BY DEF ZeroMeansDone
      <3>1. pc = "matching" /\ (line["action"] = "show" => "match" \in done')
        BY <1>14 DEF PrintMatches, Exit, IInv, StageInv
      <3>2. line["command"] = "profile" /\ line["action"] \notin {"scaffold", "promote", "run", "analyze"}
        BY <1>1, <3>1 DEF IInv, StageInv, ResearchRun, Analyze
      <3> QED
        BY <2>1, <3>1, <3>2 DEF ResearchRun, Analyze
    <2> QED
      BY <2>1, <2>2, <2>3, <2>5, QuietKeeps
  <1>15. ASSUME NEW x \in BOOLEAN, WriteProposal(x) PROVE IInv'
    <2>1. UNCHANGED <<line, at, outcomes, discovery>> /\ pc' \in Stages /\ exit' \in {0 - 1, 0, 1, 2, 4}
      BY <1>15 DEF WriteProposal, Quiet, Exit, Stages, IInv, TypeOK, discovery
    <2>2. StageInv'
      BY <1>1, <1>15 DEF WriteProposal, Quiet, Exit, IInv, StageInv
    <2>3. "capture" \in done' => "capture" \in done
      BY <1>15 DEF WriteProposal, Quiet
    <2>5. ZeroMeansDone'
      <3> SUFFICES ASSUME exit' = 0 PROVE ZeroMeansDone!2'
        BY DEF ZeroMeansDone
      <3>1. pc = "discovering" /\ "proposal" \in done' /\ stored = Len(evidence)
        BY <1>15 DEF WriteProposal, Exit, IInv, StageInv
      <3>2. line["command"] = "discover" /\ line["action"] = ""
        BY <1>1, <3>1 DEF IInv, StageInv
      <3>3. \A c \in accepted : \E i \in 1..stored : evidence[i] = [candidate |-> c, met |-> TRUE]
        <4>1. DOMAIN evidence = 1..stored
          BY <3>1 DEF IInv, TypeOK
        <4> QED
          BY <4>1 DEF IInv, EvidenceInv
      <3> QED
        BY <2>1, <3>1, <3>2, <3>3 DEF ResearchRun, Analyze, discovery
    <2> QED
      BY <2>1, <2>2, <2>3, <2>5, QuietKeeps
  <1>16. CASE CaptureBegins
    <2>1. /\ UNCHANGED <<line, at, outcomes, discovery>> /\ UNCHANGED exit
          /\ pc' \in {"ws_capturing", "rest_capturing"}
          /\ done' = done \cup {"capture"}
      BY <1>16 DEF CaptureBegins, Quiet
    <2>2. StageInv' /\ ResearchRun(line) /\ ~Rejected(line)
          /\ IF line["transport"] = "rest" THEN ~RestCaptureRefused(line)
                                           ELSE ~WsCaptureRefused(line)
      BY <1>16 DEF CaptureBegins, Quiet, IInv, StageInv
    <2>3. TypeOK' /\ EvidenceInv'
      BY <2>1 DEF IInv, TypeOK, Stages, EvidenceInv, discovery
    <2>4. CaptureInv'
      BY <2>1, <2>2 DEF CaptureInv
    <2>8. ZeroMeansDone'
      BY <1>16, NotOver, NotZero DEF CaptureBegins
    <2> QED
      BY <2>2, <2>3, <2>4, <2>8 DEF IInv
  <1>17. CASE ReadOption
    <2>1. /\ pc = "reading" /\ UNCHANGED <<pc, exit, at, outcomes, discovery, done>>
          /\ \E option \in Options : line' = [line EXCEPT ![option[1]] = option[2]]
      BY <1>17 DEF ReadOption
    <2>2. /\ DOMAIN line' = DOMAIN line
          /\ line'["command"] = line["command"] /\ line'["action"] = line["action"]
      BY <2>1, OptionsAreFields DEF Fields, IInv, TypeOK
    <2>3. TypeOK' /\ EvidenceInv'
      BY <2>1, <2>2 DEF IInv, TypeOK, EvidenceInv, discovery
    <2>4. done = {} /\ exit = 0 - 1
      BY <2>1 DEF IInv, StageInv
    <2> QED
      BY <2>1, <2>3, <2>4 DEF IInv, StageInv, CaptureInv, ZeroMeansDone
  <1>18. CASE EndOfLine
    <2>1. /\ pc = "reading" /\ pc' = "main" /\ UNCHANGED <<line, exit, at, outcomes, discovery, done>>
      BY <1>18 DEF EndOfLine
    <2>2. done = {} /\ exit = 0 - 1
      BY <2>1 DEF IInv, StageInv
    <2>3. TypeOK' /\ EvidenceInv'
      BY <2>1 DEF IInv, TypeOK, Stages, EvidenceInv, discovery
    <2> QED
      BY <2>1, <2>2, <2>3 DEF IInv, StageInv, CaptureInv, ZeroMeansDone
  <1>19. CASE ProbeCase
    <2>1. /\ pc = "probing" /\ UNCHANGED <<line, pc, exit, discovery>>
          /\ at' = at + 1
          /\ \E met \in BOOLEAN : outcomes' = Append(outcomes, met)
          /\ done' = done \cup {IF Private(line) THEN "private_probe" ELSE "public_probe"}
      BY <1>19 DEF ProbeCase
    <2>2. ~Private(line)
      BY <2>1 DEF IInv, StageInv, ProbeRefused
    <2>3. done' = done \cup {"public_probe"} /\ exit = 0 - 1 /\ exit # 0
      BY <2>1, <2>2, NotOver
    <2>4. outcomes' \in Seq(BOOLEAN) /\ at' \in Nat
      <3>1. PICK met \in BOOLEAN : outcomes' = Append(outcomes, met)
        BY <2>1
      <3>2. outcomes \in Seq(BOOLEAN) /\ at \in Nat
        BY DEF IInv, TypeOK
      <3>3. outcomes' \in Seq(BOOLEAN)
        BY <3>1, <3>2
      <3> QED
        BY <2>1, <3>2, <3>3
    <2>5. TypeOK' /\ EvidenceInv'
      BY <2>1, <2>4 DEF IInv, TypeOK, EvidenceInv, discovery
    <2>6. StageInv' /\ CaptureInv' /\ ZeroMeansDone'
      BY <2>1, <2>3, NotZero DEF IInv, StageInv, CaptureInv
    <2> QED
      BY <2>5, <2>6 DEF IInv
  <1>20. CASE StartDiscovery
    <2>1. /\ pc = "main" /\ pc' = "discovering" /\ line["command"] = "discover"
          /\ UNCHANGED <<line, exit, outcomes, discovery, done>> /\ at' = 1
      BY <1>20 DEF StartDiscovery, Start
    <2>2. done = {} /\ exit = 0 - 1
      BY <2>1 DEF IInv, StageInv
    <2>3. TypeOK' /\ EvidenceInv'
      BY <2>1 DEF IInv, TypeOK, Stages, EvidenceInv, discovery
    <2> QED
      BY <2>1, <2>2, <2>3 DEF IInv, StageInv, CaptureInv, ZeroMeansDone
  <1>21. ASSUME NEW met \in BOOLEAN, NEW written \in BOOLEAN, ProbeCandidate(met, written)
         PROVE  IInv'
    <2>1. /\ pc = "discovering" /\ UNCHANGED <<line, pc, exit, outcomes>>
          /\ evidence' = Append(evidence, [candidate |-> at, met |-> met])
          /\ stored' = IF written /\ stored = Len(evidence) THEN stored + 1 ELSE stored
          /\ \/ accepted' = accepted
             \/ met /\ accepted' = accepted \cup {at}
          /\ at' \in {at, at + 1} /\ attempt' \in {0, attempt + 1}
          /\ done' = done \cup {"public_probe"}
      BY <1>21 DEF ProbeCandidate
    <2>2. /\ at \in Nat /\ attempt \in Nat /\ evidence \in Seq([candidate : Nat, met : BOOLEAN])
          /\ stored \in 0..Len(evidence) /\ Len(evidence) \in Nat
      BY DEF IInv, TypeOK
    <2>3. /\ evidence' \in Seq([candidate : Nat, met : BOOLEAN])
          /\ Len(evidence') = Len(evidence) + 1
          /\ evidence'[Len(evidence) + 1] = [candidate |-> at, met |-> met]
          /\ \A i \in DOMAIN evidence : i \in DOMAIN evidence' /\ evidence'[i] = evidence[i]
          /\ Len(evidence) + 1 \in DOMAIN evidence'
      <3> DEFINE row == [candidate |-> at, met |-> met]
                 Rows == [candidate : Nat, met : BOOLEAN]
      <3>1. row \in Rows
        BY <2>2
      <3>2. evidence \in Seq(Rows) /\ evidence' = Append(evidence, row)
        BY <2>1, <2>2
      <3> HIDE DEF row, Rows
      <3>3. /\ evidence' \in Seq(Rows) /\ Len(evidence') = Len(evidence) + 1
            /\ evidence'[Len(evidence) + 1] = row
            /\ \A i \in DOMAIN evidence : i \in DOMAIN evidence' /\ evidence'[i] = evidence[i]
            /\ Len(evidence) + 1 \in DOMAIN evidence'
        BY <3>1, <3>2
      <3> QED
        BY <3>3 DEF row, Rows
    <2>4. stored' \in 0..Len(evidence') /\ at' \in Nat /\ attempt' \in Nat
      <3>1. stored' \in {stored, stored + 1} /\ Len(evidence') = Len(evidence) + 1
        BY <2>1, <2>3
      <3>2. stored' \in 0..Len(evidence')
        BY <2>2, <3>1
      <3>3. at' \in {at, at + 1} /\ attempt' \in {0, attempt + 1} /\ at \in Nat /\ attempt \in Nat
        BY <2>1, <2>2
      <3> QED
        BY ONLY <3>2, <3>3
    <2>5. TypeOK'
      BY <2>1, <2>3, <2>4 DEF IInv, TypeOK
    <2>6. EvidenceInv'
      <3> SUFFICES ASSUME NEW c \in accepted'
                   PROVE  \E i \in DOMAIN evidence' : evidence'[i] = [candidate |-> c, met |-> TRUE]
        BY DEF EvidenceInv
      <3>1. CASE c \in accepted
        BY <2>3, <3>1 DEF IInv, EvidenceInv
      <3>2. CASE met /\ c = at
        <4>1. met = TRUE
          BY <3>2
        <4> QED
          BY <2>3, <3>2, <4>1
      <3> QED
        BY <2>1, <3>1, <3>2
    <2>8. StageInv' /\ CaptureInv' /\ ZeroMeansDone'
      BY <2>1, NotOver, NotZero DEF IInv, StageInv, CaptureInv
    <2> QED
      BY <2>5, <2>6, <2>8 DEF IInv
  <1>22. CASE UNCHANGED vars
    <2>1. TypeOK' /\ EvidenceInv' /\ StageInv' /\ CaptureInv'
      <3>1. TypeOK' /\ EvidenceInv'
        BY <1>22 DEF vars, discovery, IInv, TypeOK, EvidenceInv
      <3>2. StageInv' /\ CaptureInv'
        BY <1>22 DEF vars, IInv, StageInv, CaptureInv
      <3> QED
        BY <3>1, <3>2
    <2>2. ZeroMeansDone'
      BY <1>22, Zenon DEF vars, discovery, IInv, ZeroMeansDone, Unwatched, ResearchRun, Analyze
    <2> QED
      BY <2>1, <2>2 DEF IInv
  <1> QED
    BY Zenon, <1>2, <1>3, <1>4, <1>5, <1>6, <1>7, <1>8, <1>9, <1>10,
       <1>11, <1>12, <1>13, <1>14, <1>15, <1>16, <1>17, <1>18, <1>19, <1>20, <1>21, <1>22
       DEF Next, Step, Done

-----------------------------------------------------------------------------
(* The theorems *)

\* The invariant of the application holds in every behaviour.
THEOREM ApplicationInvariant == Spec => []IInv
  BY InitIInv, StepKeepsIInv, PTL DEF Spec

\* Type correctness of a run of the program.
THEOREM ApplicationTypeCorrect == Spec => []TypeOK
  <1>1. IInv => TypeOK
    BY DEF IInv
  <1> QED
    BY <1>1, ApplicationInvariant, PTL

\* No capture begins without the confirmations its line needs, nor with keys.
THEOREM CapturesAreConfirmed == Spec => []CaptureIsAsConfirmed
  <1>1. IInv => CaptureIsAsConfirmed
    BY DEF IInv, CaptureInv, CaptureIsAsConfirmed, Rejected, LoadRejected,
       RestCaptureRefused, WsCaptureRefused, Heavy, Has
  <1> QED
    BY <1>1, ApplicationInvariant, PTL

\* Exit status 0 is only given for what the command promises.
THEOREM StatusZeroIsTrue == Spec => []ZeroMeansDone
  <1>1. IInv => ZeroMeansDone
    BY DEF IInv
  <1> QED
    BY <1>1, ApplicationInvariant, PTL
=============================================================================
