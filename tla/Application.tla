----------------------------- MODULE Application -----------------------------
(***************************************************************************)
(* One run of the program (src/src/Runtime/Main.cpp, Application.cpp,      *)
(* src/src/Research/Research.cpp and ResearchCommands.cpp) from its        *)
(* command line to its exit status: which gates it passes, what it then    *)
(* does in which order, and what it leaves behind.                         *)
(*                                                                         *)
(* A probe, a capture, an analysis is one step with its outcome: other     *)
(* modules are about their insides.                                        *)
(***************************************************************************)
EXTENDS CommandLine, Sequences

CONSTANTS
  MaxGiven,      \* bound: options on a command line
  MaxCases,      \* bound: cases of a sandbox profile or candidates of discovery
  MaxAttempts    \* discovery_attempts

ASSUME ApplicationAssumption ==
  /\ MaxGiven \in Nat /\ MaxCases \in Nat \ {0} /\ MaxAttempts \in Nat \ {0}

VARIABLES
  line,
  pc,
  exit,         \* the exit status, -1 before
  at,           \* the case or candidate in hand
  attempt,      \* attempts at this candidate
  outcomes,     \* the observations of a sandbox, TRUE where the expectation is met
  evidence,     \* rows of evidence.jsonl: [candidate, met]
  stored,       \* those of them the file holds
  accepted,     \* candidates of the proposal
  done          \* ghost: what the run has got done

discovery == <<attempt, evidence, stored, accepted>>
vars      == <<line, pc, exit, at, outcomes, discovery, done>>

Init ==
  /\ line \in {Unset(command) : command \in Commands}
  /\ pc = "reading"
  /\ exit = 0 - 1
  /\ at = 0
  /\ attempt = 0
  /\ outcomes = << >>
  /\ evidence = << >>
  /\ stored = 0
  /\ accepted = {}
  /\ done = {}

Exit(status) == pc' = "exited" /\ exit' = status

Quiet == UNCHANGED <<line, at, outcomes, discovery>>

-----------------------------------------------------------------------------
(* main and run_application *)

\* One turn of the option loop; an --input may be given again.
ReadOption ==
  /\ pc = "reading"
  /\ Cardinality({field \in Fields : Has(line, field)}) < MaxGiven
  /\ \E option \in Options :
       /\ \/ line[option[1]] = "no" /\ option[2] # "two"
          \/ option = <<"inputs", "two">> /\ line["inputs"] = "one"
       /\ line' = [line EXCEPT ![option[1]] = option[2]]
  /\ UNCHANGED <<pc, exit, at, outcomes, discovery, done>>

EndOfLine ==
  /\ pc = "reading"
  /\ pc' = "main"
  /\ UNCHANGED <<line, exit, at, outcomes, discovery, done>>

Reject ==
  /\ pc = "main"
  /\ Rejected(line)
  /\ Exit(2)
  /\ Quiet /\ UNCHANGED done

\* A command that only prints what the program knows; of the matrix, the
\* filters may select nothing.
PrintOnly(selected) ==
  /\ pc = "main"
  /\ ~Rejected(line)
  /\ line["command"] \in {"help", "matrix"}
  /\ ~selected => line["command"] = "matrix" /\ Has(line, "filters")
  /\ Exit(IF selected THEN 0 ELSE 2)
  /\ Quiet /\ UNCHANGED done

\* An exception that nobody in the run catches.
InternalError ==
  /\ pc # "exited"
  /\ Exit(4)
  /\ Quiet /\ UNCHANGED done

Start(command, next) ==
  /\ pc = "main"
  /\ ~Rejected(line)
  /\ line["command"] = command
  /\ pc' = next
  /\ UNCHANGED exit

\* load_sandbox_profile refuses the file, or has at least one case.
StartSandbox ==
  /\ Start("sandbox", "sandbox")
  /\ Quiet /\ UNCHANGED done

RefuseSandbox ==
  /\ pc = "sandbox"
  /\ Exit(2)
  /\ Quiet /\ UNCHANGED done

\* load_environment reads credentials for the private surface alone.
PassProbeGates ==
  /\ pc = "sandbox"
  /\ ~ProbeRefused(line)
  /\ pc' = "probing"
  /\ done' = IF Private(line) THEN done \cup {"credentials"} ELSE done
  /\ UNCHANGED exit
  /\ Quiet

ProbeCase ==
  /\ pc = "probing"
  /\ at < MaxCases
  /\ \E met \in BOOLEAN : outcomes' = Append(outcomes, met)
  /\ at' = at + 1
  /\ done' = done \cup {IF Private(line) THEN "private_probe" ELSE "public_probe"}
  /\ UNCHANGED <<line, pc, exit, discovery>>

\* The filters may have selected no case at all.
JudgeProbes ==
  /\ pc = "probing"
  /\ Exit(IF outcomes = << >> THEN 2
          ELSE IF \A i \in DOMAIN outcomes : outcomes[i] THEN 0 ELSE 1)
  /\ Quiet /\ UNCHANGED done

-----------------------------------------------------------------------------
(* research and serve *)

StartResearch ==
  /\ Start("research", IF Analyze(line) THEN "analysing"
                       ELSE IF line["transport"] = "rest" THEN "rest_capture" ELSE "ws_capture")
  /\ ~(Analyze(line) /\ line["inputs"] # "one")
  /\ Quiet /\ UNCHANGED done

AnalyzeNeedsOneInput ==
  /\ pc = "main"
  /\ ~Rejected(line)
  /\ Analyze(line) /\ line["inputs"] # "one"
  /\ Exit(2)
  /\ Quiet /\ UNCHANGED done

\* An unknown venue or product, a profile that does not load, a directory that
\* cannot be used, or the gates of the capture.
RefuseCapture ==
  /\ pc \in {"ws_capture", "rest_capture"}
  /\ Exit(2)
  /\ Quiet /\ UNCHANGED done

CaptureBegins ==
  /\ \/ pc = "ws_capture" /\ ~WsCaptureRefused(line)
     \/ pc = "rest_capture" /\ ~RestCaptureRefused(line)
  /\ pc' = IF pc = "ws_capture" THEN "ws_capturing" ELSE "rest_capturing"
  /\ done' = done \cup {"capture"}
  /\ UNCHANGED exit
  /\ Quiet

\* Only a complete bundle is analysed at once.
WsCaptureEnds(complete) ==
  /\ pc = "ws_capturing"
  /\ done' = IF complete THEN done \cup {"complete"} ELSE done
  /\ IF complete THEN pc' = "analysing" /\ UNCHANGED exit ELSE Exit(1)
  /\ Quiet

RestCaptureEnds(complete) ==
  /\ pc = "rest_capturing"
  /\ done' = IF complete THEN done \cup {"complete"} ELSE done
  /\ Exit(IF complete THEN 0 ELSE 1)
  /\ Quiet

AnalysisEnds(ok) ==
  /\ pc = "analysing"
  /\ done' = IF ok THEN done \cup {"analysis"} ELSE done
  /\ IF ok /\ ResearchRun(line) /\ ~Has(line, "no_open")
       THEN pc' = "viewing" /\ UNCHANGED exit
       ELSE Exit(IF ok THEN 0 ELSE 2)
  /\ Quiet

StartViewer ==
  /\ Start("serve", "viewing")
  /\ Quiet /\ UNCHANGED done

\* The viewer returns only when it fails; what was captured remains.
ViewerFails ==
  /\ pc = "viewing"
  /\ Exit(IF line["command"] = "serve" THEN 2 ELSE 0)
  /\ Quiet /\ UNCHANGED done

-----------------------------------------------------------------------------
(* placement and profile: rows of a scan, one document *)

StartPlacement ==
  /\ Start("placement", "placing")
  /\ Quiet /\ UNCHANGED done

PlacementEnds(status) ==
  /\ pc = "placing"
  /\ Exit(status)
  /\ done' = IF status = 0 THEN done \cup {"reachability"} ELSE done
  /\ Quiet

StartProfile ==
  /\ Start("profile", IF line["action"] = "scaffold" THEN "writing" ELSE "catalog")
  /\ Quiet /\ UNCHANGED done

\* The catalog is loaded whole, or not at all.
LoadCatalog(ok) ==
  /\ pc = "catalog"
  /\ CASE ~ok                        -> Exit(2)
       [] ok /\ line["action"] = "promote" -> pc' = "writing" /\ UNCHANGED exit
       [] OTHER                      -> pc' = "matching" /\ UNCHANGED exit
  /\ Quiet /\ UNCHANGED done

\* A scaffold that goes to the standard output, which nobody looks at again.
Unwatched == line["action"] = "scaffold" /\ ~Has(line, "output_dir")

\* Faulty variant: a file that cannot be written is not noticed either.
WriteDocument_Unchecked(written) ==
  /\ pc = "writing"
  /\ done' = IF written THEN done \cup {"document"} ELSE done
  /\ Exit(0)
  /\ Quiet

\* A scaffold, or the review of a proposal: a file has to be new, and its
\* proposal in order.
WriteDocument(written) ==
  /\ pc = "writing"
  /\ done' = IF written THEN done \cup {"document"} ELSE done
  /\ Exit(IF written \/ Unwatched THEN 0 ELSE 2)
  /\ Quiet

\* The profiles that were asked for, or are valid.
PrintMatches(matches) ==
  /\ pc = "matching"
  /\ done' = IF matches = 1 THEN done \cup {"match"} ELSE done
  /\ Exit(IF line["action"] = "show" THEN IF matches = 1 THEN 0 ELSE 2
          ELSE IF matches = 0 THEN 1 ELSE 0)
  /\ Quiet

-----------------------------------------------------------------------------
(* discover: one candidate after the other *)

StartDiscovery ==
  /\ Start("discover", "discovering")
  /\ at' = 1
  /\ UNCHANGED <<line, outcomes, discovery, done>>

\* No profile, no candidates, or a directory that is not new and empty.
RefuseDiscovery ==
  /\ pc = "discovering"
  /\ evidence = << >>
  /\ Exit(2)
  /\ Quiet /\ UNCHANGED done

\* A probe of the candidate leaves its row, in the file or lost.
ProbeCandidate(met, written) ==
  /\ pc = "discovering"
  /\ attempt < MaxAttempts
  /\ at <= MaxCases
  /\ evidence' = Append(evidence, [candidate |-> at, met |-> met])
  /\ stored' = IF written /\ stored = Len(evidence) THEN stored + 1 ELSE stored
  /\ IF met
       THEN /\ accepted' = accepted \cup {at}
            /\ attempt' = 0 /\ at' = at + 1
       ELSE /\ attempt' = IF attempt + 1 = MaxAttempts THEN 0 ELSE attempt + 1
            /\ at' = IF attempt + 1 = MaxAttempts THEN at + 1 ELSE at
            /\ UNCHANGED accepted
  /\ done' = done \cup {"public_probe"}
  /\ UNCHANGED <<line, pc, exit, outcomes>>

\* Faulty variant: the status speaks of the proposal alone.
WriteProposal_Alone(written) ==
  /\ pc = "discovering"
  /\ at > 1 /\ attempt = 0
  /\ done' = IF written THEN done \cup {"proposal"} ELSE done
  /\ Exit(IF written THEN 0 ELSE 2)
  /\ Quiet

\* The profile may have fewer candidates than the bound.  Both files are
\* flushed and looked at before the run says it is done.
WriteProposal(written) ==
  /\ pc = "discovering"
  /\ at > 1 /\ attempt = 0
  /\ done' = IF written THEN done \cup {"proposal"} ELSE done
  /\ Exit(IF written /\ stored = Len(evidence) THEN 0 ELSE 2)
  /\ Quiet

-----------------------------------------------------------------------------
Done == pc = "exited" /\ UNCHANGED vars

Step ==
  \/ ReadOption \/ EndOfLine \/ Reject
  \/ \E selected \in BOOLEAN : PrintOnly(selected)
  \/ StartSandbox \/ RefuseSandbox \/ PassProbeGates \/ ProbeCase \/ JudgeProbes
  \/ StartResearch \/ AnalyzeNeedsOneInput \/ RefuseCapture \/ CaptureBegins
  \/ \E ok \in BOOLEAN : WsCaptureEnds(ok) \/ RestCaptureEnds(ok) \/ AnalysisEnds(ok)
  \/ StartViewer \/ ViewerFails
  \/ StartPlacement \/ StartProfile
  \/ \E status \in {0, 2} : PlacementEnds(status)
  \/ \E ok \in BOOLEAN : LoadCatalog(ok) \/ WriteDocument(ok)
  \/ \E matches \in 0..2 : PrintMatches(matches)
  \/ StartDiscovery \/ RefuseDiscovery \/ InternalError
  \/ \E met, written \in BOOLEAN : ProbeCandidate(met, written)
  \/ \E written \in BOOLEAN : WriteProposal(written)

Next == Step \/ Done

Spec == Init /\ [][Next]_vars /\ WF_vars(Step)

-----------------------------------------------------------------------------
\* What the gates make of a line that names a sandbox.
Refused == Rejected(line) \/ ProbeRefused(line)

\* The same run of the public surface, and what a private one takes besides.
AsPublic ==
  [line EXCEPT !["surface"] = "public", !["confirm_private"] = "no", !["env_file"] = "no"]

ConfirmedPrivateRest ==
  /\ Private(line) /\ Has(line, "confirm_private") /\ Has(line, "env_file")
  /\ line["transport"] # "ws" /\ ~Has(line, "raw_public")

\* "Existing private REST probes are read-only and require both credentials and
\* --confirm-private" (README.md:154): a sandbox line that gives both, and is in
\* order otherwise, passes the gates.  No other command comes to the probes of
\* run_application.  The code refuses it (Cli.cpp:439, Application.cpp:101).
ConfirmedPrivateIsServed ==
  /\ pc = "main" /\ line["command"] = "sandbox" /\ ConfirmedPrivateRest
  /\ ~Rejected(AsPublic) /\ ~ProbeRefused(AsPublic)
  => ~Refused

\* What is captured is what was confirmed: neither the keys of its packets, nor
\* many rounds or a long one without the confirmation of the load, in whatever
\* order the options came (README.md:167, Cli.cpp:446).
CaptureIsAsConfirmed ==
  "capture" \in done =>
    /\ ~Has(line, "tls_keylog")
    /\ Heavy(line) => Has(line, "confirm_load") /\ line["transport"] # "rest"

\* Exit status 0 promises what the command is for: every expectation met, a
\* complete bundle and its analysis, a document in its file, or a proposal whose
\* evidence is all there, with a met row for every candidate it accepts
\* (Application.cpp:189, Research.cpp:76, ResearchCommands.cpp:444).
ZeroMeansDone ==
  exit = 0 =>
    /\ line["command"] = "sandbox" => outcomes # << >> /\ \A i \in DOMAIN outcomes : outcomes[i]
    /\ ResearchRun(line) => "complete" \in done
    /\ ResearchRun(line) /\ line["transport"] # "rest" => "analysis" \in done
    /\ Analyze(line) => "analysis" \in done
    /\ line["action"] \in {"scaffold", "promote"} /\ ~Unwatched => "document" \in done
    /\ line["action"] = "show" => "match" \in done
    /\ line["command"] = "discover" =>
         /\ "proposal" \in done
         /\ \A c \in accepted : \E i \in 1..stored : evidence[i] = [candidate |-> c, met |-> TRUE]

-----------------------------------------------------------------------------
(* The invariant behind them *)

Stages ==
  {"reading", "main", "sandbox", "probing", "ws_capture", "rest_capture", "ws_capturing",
   "rest_capturing", "analysing", "viewing", "placing", "catalog", "matching", "writing",
   "discovering", "exited"}

TypeOK ==
  /\ {"command", "action"} \subseteq DOMAIN line
  /\ <<line["command"], line["action"]>> \in Commands
  /\ pc \in Stages
  /\ exit \in {0 - 1, 0, 1, 2, 4}
  /\ at \in Nat
  /\ attempt \in Nat
  /\ outcomes \in Seq(BOOLEAN)
  /\ evidence \in Seq([candidate : Nat, met : BOOLEAN])
  /\ stored \in 0..Len(evidence)

\* Which command lines come to a stage, and with what done.
StageInv ==
  /\ pc # "exited" => exit = 0 - 1
  /\ pc \in {"reading", "main"} => done = {}
  /\ pc \in {"sandbox", "probing"} => line["command"] = "sandbox"
  /\ pc = "probing" => ~ProbeRefused(line)
  /\ pc \in {"ws_capture", "ws_capturing"} => ResearchRun(line) /\ line["transport"] # "rest"
  /\ pc \in {"rest_capture", "rest_capturing"} => ResearchRun(line) /\ line["transport"] = "rest"
  /\ pc \in {"ws_capture", "rest_capture"} => ~Rejected(line)
  /\ pc = "ws_capturing" => ~WsCaptureRefused(line)
  /\ pc = "rest_capturing" => ~RestCaptureRefused(line)
  /\ pc = "analysing" =>
       \/ Analyze(line)
       \/ ResearchRun(line) /\ line["transport"] # "rest" /\ "complete" \in done
  /\ pc = "viewing" =>
       \/ line["command"] = "serve"
       \/ ResearchRun(line) /\ line["transport"] # "rest" /\ {"complete", "analysis"} \subseteq done
  /\ pc = "placing" => line["command"] = "placement"
  /\ pc \in {"catalog", "matching", "writing"} => line["command"] = "profile"
  /\ pc \in {"catalog", "matching"} => line["action"] # "scaffold"
  /\ pc = "matching" => line["action"] # "promote"
  /\ pc = "writing" => line["action"] # "show"
  /\ pc = "discovering" => line["command"] = "discover"

\* A capture has passed the gates of its line, which is read to its end.
CaptureInv ==
  "capture" \in done =>
    /\ ResearchRun(line) /\ ~Rejected(line)
    /\ IF line["transport"] = "rest" THEN ~RestCaptureRefused(line) ELSE ~WsCaptureRefused(line)

\* A candidate is accepted on a row that says so.
EvidenceInv ==
  \A c \in accepted : \E i \in DOMAIN evidence : evidence[i] = [candidate |-> c, met |-> TRUE]

IInv ==
  /\ TypeOK /\ StageInv /\ CaptureInv /\ EvidenceInv /\ ZeroMeansDone
=============================================================================
