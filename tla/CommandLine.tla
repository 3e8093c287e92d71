----------------------------- MODULE CommandLine -----------------------------
(***************************************************************************)
(* Command lines (src/src/Runtime/Cli.cpp): what parse_cli reads, and      *)
(* which of it it rejects.                                                 *)
(*                                                                         *)
(* A line is the command and its action with a value for every option that *)
(* a gate or the run looks at, "no" where it was not given.  Formatting    *)
(* and values out of range are one option that cannot be parsed.           *)
(***************************************************************************)
EXTENDS Naturals, FiniteSets

\* Command and CliOptions::action; a search is a list.
Commands ==
  {<<c, "">> : c \in {"help", "matrix", "sandbox", "placement", "discover", "serve"}}
  \cup {<<"research", a>> : a \in {"run", "analyze"}}
  \cup {<<"profile", a>> : a \in {"show", "list", "validate", "scaffold", "promote", "unknown"}}

\* The options, each with the values that make a difference: filters are one
\* --venue with one --product, rounds more than 3, a duration beyond 300
\* seconds, an --input given once or again.
Options ==
  {<<flag, "yes">> : flag \in {
     "file", "env_file", "filters", "confirm_private", "confirm_session_lifecycle",
     "confirm_load", "raw_public", "pcap", "tls_keylog", "allow_adapter",
     "allow_private_adapter", "geo_provider", "geo_cache", "rounds", "channel",
     "mode", "no_open", "output_dir", "unparsable"}}
  \cup ({"surface"} \X {"public", "private"})
  \cup ({"transport"} \X {"rest", "ws"})
  \cup ({"duration_seconds"} \X {"short", "long"})
  \cup ({"standard_channel", "aws_channel"} \X {"a", "b"})
  \cup ({"inputs"} \X {"one", "two"})

Fields == {o[1] : o \in Options}

\* CliOptions before the option loop.
Unset(command) ==
  [field \in Fields \cup {"command", "action"} |->
     CASE field = "command" -> command[1]
       [] field = "action"  -> command[2]
       [] OTHER             -> "no"]

Has(line, field) == line[field] # "no"

ResearchRun(line) == line["command"] = "research" /\ line["action"] = "run"

Analyze(line) == line["command"] = "research" /\ line["action"] = "analyze"

ResearchCommand(line) == line["command"] \in {"research", "discover"}

Placement(line) == line["command"] = "placement"

Private(line) == line["surface"] = "private"

Heavy(line) == Has(line, "rounds") \/ line["duration_seconds"] = "long"

-----------------------------------------------------------------------------
(* The gates of parse_cli, in its order *)

OptionRejected(line) ==
  \/ Has(line, "unparsable")
  \/ Has(line, "mode") /\ line["command"] # "discover"

PairRejected(line) ==
  /\ Has(line, "standard_channel") \/ Has(line, "aws_channel")
  /\ \/ ~Analyze(line)
     \/ line["inputs"] # "one"
     \/ ~Has(line, "standard_channel") \/ ~Has(line, "aws_channel")
     \/ line["standard_channel"] = line["aws_channel"]
     \/ Private(line)
     \/ Has(line, "env_file") \/ Has(line, "confirm_private")
     \/ Has(line, "confirm_session_lifecycle")

SurfaceRejected(line) ==
  \/ Placement(line) /\ Private(line) /\ ~Has(line, "confirm_private")
  \/ Placement(line) /\ Private(line) /\ Has(line, "raw_public")
  \/ Placement(line) /\ Has(line, "env_file")
  \/ Has(line, "confirm_session_lifecycle") /\ ~(ResearchRun(line) /\ Private(line))
  \/ /\ ResearchRun(line) /\ Private(line)
     /\ ~Has(line, "confirm_private") \/ ~Has(line, "confirm_session_lifecycle")
  \/ /\ ~Placement(line) /\ ~ResearchCommand(line)
     /\ Has(line, "confirm_private") \/ Has(line, "env_file")

GeoRejected(line) ==
  \/ /\ ~Placement(line) /\ ~ResearchCommand(line)
     /\ Has(line, "geo_provider") \/ Has(line, "geo_cache")
  \/ Placement(line) /\ Has(line, "geo_cache") /\ ~Has(line, "geo_provider")

MisplacedOption(line) ==
  \/ line["command"] = "sandbox" /\ ~Has(line, "file")
  \/ Has(line, "raw_public") /\ line["command"] # "sandbox"
  \/ Has(line, "duration_seconds") /\ ~ResearchRun(line)
  \/ /\ Has(line, "inputs")
     /\ line["command"] # "serve" /\ ~Analyze(line) /\ line["action"] # "promote"
  \/ line["action"] = "unknown"
  \/ line["action"] = "promote" /\ line["inputs"] # "one"
  \/ (line["command"] = "discover" \/ ResearchRun(line)) /\ ~Has(line, "filters")
  \/ /\ Has(line, "allow_adapter") \/ Has(line, "allow_private_adapter")
     /\ line["command"] # "research"

\* Faulty variant: a long run needs no confirmation of its own.
LoadRejected_Never(line) == FALSE

LoadRejected(line) == ResearchRun(line) /\ Heavy(line) /\ ~Has(line, "confirm_load")

CaptureRejected(line) ==
  \/ Has(line, "tls_keylog") /\ ~Has(line, "pcap")
  \/ /\ Has(line, "pcap") \/ Has(line, "tls_keylog") \/ Has(line, "channel")
     /\ ~ResearchRun(line)
  \/ (Has(line, "pcap") \/ Has(line, "tls_keylog")) /\ Private(line)

Rejected(line) ==
  \/ OptionRejected(line)  \/ PairRejected(line)    \/ SurfaceRejected(line)
  \/ GeoRejected(line)     \/ MisplacedOption(line) \/ LoadRejected(line)
  \/ CaptureRejected(line)

-----------------------------------------------------------------------------
(* The gates behind it: run_application, the two captures *)

\* run_application in front of the probes: a sandbox is public only, and what
\* is private takes REST, no raw frames and a confirmation.
ProbeRefused(line) ==
  \/ line["command"] = "sandbox" /\ Private(line)
  \/ Private(line) /\ line["transport"] = "ws"
  \/ Private(line) /\ Has(line, "raw_public")
  \/ Private(line) /\ ~Has(line, "confirm_private")
  \/ ~Private(line) /\ (Has(line, "confirm_private") \/ Has(line, "env_file"))

\* capture_research_bundle.
WsCaptureRefused(line) == Private(line) \/ Has(line, "tls_keylog")

\* select_pair: the paired REST capture is public, REST and without packets.
RestCaptureRefused(line) ==
  \/ Private(line) \/ Has(line, "env_file") \/ Has(line, "confirm_private")
  \/ Has(line, "allow_private_adapter")
  \/ Has(line, "pcap") \/ Has(line, "tls_keylog")
  \/ Has(line, "rounds") \/ line["duration_seconds"] = "long"
=============================================================================
