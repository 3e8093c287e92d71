---------------------------- MODULE EvidenceLog ----------------------------
(***************************************************************************)
(* What a capture promises about the evidence it leaves behind, with the   *)
(* files, streams and byte budget of its writer abstracted away.  The      *)
(* writer of the research bundle and the paired capture, which writes its  *)
(* own rows, both make it.                                                 *)
(*                                                                         *)
(* Records are offered one at a time.  Those kept are exactly a prefix of  *)
(* those offered: after the first loss nothing is kept any more.  At the   *)
(* end the run is given one verdict, and the verdict is "complete" only if *)
(* nothing was lost.  A run whose verdict never comes (a crash, a manifest *)
(* that cannot be replaced) stays "running".                               *)
(***************************************************************************)
EXTENDS Naturals

VARIABLES
  offered,   \* how many records the writer was given
  kept,      \* how many of them are rows on disk or on their way there
  intact,    \* no record was refused and no write or flush has failed
  verdict    \* what the manifest on disk says of the run

vars == <<offered, kept, intact, verdict>>

Verdict == {"running", "complete", "incomplete", "failed"}

TypeOK ==
  /\ offered \in Nat
  /\ kept \in Nat
  /\ intact \in BOOLEAN
  /\ verdict \in Verdict

Init ==
  /\ offered = 0
  /\ kept = 0
  /\ intact = TRUE
  /\ verdict = "running"

\* A record is offered.  It is kept if nothing was lost before it; the row may
\* be kept although the write that carried it failed.
Offer ==
  /\ verdict = "running"
  /\ offered' = offered + 1
  /\ \/ intact /\ kept' = kept + 1 /\ intact' \in BOOLEAN
     \/ kept' = kept /\ intact' = FALSE
  /\ UNCHANGED verdict

\* Something already kept does not reach the disk.
Lose ==
  /\ verdict = "running"
  /\ intact' = FALSE
  /\ UNCHANGED <<offered, kept, verdict>>

\* The run ends.  sessions_ok says whether every session did its work.
Seal(sessions_ok) ==
  /\ verdict = "running"
  /\ verdict' = CASE sessions_ok /\ intact   -> "complete"
                  [] sessions_ok /\ ~intact  -> "incomplete"
                  [] OTHER                   -> "failed"
  /\ UNCHANGED <<offered, kept, intact>>

\* After the verdict only its own bookkeeping can still fail.
FailAfterVerdict ==
  /\ verdict # "running"
  /\ intact' = FALSE
  /\ UNCHANGED <<offered, kept, verdict>>

Next ==
  \/ Offer
  \/ Lose
  \/ \E sessions_ok \in BOOLEAN : Seal(sessions_ok)
  \/ FailAfterVerdict

Spec == Init /\ [][Next]_vars

-----------------------------------------------------------------------------
\* A run judged complete kept every record it was offered.
CompleteKeptAll == verdict = "complete" => kept = offered

\* A loss is never made up for: a verdict, once on disk, is not replaced.
VerdictIsFinal == [][verdict # "running" => verdict' = verdict]_vars
=============================================================================
