----------------------------- MODULE MCArchives -----------------------------
(***************************************************************************)
(* Everything that can be uploaded, seen from both ends: the events the    *)
(* response consumer draws its verdicts from (MCPlaybookEvents) or the     *)
(* lines the validator reads and truncates (MCPayload).  Only one of the   *)
(* two grows; the other is at rest.                                        *)
(***************************************************************************)
EXTENDS MCPlaybookEvents, MCPayload

EventsAtRest == kind = "none" /\ upload = <<>>
PayloadAtRest ==
    /\ service = "playbook" /\ big = FALSE
    /\ lines = [i \in 1..MaxLines |-> noEvent("bad")]

ArchivesSpec ==
    /\ (Init /\ PayloadAtRest) \/ (PayloadInit /\ EventsAtRest)
    /\ [][(Next /\ UNCHANGED payloadVars) \/ (Grow /\ UNCHANGED vars)]_<<vars, payloadVars>>

-----------------------------------------------------------------------------

\* A longer version of an upload takes nothing back: a verdict drawn from the
\* shorter one stays final (inferStatus), and the upload stays tied to the run
\* it was tied to (GetCorrelationId).
GrowthHarmless ==
    /\ RunnerVerdictFinal
    /\ TiedForGood
=============================================================================
