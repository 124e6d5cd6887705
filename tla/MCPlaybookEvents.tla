-------------------------- MODULE MCPlaybookEvents --------------------------
(***************************************************************************)
(* Every upload of up to MaxEvents events, grown one event at a time: the  *)
(* first event decides whether Ansible Runner or a Satellite sends it.     *)
(* Satellite uploads follow the README's description: finished events name *)
(* a host, the completed event comes once, updates carry a sequence        *)
(* number, and no two events of a host have the same type and sequence.    *)
(***************************************************************************)
EXTENDS PlaybookEvents, SequencesExt

CONSTANTS MaxEvents,       \* how long an upload may get
          UpdateNumbers,   \* sequence numbers of updates
          FinishNumbers    \* sequence numbers of finished events

ASSUME NumbersAssumption == UpdateNumbers \subseteq Nat /\ FinishNumbers \subseteq Nat

VARIABLES kind, upload
vars == <<kind, upload>>

MCRunnerEvent == {e \in [event : {"executor_on_failed", "runner_on_ok", "runner_on_failed",
                                  "playbook_on_stats"},
                         host : Host \cup {Nil}, stdout : {NoText}] :
                    e.event = "playbook_on_stats" => e.host = Nil}

satEvent(t, s, h, n) ==
    [type |-> t, status |-> s, host |-> h, sequence |-> n, console |-> n]

MCSatEvent ==
    {satEvent("playbook_run_update", Nil, h, n) : h \in Host, n \in UpdateNumbers}
    \cup {satEvent("playbook_run_finished", s, h, n) :
             s \in {"success", "failure", "canceled"}, h \in Host, n \in {NoSeq} \cup FinishNumbers}
    \cup {satEvent("playbook_run_completed", s, Nil, NoSeq) :
             s \in {"success", "failure", "canceled"}}

Fresh(e) ==
    \A i \in DOMAIN upload :
        \/ upload[i].host # e.host
        \/ upload[i].type # e.type
        \/ upload[i].sequence # e.sequence

Init == kind \in {"runner", "sat"} /\ upload = <<>>

RunnerReports ==
    /\ kind = "runner"
    /\ Len(upload) < MaxEvents
    /\ \E e \in MCRunnerEvent : upload' = Append(upload, e)
    /\ UNCHANGED kind

SatelliteReports ==
    /\ kind = "sat"
    /\ Len(upload) < MaxEvents
    /\ \E e \in MCSatEvent : Fresh(e) /\ upload' = Append(upload, e)
    /\ UNCHANGED kind

Next == RunnerReports \/ SatelliteReports

Spec == Init /\ [][Next]_vars

-----------------------------------------------------------------------------

\* The run row and the host rows written from one runner upload never
\* contradict each other: the run is running exactly when every host is, and
\* failed exactly when some host is (onMessage calls inferStatus once for the
\* run and once per host of the same upload).
RunnerVerdictAgrees ==
    kind = "runner" =>
        LET verdict(h) == inferStatus(upload, h)
            run == inferStatus(upload, Nil)
        IN  /\ run = "running" <=> \A h \in runnerHosts(upload) : verdict(h) = "running"
            /\ run = "failure" <=> \E h \in runnerHosts(upload) : verdict(h) = "failure"

\* Events added to a runner upload never take a final verdict back, neither of
\* the run nor of a host: a later, longer upload can only confirm it or turn
\* success into failure.
RunnerVerdictFinal ==
    [][kind = "runner" =>
         \A h \in Host \cup {Nil} :
            /\ inferStatus(upload, h) \in Complete => inferStatus(upload', h) \in Complete
            /\ inferStatus(upload, h) = "failure" => inferStatus(upload', h) = "failure"
      ]_vars

isFinished(i) == upload[i].type = "playbook_run_finished"

\* A full satellite upload without a completed event, in which no host finishes
\* twice, gives the run the verdict of its hosts, though the two are computed by different loops
\* (inferSatPlaybookStatus keeps the last status, inferSatHostStatus the first
\* finished event).
SatVerdictAgrees ==
    (/\ kind = "sat"
     /\ \A i \in DOMAIN upload : upload[i].type # "playbook_run_completed"
     /\ \A i, j \in DOMAIN upload :
           isFinished(i) /\ isFinished(j) /\ upload[i].host = upload[j].host => i = j) =>
        LET verdicts == {inferSatHostStatus(upload, h) : h \in GetSatHosts(upload)}
        IN  inferSatPlaybookStatus(upload) =
               IF "running" \in verdicts THEN "running"
               ELSE IF "failure" \in verdicts THEN "failure"
               ELSE IF "canceled" \in verdicts THEN "canceled" ELSE "success"

\* The order in which a satellite wrote its events into the archive does not
\* matter to any of the three inferences: they see them sorted by sequence
\* (SortSatEvents).
SatOrderIrrelevant ==
    kind = "sat" =>
        LET other == Reverse(upload)
        IN  /\ inferSatPlaybookStatus(other) = inferSatPlaybookStatus(upload)
            /\ checkSatStatusPartial(other) = checkSatStatusPartial(upload)
            /\ \A h \in Host : inferSatHostStatus(other, h) = inferSatHostStatus(upload, h)

\* One upload tells one story: the verdicts on the run and on its hosts agree,
\* though separate loops draw them, and do not depend on how the upload is
\* ordered (inferStatus, inferSatPlaybookStatus, inferSatHostStatus).
VerdictsAgree ==
    /\ RunnerVerdictAgrees
    /\ SatVerdictAgrees
    /\ SatOrderIrrelevant

\* With response_full = false a run ends only on its completed event, and then
\* with the verdict a full response would give it (checkSatStatusPartial
\* against inferSatPlaybookStatus).
PartialNeverEarly ==
    kind = "sat" =>
        IF \E i \in DOMAIN upload : upload[i].type = "playbook_run_completed"
        THEN checkSatStatusPartial(upload) = inferSatPlaybookStatus(upload)
        ELSE checkSatStatusPartial(upload) = "running"
=============================================================================
