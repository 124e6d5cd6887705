--------------------------- MODULE PlaybookEvents ---------------------------
(***************************************************************************)
(* What an upload says.                                                    *)
(*                                                                         *)
(* The response consumer turns the events of one upload into the status of *)
(* the run, the status of each host and the console output of each host.   *)
(* This module is those computations: internal/response-consumer/          *)
(* handler.go (inference), internal/common/satellite/satellite.go and      *)
(* internal/common/ansible/runner.go.                                      *)
(*                                                                         *)
(* An upload's events are a sequence.  Of a field the program only tests   *)
(* or copies, the model keeps what the tests can tell apart:               *)
(*   - a host is a name of the constant Host, or Nil when the field is     *)
(*     absent;                                                             *)
(*   - a piece of console output is a natural number that identifies it,   *)
(*     or NoText when the event carries none;                              *)
(*   - a satellite sequence is a natural number, or NoSeq when absent.     *)
(***************************************************************************)
EXTENDS Integers, Sequences, FiniteSetsExt

CONSTANT Host       \* every name or inventory id a host can be reported by

Nil == "nil"        \* an absent host or status
NoSeq == -1         \* an absent sequence number (SQL NULL in the table)
NoText == -1        \* an event without console output
LocalHost == "localhost"

ASSUME HostAssumption == LocalHost \in Host /\ Nil \notin Host

-----------------------------------------------------------------------------
(* Statuses: internal/common/model/db/Run.go *)

RunStatus == {"running", "success", "failure", "timeout", "canceled"}

\* A run or host the device has given its final word on.
Complete == {"success", "failure"}

-----------------------------------------------------------------------------
(* Ansible Runner events *)

RunnerEvent ==
    [event : {"executor_on_start", "executor_on_failed", "runner_on_ok",
              "runner_on_failed", "playbook_on_stats"},
     host : Host \cup {Nil},
     stdout : Nat \cup {NoText}]

\* Faulty variants: an event without a host counts for no host; only the last
\* event can finish a run.
inferStatus_NilSkipped(events, host) ==
    LET about == {i \in DOMAIN events : host = Nil \/ events[i].host = host}
        finished == \/ \E i \in DOMAIN events : events[i].event = "playbook_on_stats"
                    \/ \E i \in about : events[i].event = "executor_on_failed"
        failed == \E i \in about :
                    events[i].event \in {"runner_on_failed", "executor_on_failed"}
    IN  IF ~finished THEN "running" ELSE IF failed THEN "failure" ELSE "success"

inferStatus_LastOnly(events, host) ==
    LET about == {i \in DOMAIN events : host = Nil \/ events[i].host \in {Nil, host}}
        finished == \E i \in about : /\ i = Len(events)
                                     /\ events[i].event \in {"playbook_on_stats",
                                                             "executor_on_failed"}
        failed == \E i \in about :
                    events[i].event \in {"runner_on_failed", "executor_on_failed"}
    IN  IF ~finished THEN "running" ELSE IF failed THEN "failure" ELSE "success"

\* runner_on_failed fails a host; executor_on_failed fails and finishes the
\* run; playbook_on_stats finishes it whatever host is asked about.
inferStatus(events, host) ==
    LET about == {i \in DOMAIN events :
                    host = Nil \/ events[i].host \in {Nil, host}}
        finished == \/ \E i \in DOMAIN events : events[i].event = "playbook_on_stats"
                    \/ \E i \in about : events[i].event = "executor_on_failed"
        failed == \E i \in about :
                    events[i].event \in {"runner_on_failed", "executor_on_failed"}
    IN  IF ~finished THEN "running" ELSE IF failed THEN "failure" ELSE "success"

\* The hosts an upload mentions ...
GetAnsibleHosts(events) == {events[i].host : i \in DOMAIN events} \ {Nil}

\* ... or localhost, when the playbook failed before any host was involved.
runnerHosts(events) ==
    IF GetAnsibleHosts(events) = {} THEN {LocalHost} ELSE GetAnsibleHosts(events)

\* The output of all events, in the order of their counters, so that the set of
\* its pieces determines the text.  The error details of an executor_on_failed
\* event count as its output.
GetStdout(events) == {events[i].stdout : i \in DOMAIN events} \ {NoText}

-----------------------------------------------------------------------------
(* Satellite events *)

SatEvent ==
    [type : {"playbook_run_update", "playbook_run_finished", "playbook_run_completed"},
     status : {"success", "failure", "canceled", Nil},
     host : Host \cup {Nil},
     sequence : Nat \cup {NoSeq},
     console : Nat \cup {NoText}]

\* A status the switch does not know is running.
satStatusEventDbMap(status) ==
    IF status \in {"success", "failure", "canceled"} THEN status ELSE "running"

\* The comparison of SortSatEvents: events without a sequence come last.
seqLess(e, f) == e.sequence # NoSeq /\ (f.sequence = NoSeq \/ e.sequence < f.sequence)

\* sort.Slice keeps equal elements in order up to twelve of them (insertion
\* sort), which is the case modelled.
comesBefore(events, j, i) ==
    seqLess(events[j], events[i]) \/ (~seqLess(events[i], events[j]) /\ j < i)
place(events, i) == 1 + Cardinality({j \in DOMAIN events : comesBefore(events, j, i)})
eventAt(events, k) == CHOOSE i \in DOMAIN events : place(events, i) = k
SortSatEvents(events) == [k \in 1..Len(events) |-> events[eventAt(events, k)]]

GetSatHosts(events) == {events[i].host : i \in DOMAIN events} \ {Nil}

\* Events about a host: its own and those that name no host.
aboutHost(events, h) == {i \in DOMAIN events : events[i].host \in {Nil, h}}

\* The pieces of output an upload has for host h (texts of connection and
\* infrastructure errors count as the event's console), and its last sequence.
satConsole(events, h) == {events[i].console : i \in aboutHost(events, h)} \ {NoText}
satSequence(events, h) ==
    Max({NoSeq} \cup {events[i].sequence : i \in aboutHost(events, h)})

\* inferSatPlaybookStatus keeps, per host, the last status that the sorted
\* events give it.
lastHostStatus(sorted, h) ==
    LET known == {i \in DOMAIN sorted : sorted[i].host = h /\ sorted[i].status # Nil}
    IN  IF known = {} THEN "running" ELSE satStatusEventDbMap(sorted[Max(known)].status)

\* The status of the whole run: the completed event's, or else the verdict of
\* the hosts the upload mentions.
inferSatPlaybookStatus(events) ==
    LET sorted == SortSatEvents(events)
        completed == {i \in DOMAIN sorted : sorted[i].type = "playbook_run_completed"}
        verdicts == {lastHostStatus(sorted, h) : h \in GetSatHosts(events)}
    IN  CASE completed # {} -> satStatusEventDbMap(sorted[Min(completed)].status)
          [] completed = {} /\ "running" \in verdicts -> "running"
          [] completed = {} /\ "running" \notin verdicts ->
                IF "failure" \in verdicts THEN "failure"
                ELSE IF "canceled" \in verdicts THEN "canceled" ELSE "success"

\* A completed event without a status is dereferenced before anything checks it.
panicsOn(events) ==
    LET sorted == SortSatEvents(events)
        completed == {i \in DOMAIN sorted : sorted[i].type = "playbook_run_completed"}
    IN  completed # {} /\ sorted[Min(completed)].status = Nil

\* Faulty variant: any event with a status ends the run.
checkSatStatusPartial_AnyStatus(events) ==
    LET sorted == SortSatEvents(events)
        ended == {i \in DOMAIN sorted : sorted[i].status # Nil}
    IN  IF ended = {} THEN "running"
        ELSE satStatusEventDbMap(sorted[Min(ended)].status)

\* With partial responses only a completed event ends the run.
checkSatStatusPartial(events) ==
    LET sorted == SortSatEvents(events)
        completed == {i \in DOMAIN sorted : /\ sorted[i].type = "playbook_run_completed"
                                            /\ sorted[i].status # Nil}
    IN  IF completed = {} THEN "running"
        ELSE satStatusEventDbMap(sorted[Min(completed)].status)

\* The status of one host: its first finished event that has a status.
inferSatHostStatus(events, h) ==
    LET sorted == SortSatEvents(events)
        finished == {i \in aboutHost(sorted, h) :
                        /\ sorted[i].type = "playbook_run_finished"
                        /\ sorted[i].status # Nil}
    IN  IF finished = {} THEN "running"
        ELSE satStatusEventDbMap(sorted[Min(finished)].status)
=============================================================================
