------------------------------- MODULE Cleaner -------------------------------
(***************************************************************************)
(* The clean job: cmd/clean.go, one action per statement of its            *)
(* transaction.  It selects the expired running runs, marks the selected   *)
(* ids as timed out and then the running hosts of every timed-out run.     *)
(*                                                                         *)
(* cleanPc is its position, ids the runs its SELECT returned and targets   *)
(* the host rows its last UPDATE found at the moment it started.           *)
(***************************************************************************)
EXTENDS RunTables

VARIABLES cleanPc, ids, targets

cleanVars == <<cleanPc, ids, targets>>

CleanInit == cleanPc = "idle" /\ ids = {} /\ targets = {}

CleanTypeOK ==
    /\ cleanPc \in {"idle", "runs", "scan", "hosts", "commit"}
    /\ ids \subseteq Run
    /\ targets \subseteq (Run \X Host)

\* Faulty variant: running runs are selected before their timeout.
CleanSelect_Early ==
    /\ cleanPc = "idle"
    /\ ids' = {r \in Run : runs[r] # NoRow /\ runs[r].status = "running"}
    /\ ids' # {}
    /\ cleanPc' = "runs"
    /\ UNCHANGED <<targets, tables>>

\* SELECT the running runs past their timeout; with none the job is over.
CleanSelect ==
    /\ cleanPc = "idle"
    /\ ids' = {r \in expired : runs[r] # NoRow /\ runs[r].status = "running"}
    /\ ids' # {}
    /\ cleanPc' = "runs"
    /\ UNCHANGED <<targets, tables>>

\* UPDATE runs SET status = 'timeout' WHERE id IN ids: whatever the status of
\* those rows is by now.
CleanRuns ==
    /\ cleanPc = "runs"
    /\ \A r \in ids : ~runLocked(Clean, r)
    /\ wroteRuns' = [wroteRuns EXCEPT ![Clean] =
          [r \in Run |-> IF r \in ids THEN [runs[r] EXCEPT !.status = "timeout"] ELSE NoRow]]
    /\ cleanPc' = "scan"
    /\ UNCHANGED <<ids, targets, runs, hosts, wroteHosts, expired>>

\* What the job sees of a run: its own write, or the committed row.
cleanView(r) == IF wroteRuns[Clean][r] # NoRow THEN wroteRuns[Clean][r] ELSE runs[r]

\* Faulty variant: all hosts of timed-out runs are updated.
CleanHostsScan_AnyStatus ==
    /\ cleanPc = "scan"
    /\ targets' = {t \in Run \X Host :
                     hosts[t[1]][t[2]] # NoRow /\ cleanView(t[1]).status = "timeout"}
    /\ cleanPc' = "hosts"
    /\ UNCHANGED <<ids, tables>>

\* UPDATE run_hosts ... WHERE id IN (SELECT ... status = 'running' of runs with
\* status 'timeout'): the subquery sees the rows committed when the statement
\* starts ...
CleanHostsScan ==
    /\ cleanPc = "scan"
    /\ targets' = {t \in Run \X Host :
                     /\ hosts[t[1]][t[2]] # NoRow
                     /\ hosts[t[1]][t[2]].status = "running"
                     /\ cleanView(t[1]).status = "timeout"}
    /\ cleanPc' = "hosts"
    /\ UNCHANGED <<ids, tables>>

\* ... and the outer UPDATE waits for their locks.  It then writes the latest
\* row: only its id is compared again, not its status.
CleanHostsUpdate ==
    /\ cleanPc = "hosts"
    /\ \A t \in targets : ~hostLocked(Clean, t[1], t[2])
    /\ wroteHosts' = [wroteHosts EXCEPT ![Clean] =
          [r \in Run |-> [h \in Host |->
              IF <<r, h>> \in targets THEN [hosts[r][h] EXCEPT !.status = "timeout"]
              ELSE NoRow]]]
    /\ cleanPc' = "commit"
    /\ UNCHANGED <<ids, targets, runs, hosts, wroteRuns, expired>>

cleanDone == cleanPc' = "idle" /\ ids' = {} /\ targets' = {}

CleanCommit ==
    /\ cleanPc = "commit"
    /\ commit(Clean)
    /\ cleanDone

\* A statement fails, or the job is replaced by its successor.
CleanAborts ==
    /\ cleanPc # "idle"
    /\ rollback(Clean)
    /\ cleanDone

CleanStep == CleanSelect \/ CleanRuns \/ CleanHostsScan \/ CleanHostsUpdate \/ CleanCommit
=============================================================================
