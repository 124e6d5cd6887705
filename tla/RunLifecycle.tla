---------------------------- MODULE RunLifecycle ----------------------------
(***************************************************************************)
(* The life of a playbook run: the API that requests it, the recipient     *)
(* that reports on it, the response consumers and the clean job, all       *)
(* sharing the runs and run_hosts tables.                                  *)
(*                                                                         *)
(* The recipient is outside the program: once the work request reached it, *)
(* it may send its uploads in any order, each at most MaxCopies times      *)
(* (remaining counts down); an upload that never arrives is one not sent,  *)
(* and a copy also stands for a message read again because its offset was  *)
(* not yet stored when the process that had handled it died.               *)
(***************************************************************************)
EXTENDS Dispatch, ResponseConsumer, Cleaner

CONSTANT MaxCopies

ASSUME LifecycleAssumption == MaxCopies \in Nat

VARIABLE remaining

vars == <<tables, dispatchVars, consumerVars, cleanVars, remaining>>

Init ==
    /\ TablesInit
    /\ DispatchInit
    /\ ConsumerInit
    /\ CleanInit
    /\ remaining = [u \in Upload |-> MaxCopies]

Publish(u) ==
    /\ u.run \in delivered
    /\ remaining[u] > 0
    /\ remaining' = [remaining EXCEPT ![u] = @ - 1]
    /\ topic' = [topic EXCEPT ![u] = @ + 1]
    /\ UNCHANGED <<pc, msg, seen, todo, faults, tables, dispatchVars, cleanVars>>

\* A failed clean job counts as a fault.
CleanFails ==
    /\ faults < MaxFaults
    /\ CleanAborts
    /\ faults' = faults + 1
    /\ UNCHANGED <<topic, pc, msg, seen, todo>>

Api == \E r \in Run : ProcessRun(r) /\ UNCHANGED <<consumerVars, cleanVars, remaining>>
Recipient == \E u \in Upload : Publish(u)
Consuming == \E c \in Consumer :
                Consume(c) /\ UNCHANGED <<dispatchVars, cleanVars, remaining>>
ConsumerFails == \E c \in Consumer :
                /\ DatabaseError(c) \/ Crash(c)
                /\ UNCHANGED <<dispatchVars, cleanVars, remaining>>
Cleaning == CleanStep /\ UNCHANGED <<dispatchVars, consumerVars, remaining>>
CleanFailing == CleanFails /\ UNCHANGED <<dispatchVars, remaining>>
Clock == \E r \in Run :
            Expire(r) /\ UNCHANGED <<dispatchVars, consumerVars, cleanVars, remaining>>

Next == \/ Api \/ Recipient \/ Consuming \/ ConsumerFails
        \/ Cleaning \/ CleanFailing \/ Clock

Spec == Init /\ [][Next]_vars

(***************************************************************************)
(* Fairness: a consumer that is not killed works through its message, the  *)
(* clean job is started again and again by its cron schedule, time passes. *)
(* Nothing is assumed of the recipient, of the API's callers or of faults. *)
(***************************************************************************)
Fairness ==
    /\ \A c \in Consumer :
          WF_vars(Consume(c) /\ UNCHANGED <<dispatchVars, cleanVars, remaining>>)
    /\ WF_vars(Cleaning)
    /\ WF_vars(Clock)

FairSpec == Spec /\ Fairness

-----------------------------------------------------------------------------

\* Every variable has its type; in particular a stored sequence number fits the
\* column and every status is one of the enumeration of the table.
TypeOK ==
    /\ TablesTypeOK
    /\ DispatchTypeOK
    /\ ConsumerTypeOK
    /\ CleanTypeOK
    /\ remaining \in [Upload -> 0..MaxCopies]

-----------------------------------------------------------------------------
(* Why it works: the inductive invariant behind the safety properties *)

\* A status a recipient can report.
Reported == {"running", "success", "failure", "canceled"}

\* A consumer in its transaction has a message and has seen the run's row.
ConsumerPlaces ==
    \A c \in Consumer :
        /\ pc[c] # "idle" => msg[c] \in Upload
        /\ pc[c] \in {"update", "hosts", "commit"} =>
              msg[c].run \in Run /\ seen[c] \in RunRow /\ runs[msg[c].run] # NoRow

\* A run has a row, and only then host rows, once its request is through.
RowsExist ==
    \A r \in Run :
        /\ runs[r] # NoRow <=> api[r] = "created"
        /\ \A h \in Host :
              /\ hosts[r][h] # NoRow => runs[r] # NoRow
              /\ \A t \in Tx : wroteHosts[t][r][h] # NoRow => runs[r] # NoRow
              /\ <<r, h>> \in targets => hosts[r][h] # NoRow

\* Two transactions never have uncommitted writes of the same run.
OneWriter ==
    \A r \in Run : \A t, u \in Tx :
        wroteRuns[t][r] # NoRow /\ wroteRuns[u][r] # NoRow => t = u

\* A consumer's uncommitted write is to the run of its message, which is still
\* not complete when the write is committed.
ConsumerWrites ==
    \A c \in Consumer : \A r \in Run :
        wroteRuns[c][r] # NoRow =>
            /\ pc[c] \in {"hosts", "commit"} /\ r = msg[c].run
            /\ runs[r] # NoRow /\ runs[r].status \notin Complete
            /\ wroteRuns[c][r].status \in Reported

\* The clean job writes exactly the selected runs, changing nothing but their
\* status, and selects only expired ones.
CleanWrites ==
    /\ cleanPc = "idle" => ids = {}
    /\ \A r \in ids : runs[r] # NoRow /\ r \in expired
    /\ \A r \in Run :
          wroteRuns[Clean][r] =
             IF cleanPc \in {"scan", "hosts", "commit"} /\ r \in ids
             THEN [runs[r] EXCEPT !.status = "timeout"] ELSE NoRow

\* Only an expired run is timed out.
TimedOutExpired ==
    \A r \in Run : runs[r] # NoRow /\ runs[r].status = "timeout" => r \in expired

\* Taken together: the rows that open transactions are about to commit are
\* changes to the current committed rows, never to older ones.
WritesCurrent ==
    /\ ConsumerPlaces /\ RowsExist /\ OneWriter
    /\ ConsumerWrites /\ CleanWrites /\ TimedOutExpired

-----------------------------------------------------------------------------
(* What a reader of the API sees: internal/api/controllers/public/runsList.go *)

\* A running run past its timeout is shown as timed out before the clean job
\* has come to it.
Displayed(r) ==
    IF runs[r] = NoRow THEN Nil
    ELSE IF runs[r].status = "running" /\ r \in expired THEN "timeout"
    ELSE runs[r].status

-----------------------------------------------------------------------------
(* The detailed system implements the promise of RunRecord *)

storedStatus == [r \in Run |-> IF runs[r] = NoRow THEN "none" ELSE runs[r].status]

Promise == INSTANCE RunRecord WITH status <- storedStatus, picked <- ids

\* Requests, consumers with stale reads, crashes and clean jobs together change
\* the stored status of runs only in the steps RunRecord allows.
KeepsPromise == Promise!Spec

-----------------------------------------------------------------------------
(* What well-behaved recipients send: the properties below that speak of the *)
(* contents of uploads are about these.                                      *)

\* Each upload of a device repeats the events of the ones before, and nothing
\* follows the event that ends the playbook, which is about no single host.
CumulativeUploads ==
    /\ \A u, v \in Upload : (u.kind = "runner" /\ v.kind = "runner" /\ u.run = v.run) =>
          \/ DOMAIN u.events \subseteq DOMAIN v.events
             /\ \A i \in DOMAIN u.events : u.events[i] = v.events[i]
          \/ DOMAIN v.events \subseteq DOMAIN u.events
             /\ \A i \in DOMAIN v.events : u.events[i] = v.events[i]
    /\ \A u \in Upload : u.kind = "runner" =>
          \A i \in DOMAIN u.events :
             u.events[i].event \in {"playbook_on_stats", "executor_on_failed"} =>
                i = Len(u.events) /\ u.events[i].host = Nil

\* With full responses Satellite repeats all output of a host.
WholeOutput ==
    \A u \in Upload, h \in Host : (u.kind = "sat" /\ h \in GetSatHosts(u.events)) =>
        satConsole(u.events, h) = 0..satSequence(u.events, h)

\* With partial responses it sends each piece, numbered by the sequence of its
\* event, in one batch only.
OutputInBatches ==
    /\ \A u \in Upload : u.kind = "sat" =>
          \A i \in DOMAIN u.events : u.events[i].console = u.events[i].sequence
    /\ \A u, v \in Upload, h \in Host :
          (u.kind = "sat" /\ v.kind = "sat" /\ u.run = v.run) =>
             LET a == satConsole(u.events, h)
                 b == satConsole(v.events, h)
             IN  a = b \/ (\A i \in a, j \in b : i < j) \/ (\A i \in a, j \in b : j < i)

-----------------------------------------------------------------------------
(* Safety of runs *)

\* A run stored as success or failure is never changed by a consumer, however
\* stale the row its SELECT saw.  Only a clean job can change it, to timeout,
\* and only one whose own SELECT found it running.
CompleteOnlyTimedOut ==
    [][\A r \in Run :
         (runs[r] # NoRow /\ runs[r].status \in Complete /\ runs'[r] # runs[r]) =>
            /\ cleanPc = "commit" /\ r \in ids
            /\ runs'[r] = [runs[r] EXCEPT !.status = "timeout"]
      ]_vars

\* A canceled Satellite run keeps that status unless a consumer that read the
\* row before it was canceled, or a clean job that selected it before, commits
\* afterwards.
CanceledOnlyByStale ==
    [][\A r \in SatRun :
         (runs[r] # NoRow /\ runs[r].status = "canceled" /\ runs'[r].status # "canceled") =>
            \/ cleanPc = "commit" /\ r \in ids /\ runs'[r].status = "timeout"
            \/ \E c \in Consumer :
                  pc[c] = "commit" /\ msg[c].run = r /\ seen[c].status # "canceled"
      ]_vars

\* What readers were shown as success, failure or timeout they are never shown
\* as running again, though the stored status of a timed-out run does go back
\* to running when a late upload comes in.
NeverRunningAgain ==
    [][\A r \in Run : Displayed(r) \in {"success", "failure", "timeout"} =>
                       Displayed(r)' # "running"]_vars

\* For as long as a runner run is stored as success or failure, every host of
\* the upload it was inferred from has a final status, and the run failed
\* exactly when one of its hosts did.  (For CumulativeUploads.)
RunAndHostsAgree ==
    \A r \in Run \ SatRun :
        (runs[r] # NoRow /\ runs[r].status \in Complete) =>
            /\ \A h \in runnerHosts(runs[r].events) :
                  hosts[r][h] # NoRow /\ hosts[r][h].status \in Complete
            /\ runs[r].status = "failure" <=>
                  \E h \in Host : hosts[r][h] # NoRow /\ hosts[r][h].status = "failure"

\* A host of a runner run with a verdict is never timed out, though the clean
\* job writes the hosts its subquery found earlier without looking at their
\* status again: the row of their run, which consumers update first, is locked
\* meanwhile, and a consumer that does not wait for it because the run is
\* complete finds complete hosts.  (For the same devices.  It does not hold of
\* Satellite hosts: their verdicts may come after that of their run, from a
\* consumer that then takes no lock on the run.)
HostVerdictNotTimedOut ==
    [][\A r \in Run \ SatRun, h \in Host :
         (hosts[r][h] # NoRow /\ hosts[r][h].status \in Complete) =>
            hosts'[r][h].status # "timeout"]_vars

-----------------------------------------------------------------------------
(* Safety of Satellite hosts with partial responses *)

\* A Satellite host's sequence number never goes back, and with partial
\* responses its console output is only ever appended to.
SequenceForward ==
    [][\A r \in SatRun, h \in Host :
         hosts[r][h] # NoRow =>
            /\ hosts'[r][h] # NoRow
            /\ hosts'[r][h].seq >= hosts[r][h].seq
            /\ ~runs[r].full =>
                  \E more \in 0..1 :
                     /\ Len(hosts'[r][h].log) = Len(hosts[r][h].log) + more
                     /\ \A i \in DOMAIN hosts[r][h].log :
                           hosts'[r][h].log[i] = hosts[r][h].log[i]
      ]_vars

\* No transaction takes from a host row what a later one has stored there: a
\* runner's verdict does not become a timeout, a Satellite host's output and
\* sequence number do not go back (Cleaner and ResponseConsumer write rows
\* found by earlier statements).
HostsForward ==
    /\ HostVerdictNotTimedOut
    /\ SequenceForward

\* The console output of a host under partial responses: every piece once, in
\* sequence order, up to the stored sequence number, though uploads are
\* duplicated, lost and reordered.  (For OutputInBatches.)
LogInOrder ==
    \A r \in SatRun, h \in Host :
        (hosts[r][h] # NoRow /\ ~runs[r].full) =>
            LET log == hosts[r][h].log
                all == UNION {log[i].pieces : i \in DOMAIN log}
            IN  /\ \A i, j \in DOMAIN log :
                      i < j => \A a \in log[i].pieces, b \in log[j].pieces : a < b
                /\ hosts[r][h].seq = Max({NoSeq} \cup all)

\* With full responses a host's output is that of one upload, complete up to
\* the stored sequence number: never two uploads joined, never the output of
\* one with the number of another.  (For WholeOutput.)
FullLogWhole ==
    \A r \in SatRun, h \in Host :
        (hosts[r][h] # NoRow /\ runs[r].full) =>
            LET log == hosts[r][h].log
            IN  IF hosts[r][h].seq = NoSeq THEN log = <<>>
                ELSE Len(log) = 1 /\ log[1].pieces = 0..hosts[r][h].seq

\* The last piece before part i of a log.
lastBefore(log, i) == Max({NoSeq} \cup UNION {log[j].pieces : j \in 1..(i - 1)})

\* Where sequence numbers are missing in the output, the output says so.  (For
\* OutputInBatches.)
MissedIsMarked ==
    \A r \in SatRun, h \in Host :
        (hosts[r][h] # NoRow /\ ~runs[r].full) =>
            LET log == hosts[r][h].log
            IN  \A i \in DOMAIN log :
                    Min(log[i].pieces) > lastBefore(log, i) + 1 => log[i].gap

-----------------------------------------------------------------------------
(* Liveness *)

\* Every recorded run stops running: whatever the recipient does, in the end a
\* report or the clean job has closed it for good.
Settles ==
    \A r \in Run : <>[](runs[r] = NoRow \/ runs[r].status # "running")

-----------------------------------------------------------------------------
(* What the repository says and the code does not do *)

\* docs/sequence.txt: the record is created before the work request is sent.
RecordedBeforeSent == \A r \in delivered : runs[r] # NoRow

\* A run marked as complete keeps its status.
CompleteIsFinal ==
    [][\A r \in Run :
         (runs[r] # NoRow /\ runs[r].status \in Complete) =>
            runs'[r].status = runs[r].status]_vars
=============================================================================
