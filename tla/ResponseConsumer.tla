-------------------------- MODULE ResponseConsumer --------------------------
(***************************************************************************)
(* The response consumer: onMessage of internal/response-consumer/         *)
(* handler.go, one action per statement of its transaction.                *)
(*                                                                         *)
(* topic counts the copies of each message waiting in the updates topic.   *)
(* The validator's concurrent fetch workers reorder uploads, so it is a    *)
(* bag.  Messages of a run share a partition, but a rebalance hands it to  *)
(* another consumer while the first is still in its transaction: any       *)
(* consumer may take any message.  pc, msg, seen and todo are the          *)
(* consumer's position, its message, the row its SELECT returned and the   *)
(* Satellite hosts its loop has not come to yet.                           *)
(*                                                                         *)
(* faults counts crashes that redeliver a message and failed clean jobs;   *)
(* MaxFaults bounds them.                                                  *)
(***************************************************************************)
EXTENDS RunTables

CONSTANTS NoMsg, MaxFaults

ASSUME ConsumerAssumption == NoMsg \notin Upload /\ MaxFaults \in Nat

VARIABLES topic, pc, msg, seen, todo, faults

consumerVars == <<topic, pc, msg, seen, todo, faults>>

ConsumerInit ==
    /\ topic = [u \in Upload |-> 0]
    /\ pc = [c \in Consumer |-> "idle"]
    /\ msg = [c \in Consumer |-> NoMsg]
    /\ seen = [c \in Consumer |-> NoRow]
    /\ todo = [c \in Consumer |-> {}]
    /\ faults = 0

ConsumerTypeOK ==
    /\ topic \in [Upload -> Nat]
    /\ pc \in [Consumer -> {"idle", "select", "update", "hosts", "commit"}]
    /\ msg \in [Consumer -> Upload \cup {NoMsg}]
    /\ seen \in [Consumer -> RunRow \cup {NoRow}]
    /\ todo \in [Consumer -> SUBSET Host]
    /\ faults \in 0..MaxFaults

-----------------------------------------------------------------------------
(* What one message writes *)

\* Faulty variant: the status the SELECT saw does not matter.
statusFor_Forgets(u, row) ==
    IF u.kind = "runner" THEN inferStatus(u.events, Nil)
    ELSE IF row.full THEN inferSatPlaybookStatus(u.events)
    ELSE checkSatStatusPartial(u.events)

\* The status onMessage gives the run.  A Satellite run that the SELECT saw
\* failed or canceled keeps that status.
statusFor(u, row) ==
    IF u.kind = "runner" THEN inferStatus(u.events, Nil)
    ELSE IF row.status \in {"failure", "canceled"} THEN row.status
    ELSE IF row.full THEN inferSatPlaybookStatus(u.events)
    ELSE checkSatStatusPartial(u.events)

\* Faulty variant: the conflict clause updates every row.
upsertedHost_Always(u, h, row) ==
    [status |-> inferStatus(u.events, h),
     seq |-> IF row = NoRow THEN NoSeq ELSE row.seq,
     log |-> <<[gap |-> FALSE, pieces |-> GetStdout(u.events)]>>]

\* createRecord: INSERT ... ON CONFLICT (run_id, host) DO UPDATE status and log,
\* unless the row is marked as complete.
upsertedHost(u, h, row) ==
    IF row = NoRow \/ row.status \notin Complete
    THEN [status |-> inferStatus(u.events, h),
          seq |-> IF row = NoRow THEN NoSeq ELSE row.seq,
          log |-> <<[gap |-> FALSE, pieces |-> GetStdout(u.events)]>>]
    ELSE row

\* Faulty variant: the sequence number is compared with <=.
matchesHost_OrEqual(u, h, row) ==
    /\ row # NoRow
    /\ satSequence(u.events, h) = NoSeq \/ row.seq <= satSequence(u.events, h)

\* satUpdateRecord: which row an UPDATE of host h finds.  A message with a
\* sequence number only updates a row with a smaller one.
matchesHost(u, h, row) ==
    /\ row # NoRow
    /\ \/ satSequence(u.events, h) = NoSeq
       \/ row.seq = NoSeq
       \/ row.seq < satSequence(u.events, h)

\* Faulty variants: no mark before the first output; output always appended.
satAssignmentWithCase_NoNull(u, h, full, row) ==
    LET s == satSequence(u.events, h)
        part(g) == [gap |-> g, pieces |-> satConsole(u.events, h)]
    IN  [status |-> inferSatHostStatus(u.events, h),
         seq |-> s,
         log |-> IF full THEN <<part(FALSE)>>
                 ELSE Append(row.log, part(row.seq # NoSeq /\ row.seq + 1 < s))]

satAssignmentWithCase_Appends(u, h, full, row) ==
    [status |-> inferSatHostStatus(u.events, h),
     seq |-> satSequence(u.events, h),
     log |-> Append(row.log, [gap |-> FALSE, pieces |-> satConsole(u.events, h)])]

\* satAssignmentWithCase: with partial responses the output is appended, after
\* a mark when sequence numbers were skipped.
satAssignmentWithCase(u, h, full, row) ==
    LET s == satSequence(u.events, h)
        part(g) == [gap |-> g, pieces |-> satConsole(u.events, h)]
        skipped == IF row.seq = NoSeq THEN s > 0 ELSE row.seq + 1 < s
    IN  [status |-> inferSatHostStatus(u.events, h),
         seq |-> s,
         log |-> IF full THEN <<part(FALSE)>> ELSE Append(row.log, part(skipped))]

updatedSatHost(u, h, full, row) ==
    IF satSequence(u.events, h) = NoSeq
    THEN [row EXCEPT !.status = inferSatHostStatus(u.events, h)]
    ELSE satAssignmentWithCase(u, h, full, row)

\* Faulty variant: every number is stored.
overflows_Never(u, h) == FALSE

\* A sequence number that does not fit the column fails the statement.
overflows(u, h) == satSequence(u.events, h) \notin NoSeq..MaxSmallint

-----------------------------------------------------------------------------
(* The consumer's steps *)

goto(c, where) == pc' = [pc EXCEPT ![c] = where]

\* ReadMessage of the event loop.
Receive(c) ==
    /\ pc[c] = "idle"
    /\ \E u \in Upload :
         /\ topic[u] > 0
         /\ topic' = [topic EXCEPT ![u] = @ - 1]
         /\ msg' = [msg EXCEPT ![c] = u]
    /\ goto(c, "select")
    /\ UNCHANGED <<seen, todo, faults, tables>>

\* The end of onMessage, whatever its outcome.
done(c) ==
    /\ goto(c, "idle")
    /\ msg' = [msg EXCEPT ![c] = NoMsg]
    /\ seen' = [seen EXCEPT ![c] = NoRow]
    /\ todo' = [todo EXCEPT ![c] = {}]

\* getHeaders or parseMessage fails: the message is dropped.
DropUnreadable(c) ==
    /\ pc[c] = "select"
    /\ msg[c].kind = "unreadable"
    /\ done(c)
    /\ UNCHANGED <<topic, faults, tables>>

readable(c) == /\ msg[c].kind # "unreadable"
               /\ ~(msg[c].kind = "sat" /\ panicsOn(msg[c].events))

\* SELECT id, status, response_full by organization and correlation id.  When
\* there is no such run the transaction ends and the message is gone.
SelectRun(c) ==
    /\ pc[c] = "select"
    /\ readable(c)
    /\ LET row == runs[msg[c].run]
       IN  \/ row = NoRow /\ done(c)
           \/ /\ row # NoRow
              /\ seen' = [seen EXCEPT ![c] = row]
              /\ goto(c, "update")
              /\ UNCHANGED <<msg, todo>>
    /\ UNCHANGED <<topic, faults, tables>>

\* Faulty variant: the condition is checked on the row of the SELECT instead of
\* in the UPDATE.
UpdateRun_StaleGuard(c) ==
    /\ pc[c] = "update"
    /\ LET u == msg[c]
           closed == seen[c].status \in Complete
       IN  /\ \/ closed /\ UNCHANGED wroteRuns
              \/ /\ ~closed
                 /\ ~runLocked(c, u.run)
                 /\ wroteRuns' = [wroteRuns EXCEPT ![c][u.run] =
                       [runs[u.run] EXCEPT !.status = statusFor(u, seen[c]),
                                           !.events = u.events]]
           /\ todo' = [todo EXCEPT ![c] = IF u.kind = "sat" THEN GetSatHosts(u.events) ELSE {}]
    /\ goto(c, "hosts")
    /\ UNCHANGED <<topic, msg, seen, faults, runs, hosts, wroteHosts, expired>>

\* UPDATE runs SET status, events WHERE ... AND status NOT IN (success,
\* failure).  A committed row that does not match is not waited for.
UpdateRun(c) ==
    /\ pc[c] = "update"
    /\ LET u == msg[c]
           row == runs[u.run]
       IN  /\ \/ row.status \in Complete /\ UNCHANGED wroteRuns
              \/ /\ row.status \notin Complete
                 /\ ~runLocked(c, u.run)
                 /\ wroteRuns' = [wroteRuns EXCEPT ![c][u.run] =
                       [row EXCEPT !.status = statusFor(u, seen[c]), !.events = u.events]]
           /\ todo' = [todo EXCEPT ![c] = IF u.kind = "sat" THEN GetSatHosts(u.events) ELSE {}]
    /\ goto(c, "hosts")
    /\ UNCHANGED <<topic, msg, seen, faults, runs, hosts, wroteHosts, expired>>

\* createRecord, a single statement for all hosts of a runner upload.
UpsertHosts(c) ==
    /\ pc[c] = "hosts"
    /\ msg[c].kind = "runner"
    /\ LET u == msg[c]
           named == runnerHosts(u.events)
       IN  /\ \A h \in named : ~hostLocked(c, u.run, h)
           /\ wroteHosts' = [wroteHosts EXCEPT ![c][u.run] =
                 [h \in Host |-> IF h \in named THEN upsertedHost(u, h, hosts[u.run][h])
                                 ELSE NoRow]]
    /\ goto(c, "commit")
    /\ UNCHANGED <<topic, msg, seen, todo, faults, runs, hosts, wroteRuns, expired>>

\* satUpdateRecord: one UPDATE per host.  The hosts are taken in some order.
UpdateSatHost(c) ==
    /\ pc[c] = "hosts"
    /\ msg[c].kind = "sat"
    /\ \E h \in todo[c] :
         LET u == msg[c]
             row == hosts[u.run][h]
         IN  /\ ~overflows(u, h)
             /\ \/ ~matchesHost(u, h, row) /\ UNCHANGED wroteHosts
                \/ /\ matchesHost(u, h, row)
                   /\ ~hostLocked(c, u.run, h)
                   /\ wroteHosts' = [wroteHosts EXCEPT ![c][u.run][h] =
                                        updatedSatHost(u, h, seen[c].full, row)]
             /\ todo' = [todo EXCEPT ![c] = @ \ {h}]
    /\ UNCHANGED <<topic, pc, msg, seen, faults, runs, hosts, wroteRuns, expired>>

SatHostsDone(c) ==
    /\ pc[c] = "hosts"
    /\ msg[c].kind = "sat"
    /\ todo[c] = {}
    /\ goto(c, "commit")
    /\ UNCHANGED <<topic, msg, seen, todo, faults, tables>>

Commit(c) ==
    /\ pc[c] = "commit"
    /\ commit(c)
    /\ done(c)
    /\ UNCHANGED <<topic, faults>>

-----------------------------------------------------------------------------
(* Failures *)

\* Faulty variant: the error is returned with the transaction left open.
SequenceOverflow_Leaks(c) ==
    /\ pc[c] = "hosts"
    /\ msg[c].kind = "sat"
    /\ \E h \in todo[c] : overflows(msg[c], h)
    /\ done(c)
    /\ UNCHANGED <<topic, faults, tables>>

\* A sequence number too large for the column: the transaction is rolled back,
\* the error counted, the message gone.
SequenceOverflow(c) ==
    /\ pc[c] = "hosts"
    /\ msg[c].kind = "sat"
    /\ \E h \in todo[c] : overflows(msg[c], h)
    /\ rollback(c)
    /\ done(c)
    /\ UNCHANGED <<topic, faults>>

\* Any other database error (a deadlock victim, a lost connection) at any
\* statement: onMessage only counts it, the offset moves on.
DatabaseError(c) ==
    /\ pc[c] \in {"select", "update", "hosts", "commit"}
    /\ readable(c)
    /\ rollback(c)
    /\ done(c)
    /\ UNCHANGED <<topic, faults>>

\* The process dies, its open transaction with it.  Offsets are committed in
\* the background: the message may be gone or may be delivered again.
die(c) ==
    /\ rollback(c)
    /\ done(c)
    /\ \/ UNCHANGED <<topic, faults>>
       \/ /\ faults < MaxFaults
          /\ faults' = faults + 1
          /\ topic' = [topic EXCEPT ![msg[c]] = @ + 1]

\* Killed at any point.
Crash(c) == pc[c] # "idle" /\ die(c)

\* inferSatPlaybookStatus on a completed event without a status.
Panic(c) ==
    /\ pc[c] = "select"
    /\ msg[c].kind = "sat" /\ panicsOn(msg[c].events)
    /\ die(c)

\* The steps a consumer that is not killed goes on taking.
Consume(c) ==
    \/ Receive(c) \/ DropUnreadable(c) \/ SelectRun(c) \/ UpdateRun(c) \/ UpsertHosts(c)
    \/ UpdateSatHost(c) \/ SatHostsDone(c) \/ Commit(c) \/ SequenceOverflow(c) \/ Panic(c)
=============================================================================
