------------------------ MODULE RunLifecycle_proofs ------------------------
(***************************************************************************)
(* Proofs about RunLifecycle, for any number of runs, hosts, uploads and   *)
(* consumers.  The inductive invariant is TypeOK /\ WritesCurrent.         *)
(***************************************************************************)
EXTENDS RunLifecycle, TLAPS

-----------------------------------------------------------------------------
(* The operators of PlaybookEvents return what the tables can hold *)

\* inferStatus of handler.go returns running, success or failure.
LEMMA inferStatusType ==
    ASSUME NEW events, NEW h
    PROVE  inferStatus(events, h) \in {"running", "success", "failure"}
BY DEF inferStatus

\* The three inferences from Satellite events return reported statuses.
LEMMA SatStatusType ==
    ASSUME NEW events, NEW h
    PROVE  /\ inferSatPlaybookStatus(events) \in Reported
           /\ checkSatStatusPartial(events) \in Reported
           /\ inferSatHostStatus(events, h) \in Reported
<1>1. \A s : satStatusEventDbMap(s) \in Reported
  BY DEF satStatusEventDbMap, Reported
<1>2. inferSatPlaybookStatus(events) \in Reported
  <2>1. ASSUME NEW completed, NEW verdicts, NEW s \in Reported
        PROVE  (CASE completed # {} -> s
                  [] completed = {} /\ "running" \in verdicts -> "running"
                  [] completed = {} /\ "running" \notin verdicts ->
                        IF "failure" \in verdicts THEN "failure"
                        ELSE IF "canceled" \in verdicts THEN "canceled" ELSE "success")
               \in Reported
    BY DEF Reported
  <2> QED
    BY <1>1, <2>1 DEF inferSatPlaybookStatus
<1>3. checkSatStatusPartial(events) \in Reported
  BY <1>1 DEF checkSatStatusPartial, Reported
<1>4. inferSatHostStatus(events, h) \in Reported
  BY <1>1 DEF inferSatHostStatus, Reported
<1> QED
  BY <1>2, <1>3, <1>4

\* The status onMessage computes for a run is a reported one, or the one its
\* SELECT saw.
LEMMA statusForType ==
    ASSUME NEW u, NEW row
    PROVE  statusFor(u, row) \in Reported
BY inferStatusType, SatStatusType DEF statusFor, Reported

\* What the messages of the updates topic are.
LEMMA UploadFields ==
    ASSUME NEW u \in Upload
    PROVE  /\ u.run \in Run
           /\ u.kind = "runner" => u.events \in Seq(RunnerEvent)
           /\ u.kind = "sat" => u.events \in Seq(SatEvent)
BY TablesAssumption DEF UploadType

\* The hosts and the output taken from an upload are hosts and output.
LEMMA UploadContents ==
    ASSUME NEW u \in Upload, NEW h
    PROVE  /\ u.kind = "runner" => GetStdout(u.events) \subseteq Nat
           /\ u.kind = "sat" => GetSatHosts(u.events) \subseteq Host
           /\ u.kind = "sat" => satConsole(u.events, h) \subseteq Nat
<1>1. ASSUME u.kind = "runner" PROVE GetStdout(u.events) \subseteq Nat
  <2>1. \A i \in DOMAIN u.events : u.events[i] \in RunnerEvent
    BY <1>1, UploadFields
  <2> QED
    BY <2>1 DEF GetStdout, RunnerEvent
<1>2. ASSUME u.kind = "sat"
      PROVE  GetSatHosts(u.events) \subseteq Host /\ satConsole(u.events, h) \subseteq Nat
  <2>1. \A i \in DOMAIN u.events : u.events[i] \in SatEvent
    BY <1>2, UploadFields
  <2> QED
    BY <2>1 DEF GetSatHosts, satConsole, aboutHost, SatEvent
<1> QED
  BY <1>1, <1>2

\* createRecord stores a host row.
LEMMA upsertedHostType ==
    ASSUME NEW u \in Upload, u.kind = "runner", NEW h, NEW row \in HostRow \cup {NoRow}
    PROVE  upsertedHost(u, h, row) \in HostRow
<1>1. <<[gap |-> FALSE, pieces |-> GetStdout(u.events)]>> \in Seq(LogPart)
  BY UploadContents DEF LogPart
<1>2. inferStatus(u.events, h) \in RunStatus
  BY inferStatusType DEF RunStatus
<1>3. NoSeq \in NoSeq..MaxSmallint
  BY TablesAssumption DEF NoSeq
<1> QED
  BY <1>1, <1>2, <1>3 DEF upsertedHost, HostRow

\* satUpdateRecord stores a host row, if the sequence number fits.
LEMMA updatedSatHostType ==
    ASSUME NEW u \in Upload, u.kind = "sat", NEW h, NEW full,
           NEW row \in HostRow, ~overflows(u, h)
    PROVE  updatedSatHost(u, h, full, row) \in HostRow
<1>1. inferSatHostStatus(u.events, h) \in RunStatus
  BY SatStatusType DEF Reported, RunStatus
<1>2. satSequence(u.events, h) \in NoSeq..MaxSmallint
  BY DEF overflows
<1>3. \A g \in BOOLEAN : [gap |-> g, pieces |-> satConsole(u.events, h)] \in LogPart
  BY UploadContents DEF LogPart
<1>4. satAssignmentWithCase(u, h, full, row) \in HostRow
  <2> DEFINE s == satSequence(u.events, h)
             part(g) == [gap |-> g, pieces |-> satConsole(u.events, h)]
             skipped == IF row.seq = NoSeq THEN s > 0 ELSE row.seq + 1 < s
  <2>1. part(FALSE) \in LogPart /\ part(skipped) \in LogPart
    <3>1. s \in Int /\ row.seq \in Int
      BY <1>2, TablesAssumption DEF HostRow, NoSeq
    <3>2. (s > 0) \in BOOLEAN /\ (row.seq + 1 < s) \in BOOLEAN
      BY <3>1
    <3>3. skipped \in BOOLEAN
      BY <3>2, Zenon
    <3> QED
      BY <1>3, <3>3
  <2>2. row.log \in Seq(LogPart)
    BY DEF HostRow
  <2>3. Append(row.log, part(skipped)) \in Seq(LogPart) /\ <<part(FALSE)>> \in Seq(LogPart)
    BY <2>1, <2>2
  <2>4. satAssignmentWithCase(u, h, full, row) =
           [status |-> inferSatHostStatus(u.events, h), seq |-> s,
            log |-> IF full THEN <<part(FALSE)>> ELSE Append(row.log, part(skipped))]
    BY Zenon DEF satAssignmentWithCase
  <2>5. (IF full THEN <<part(FALSE)>> ELSE Append(row.log, part(skipped))) \in Seq(LogPart)
    BY <2>3, Zenon
  <2>6. ASSUME NEW log \in Seq(LogPart)
        PROVE  [status |-> inferSatHostStatus(u.events, h), seq |-> s, log |-> log] \in HostRow
    BY <1>1, <1>2 DEF HostRow
  <2> QED
    BY <2>4, <2>5, <2>6, Zenon
<1> QED
  BY <1>1, <1>4 DEF updatedSatHost, HostRow

-----------------------------------------------------------------------------
(* The inductive invariant *)

IInv == TypeOK /\ WritesCurrent

\* No run, no message and no transaction: the invariant holds at the start.
LEMMA IInvInit == Init => IInv
<1> SUFFICES ASSUME Init PROVE IInv
  OBVIOUS
<1> USE DEF Init, TablesInit, DispatchInit, ConsumerInit, CleanInit, NoHostRows
<1>1. TablesTypeOK
  BY DEF TablesTypeOK
<1>2. DispatchTypeOK
  BY DEF DispatchTypeOK
<1>3. ConsumerTypeOK
  BY ConsumerAssumption DEF ConsumerTypeOK
<1>4. CleanTypeOK /\ remaining \in [Upload -> 0..MaxCopies]
  BY LifecycleAssumption DEF CleanTypeOK
<1>5. ConsumerPlaces
  BY DEF ConsumerPlaces
<1>6. RowsExist
  BY DEF RowsExist
<1>7. OneWriter /\ ConsumerWrites
  BY DEF OneWriter, ConsumerWrites, Tx
<1>8. CleanWrites /\ TimedOutExpired
  BY DEF CleanWrites, TimedOutExpired, Tx
<1> QED
  BY <1>1, <1>2, <1>3, <1>4, <1>5, <1>6, <1>7, <1>8 DEF IInv, TypeOK, WritesCurrent

\* ProcessRun writes no row but that of its own request, which nobody else
\* has seen yet.
LEMMA RequestStep ==
    ASSUME IInv, NEW r \in Run, ProcessRun(r), UNCHANGED <<consumerVars, cleanVars, remaining>>
    PROVE  IInv'
<1> USE DEF IInv, TypeOK, WritesCurrent
<1>1. ASSUME UNCHANGED tables, DispatchTypeOK', api' = [api EXCEPT ![r] = api'[r]],
             api[r] # "created", api'[r] # "created"
      PROVE  IInv'
  <2>1. TypeOK'
    BY <1>1 DEF consumerVars, cleanVars, tables, TablesTypeOK, ConsumerTypeOK, CleanTypeOK
  <2>2. ConsumerPlaces' /\ OneWriter' /\ ConsumerWrites' /\ CleanWrites' /\ TimedOutExpired'
    BY <1>1 DEF consumerVars, cleanVars, tables,
                ConsumerPlaces, OneWriter, ConsumerWrites, CleanWrites, TimedOutExpired
  <2>3. RowsExist'
    BY <1>1 DEF cleanVars, tables, RowsExist, DispatchTypeOK
  <2> QED
    BY <2>1, <2>2, <2>3
<1>2. CASE TakeToken(r)
  <2>1. UNCHANGED tables /\ api[r] = "wait"
    BY <1>2 DEF TakeToken
  <2>2. DispatchTypeOK' /\ api'[r] # "created" /\ api' = [api EXCEPT ![r] = api'[r]]
    BY <1>2 DEF TakeToken, DispatchTypeOK, Outcome
  <2> QED
    BY <1>1, <2>1, <2>2
<1>3. CASE SendRequest(r)
  <2>1. UNCHANGED tables /\ api[r] = "send"
    BY <1>3 DEF SendRequest
  <2>2. DispatchTypeOK' /\ api'[r] # "created" /\ api' = [api EXCEPT ![r] = api'[r]]
    BY <1>3 DEF SendRequest, DispatchTypeOK, Outcome
  <2> QED
    BY <1>1, <2>1, <2>2
<1>4. CASE CreateFails(r)
  BY <1>1, <1>4 DEF CreateFails, DispatchTypeOK, Outcome
<1>5. CASE CreateRun(r)
  <2>1. runs[r] = NoRow /\ \A h \in Host : hosts[r][h] = NoRow
    BY <1>5 DEF CreateRun, RowsExist
  <2>2. newRun(r) \in RunRow /\ newHostRun \in HostRow
    <3>1. (r \in SatRun => ResponseFull) \in BOOLEAN
      OBVIOUS
    <3>2. newRun(r) \in RunRow
      BY <3>1 DEF newRun, RunRow, RunStatus
    <3>3. newHostRun \in HostRow
      BY TablesAssumption DEF newHostRun, HostRow, RunStatus, NoSeq
    <3> QED
      BY <3>2, <3>3
  <2>3. newRun(r) # NoRow /\ newHostRun # NoRow /\ newRun(r).status = "running"
    BY <2>2, TablesAssumption DEF newRun
  <2>4. TypeOK'
    <3>1. TablesTypeOK'
      BY <1>5, <2>2 DEF CreateRun, TablesTypeOK
    <3>2. DispatchTypeOK'
      BY <1>5 DEF CreateRun, DispatchTypeOK, Outcome
    <3> QED
      BY <3>1, <3>2 DEF consumerVars, cleanVars, ConsumerTypeOK, CleanTypeOK
  <2>5. ConsumerPlaces'
    BY <1>5, <2>3 DEF CreateRun, ConsumerPlaces, consumerVars, TablesTypeOK
  <2>6. RowsExist'
    BY <1>5, <2>1, <2>3 DEF CreateRun, RowsExist, cleanVars, TablesTypeOK, DispatchTypeOK
  <2>7. OneWriter' /\ ConsumerWrites'
    BY <1>5, <2>1 DEF CreateRun, OneWriter, ConsumerWrites, consumerVars, TablesTypeOK
  <2>8. CleanWrites' /\ TimedOutExpired'
    BY <1>5, <2>1, <2>3 DEF CreateRun, CleanWrites, TimedOutExpired, cleanVars, TablesTypeOK
  <2> QED
    BY <2>4, <2>5, <2>6, <2>7, <2>8
<1> QED
  BY <1>2, <1>3, <1>4, <1>5 DEF ProcessRun

\* Messages sent and time passing leave the rows alone.
LEMMA EnvironmentStep ==
    ASSUME IInv, Recipient \/ Clock
    PROVE  IInv'
<1> USE DEF IInv, TypeOK, WritesCurrent
<1>1. ASSUME NEW u \in Upload, Publish(u) PROVE IInv'
  <2> USE <1>1 DEF Publish, tables, dispatchVars, cleanVars
  <2>1. TypeOK'
    <3>1. topic' \in [Upload -> Nat] /\ remaining' \in [Upload -> 0..MaxCopies]
      BY LifecycleAssumption DEF ConsumerTypeOK
    <3> QED
      BY <3>1 DEF TablesTypeOK, DispatchTypeOK, ConsumerTypeOK, CleanTypeOK
  <2>2. WritesCurrent'
    BY DEF ConsumerPlaces, RowsExist, OneWriter, ConsumerWrites, CleanWrites, TimedOutExpired
  <2> QED
    BY <2>1, <2>2
<1>2. ASSUME NEW r \in Run, Expire(r), UNCHANGED <<dispatchVars, consumerVars, cleanVars, remaining>>
      PROVE  IInv'
  <2> USE <1>2 DEF Expire, dispatchVars, consumerVars, cleanVars
  <2>1. TypeOK'
    BY DEF TablesTypeOK, DispatchTypeOK, ConsumerTypeOK, CleanTypeOK
  <2>2. WritesCurrent'
    BY DEF ConsumerPlaces, RowsExist, OneWriter, ConsumerWrites, CleanWrites, TimedOutExpired
  <2> QED
    BY <2>1, <2>2
<1> QED
  BY <1>1, <1>2 DEF Recipient, Clock

\* Writing one row of a table of rows by transaction and run ...
LEMMA WriteRun ==
    ASSUME NEW T, NEW R, NEW V, NEW f \in [T -> [R -> V]],
           NEW t \in T, NEW r \in R, NEW v \in V
    PROVE  LET g == [f EXCEPT ![t][r] = v]
           IN  /\ g \in [T -> [R -> V]]
               /\ \A x \in T, y \in R : g[x][y] = IF x = t /\ y = r THEN v ELSE f[x][y]
OBVIOUS

\* ... and of one by transaction, run and host.
LEMMA WriteHost ==
    ASSUME NEW T, NEW R, NEW H, NEW V, NEW f \in [T -> [R -> [H -> V]]],
           NEW t \in T, NEW r \in R, NEW h \in H, NEW v \in V
    PROVE  LET g == [f EXCEPT ![t][r][h] = v]
           IN  /\ g \in [T -> [R -> [H -> V]]]
               /\ \A x \in T, y \in R, z \in H :
                     g[x][y][z] = IF x = t /\ y = r /\ z = h THEN v ELSE f[x][y][z]
<1> DEFINE w == [f[t][r] EXCEPT ![h] = v]
<1>1. w \in [H -> V] /\ \A z \in H : w[z] = IF z = h THEN v ELSE f[t][r][z]
  OBVIOUS
<1>2. [f EXCEPT ![t][r][h] = v] = [f EXCEPT ![t][r] = w]
  OBVIOUS
<1> HIDE DEF w
<1> QED
  BY <1>1, <1>2, WriteRun, SMTT(30)

-----------------------------------------------------------------------------
(* The consumer *)

\* A consumer with a position but no message to find a run for changes only its
\* own variables and the topic.
LEMMA ConsumerMoves ==
    ASSUME IInv, NEW c \in Consumer,
           Receive(c) \/ SelectRun(c) \/ SatHostsDone(c) \/ DropUnreadable(c),
           UNCHANGED <<dispatchVars, cleanVars, remaining>>
    PROVE  IInv'
<1> USE DEF IInv, TypeOK, WritesCurrent, dispatchVars, cleanVars, tables
<1>1. ASSUME ConsumerTypeOK', ConsumerPlaces', ConsumerWrites', UNCHANGED tables
      PROVE  IInv'
  <2>1. TypeOK'
    BY <1>1 DEF TablesTypeOK, DispatchTypeOK, CleanTypeOK
  <2>2. RowsExist' /\ OneWriter' /\ CleanWrites' /\ TimedOutExpired'
    BY <1>1 DEF RowsExist, OneWriter, CleanWrites, TimedOutExpired
  <2> QED
    BY <1>1, <2>1, <2>2
<1>2. ASSUME done(c), pc[c] = "select", UNCHANGED <<topic, faults, tables>> PROVE IInv'
  <2> USE <1>2 DEF done, goto
  <2>1. ConsumerTypeOK'
    BY DEF ConsumerTypeOK
  <2>2. ConsumerPlaces' /\ ConsumerWrites'
    BY DEF ConsumerTypeOK, ConsumerPlaces, ConsumerWrites
  <2> QED
    BY <1>1, <2>1, <2>2
<1>3. CASE Receive(c)
  <2>0. PICK u \in Upload : /\ topic[u] > 0
                            /\ topic' = [topic EXCEPT ![u] = @ - 1]
                            /\ msg' = [msg EXCEPT ![c] = u]
    BY <1>3 DEF Receive
  <2> USE <1>3, <2>0 DEF Receive, goto
  <2>1. ConsumerTypeOK'
    BY DEF ConsumerTypeOK
  <2>2. ConsumerPlaces' /\ ConsumerWrites'
    BY DEF ConsumerTypeOK, ConsumerPlaces, ConsumerWrites
  <2> QED
    BY <1>1, <2>1, <2>2
<1>4. CASE DropUnreadable(c)
  BY <1>2, <1>4 DEF DropUnreadable
<1>5. CASE SatHostsDone(c)
  <2> USE <1>5 DEF SatHostsDone, goto
  <2>1. ConsumerTypeOK'
    BY DEF ConsumerTypeOK
  <2>2. ConsumerPlaces' /\ ConsumerWrites'
    BY DEF ConsumerTypeOK, ConsumerPlaces, ConsumerWrites
  <2> QED
    BY <1>1, <2>1, <2>2
<1>6. CASE SelectRun(c)
  <2>1. CASE runs[msg[c].run] = NoRow
    BY <1>2, <1>6, <2>1 DEF SelectRun
  <2>2. CASE runs[msg[c].run] # NoRow
    <3> USE <1>6, <2>2 DEF SelectRun, goto
    <3>1. msg[c] \in Upload /\ msg[c].run \in Run
      BY UploadFields DEF ConsumerPlaces
    <3>2. ConsumerTypeOK'
      BY <3>1 DEF ConsumerTypeOK, TablesTypeOK
    <3>3. ConsumerPlaces'
      BY <3>1 DEF ConsumerTypeOK, TablesTypeOK, ConsumerPlaces
    <3>4. ConsumerWrites'
      BY DEF ConsumerTypeOK, ConsumerWrites
    <3> QED
      BY <1>1, <3>2, <3>3, <3>4
  <2> QED
    BY <2>1, <2>2
<1> QED
  BY <1>3, <1>4, <1>5, <1>6

\* The UPDATE of the run: the row it writes is not complete, and the lock keeps
\* every other transaction from writing it before this one ends.
LEMMA UpdateRunStep ==
    ASSUME IInv, NEW c \in Consumer, UpdateRun(c),
           UNCHANGED <<dispatchVars, cleanVars, remaining>>
    PROVE  IInv'
<1> USE DEF IInv, TypeOK, WritesCurrent, dispatchVars, cleanVars
<1> DEFINE u == msg[c]
           row == runs[u.run]
           new == [row EXCEPT !.status = statusFor(u, seen[c]), !.events = u.events]
<1>1. u \in Upload /\ u.run \in Run /\ row \in RunRow /\ pc[c] = "update"
  BY DEF UpdateRun, ConsumerPlaces, TablesTypeOK
<1>2. new \in RunRow /\ new.status \in Reported /\ new # NoRow
  <2>1. statusFor(u, seen[c]) \in Reported /\ Reported \subseteq RunStatus
    BY statusForType DEF Reported, RunStatus
  <2>2. new \in RunRow /\ new.status \in Reported
    BY <1>1, <2>1 DEF RunRow
  <2> QED
    BY <2>2, TablesAssumption
<1>3. \/ UNCHANGED wroteRuns
      \/ /\ row.status \notin Complete
         /\ \A t \in Tx \ {c} : wroteRuns[t][u.run] = NoRow
         /\ wroteRuns' = [wroteRuns EXCEPT ![c][u.run] = new]
  BY DEF UpdateRun, runLocked
<1>4. /\ pc' = [pc EXCEPT ![c] = "hosts"]
      /\ UNCHANGED <<topic, msg, seen, faults, runs, hosts, wroteHosts, expired>>
  BY DEF UpdateRun, goto
<1>5. todo' \in [Consumer -> SUBSET Host]
  <2>1. (IF u.kind = "sat" THEN GetSatHosts(u.events) ELSE {}) \subseteq Host
    BY <1>1, UploadContents
  <2> QED
    BY <2>1 DEF UpdateRun, ConsumerTypeOK
<1> HIDE DEF u, row, new
<1>6. c \in Tx /\ Clean \in Tx /\ c # Clean
  BY TablesAssumption DEF Tx
<1>7. /\ wroteRuns' \in [Tx -> [Run -> RunRow \cup {NoRow}]]
       /\ \A t \in Tx, r \in Run : wroteRuns'[t][r] # wroteRuns[t][r] =>
             /\ t = c /\ r = u.run /\ wroteRuns'[t][r] = new
             /\ row.status \notin Complete
             /\ \A x \in Tx \ {c} : wroteRuns[x][u.run] = NoRow
  <2>1. wroteRuns \in [Tx -> [Run -> RunRow \cup {NoRow}]]
    BY DEF TablesTypeOK
  <2>2. CASE UNCHANGED wroteRuns
    BY <2>1, <2>2
  <2>3. CASE wroteRuns' = [wroteRuns EXCEPT ![c][u.run] = new]
    BY <1>1, <1>2, <1>3, <1>6, <2>1, <2>3, WriteRun
  <2> QED
    BY <1>3, <2>2, <2>3
<1>8. TypeOK'
  BY <1>4, <1>5, <1>7 DEF TablesTypeOK, DispatchTypeOK, ConsumerTypeOK, CleanTypeOK
<1>9. ConsumerPlaces'
  BY <1>4, <1>1 DEF ConsumerPlaces, ConsumerTypeOK
<1>10. RowsExist' /\ TimedOutExpired'
  BY <1>4 DEF RowsExist, TimedOutExpired
<1>11. OneWriter'
  BY <1>7 DEF OneWriter
<1>12. ConsumerWrites'
  <2> SUFFICES ASSUME NEW d \in Consumer, NEW r \in Run, wroteRuns'[d][r] # NoRow
               PROVE  /\ pc'[d] \in {"hosts", "commit"} /\ r = msg'[d].run
                      /\ runs'[r] # NoRow /\ runs'[r].status \notin Complete
                      /\ wroteRuns'[d][r].status \in Reported
    BY DEF ConsumerWrites
  <2>1. CASE wroteRuns'[d][r] = wroteRuns[d][r]
    BY <1>4, <2>1 DEF ConsumerWrites, ConsumerTypeOK
  <2>2. CASE wroteRuns'[d][r] # wroteRuns[d][r]
    <3>1. d = c /\ r = u.run /\ wroteRuns'[d][r] = new /\ row.status \notin Complete
      BY <1>7, <2>2 DEF Tx
    <3> QED
      BY <1>1, <1>2, <1>4, <3>1, TablesAssumption DEF ConsumerTypeOK, u, row
  <2> QED
    BY <2>1, <2>2
<1>13. CleanWrites'
  <2>1. wroteRuns'[Clean] = wroteRuns[Clean]
    BY <1>3, <1>6 DEF TablesTypeOK
  <2> QED
    BY <1>4, <2>1 DEF CleanWrites
<1> QED
  BY <1>8, <1>9, <1>10, <1>11, <1>12, <1>13

\* The statements on the host rows change no run and write rows of the run of
\* the message only.
LEMMA HostsStep ==
    ASSUME IInv, NEW c \in Consumer, UpsertHosts(c) \/ UpdateSatHost(c),
           UNCHANGED <<dispatchVars, cleanVars, remaining>>
    PROVE  IInv'
<1> USE DEF IInv, TypeOK, WritesCurrent, dispatchVars, cleanVars
<1> DEFINE u == msg[c]
<1>1. /\ u \in Upload /\ u.run \in Run /\ pc[c] = "hosts"
      /\ runs[u.run] # NoRow /\ c \in Tx
  BY DEF UpsertHosts, UpdateSatHost, ConsumerPlaces, Tx
<1>2. ASSUME wroteHosts' \in [Tx -> [Run -> [Host -> HostRow \cup {NoRow}]]],
             \A t \in Tx, r \in Run, h \in Host :
                wroteHosts'[t][r][h] # wroteHosts[t][r][h] => t = c /\ r = u.run,
             pc' = pc \/ pc' = [pc EXCEPT ![c] = "commit"],
             todo' \in [Consumer -> SUBSET Host],
             UNCHANGED <<topic, msg, seen, faults, runs, hosts, wroteRuns, expired>>
      PROVE  IInv'
  <2>1. TypeOK'
    BY <1>2 DEF TablesTypeOK, DispatchTypeOK, ConsumerTypeOK, CleanTypeOK
  <2>2. ConsumerPlaces' /\ ConsumerWrites'
    BY <1>1, <1>2 DEF ConsumerPlaces, ConsumerWrites, ConsumerTypeOK
  <2>3. RowsExist'
    <3> SUFFICES ASSUME NEW t \in Tx, NEW r \in Run, NEW h \in Host,
                        wroteHosts'[t][r][h] # NoRow, wroteHosts[t][r][h] = NoRow
                 PROVE  runs[r] # NoRow
      BY <1>2 DEF RowsExist
    <3> QED
      BY <1>1, <1>2
  <2>4. OneWriter' /\ CleanWrites' /\ TimedOutExpired'
    BY <1>2 DEF OneWriter, CleanWrites, TimedOutExpired
  <2> QED
    BY <2>1, <2>2, <2>3, <2>4
<1>3. CASE UpsertHosts(c)
  <2> DEFINE named == runnerHosts(u.events)
             written == [h \in Host |-> IF h \in named
                                        THEN upsertedHost(u, h, hosts[u.run][h]) ELSE NoRow]
  <2>1. /\ wroteHosts' = [wroteHosts EXCEPT ![c][u.run] = written]
        /\ u.kind = "runner" /\ pc' = [pc EXCEPT ![c] = "commit"]
        /\ UNCHANGED <<topic, msg, seen, todo, faults, runs, hosts, wroteRuns, expired>>
    BY <1>3 DEF UpsertHosts, goto
  <2>2. written \in [Host -> HostRow \cup {NoRow}]
    <3>1. \A h \in Host : upsertedHost(u, h, hosts[u.run][h]) \in HostRow
      BY <1>1, <2>1, upsertedHostType DEF TablesTypeOK
    <3> QED
      BY <3>1
  <2> HIDE DEF written, u
  <2>3. wroteHosts' \in [Tx -> [Run -> [Host -> HostRow \cup {NoRow}]]]
    BY <1>1, <2>1, <2>2 DEF TablesTypeOK
  <2>4. \A t \in Tx, r \in Run, h \in Host :
           wroteHosts'[t][r][h] # wroteHosts[t][r][h] => t = c /\ r = u.run
    BY <1>1, <2>1 DEF TablesTypeOK
  <2> QED
    BY <1>2, <2>1, <2>3, <2>4 DEF ConsumerTypeOK
<1>4. CASE UpdateSatHost(c)
  <2>0. PICK h \in todo[c] :
          /\ ~overflows(u, h)
          /\ \/ UNCHANGED wroteHosts
             \/ /\ matchesHost(u, h, hosts[u.run][h])
                /\ wroteHosts' = [wroteHosts EXCEPT ![c][u.run][h] =
                                    updatedSatHost(u, h, seen[c].full, hosts[u.run][h])]
          /\ todo' = [todo EXCEPT ![c] = @ \ {h}]
    BY <1>4 DEF UpdateSatHost
  <2>1. /\ u.kind = "sat" /\ h \in Host
        /\ UNCHANGED <<topic, pc, msg, seen, faults, runs, hosts, wroteRuns, expired>>
    BY <1>4 DEF UpdateSatHost, ConsumerTypeOK
  <2> DEFINE new == updatedSatHost(u, h, seen[c].full, hosts[u.run][h])
  <2>2. matchesHost(u, h, hosts[u.run][h]) => new \in HostRow
    <3>1. matchesHost(u, h, hosts[u.run][h]) => hosts[u.run][h] \in HostRow
      BY <1>1, <2>1 DEF matchesHost, TablesTypeOK
    <3> QED
      BY <1>1, <2>0, <2>1, <3>1, updatedSatHostType
  <2> HIDE DEF new, u
  <2>3. wroteHosts' \in [Tx -> [Run -> [Host -> HostRow \cup {NoRow}]]]
    <3>1. wroteHosts \in [Tx -> [Run -> [Host -> HostRow \cup {NoRow}]]]
      BY DEF TablesTypeOK
    <3>2. CASE UNCHANGED wroteHosts
      BY <3>1, <3>2
    <3>3. CASE matchesHost(u, h, hosts[u.run][h])
               /\ wroteHosts' = [wroteHosts EXCEPT ![c][u.run][h] = new]
      BY <1>1, <2>1, <2>2, <3>1, <3>3, WriteHost
    <3> QED
      BY <2>0, <3>2, <3>3 DEF new
  <2>4. \A t \in Tx, r \in Run, k \in Host :
           wroteHosts'[t][r][k] # wroteHosts[t][r][k] => t = c /\ r = u.run
    BY <1>1, <2>0, <2>1 DEF TablesTypeOK
  <2>5. todo' \in [Consumer -> SUBSET Host]
    BY <2>0 DEF ConsumerTypeOK
  <2> QED
    BY <1>2, <2>1, <2>3, <2>4, <2>5, SMTT(30)
<1> QED
  BY <1>3, <1>4

\* Forgetting the writes of a transaction leaves those of the others.
LEMMA ForgetWrites ==
    ASSUME IInv, NEW t \in Tx, forgetWrites(t)
    PROVE  /\ wroteRuns' \in [Tx -> [Run -> RunRow \cup {NoRow}]]
           /\ wroteHosts' \in [Tx -> [Run -> [Host -> HostRow \cup {NoRow}]]]
           /\ \A r \in Run : wroteRuns'[t][r] = NoRow
           /\ \A r \in Run, h \in Host : wroteHosts'[t][r][h] = NoRow
           /\ \A x \in Tx \ {t} : wroteRuns'[x] = wroteRuns[x] /\ wroteHosts'[x] = wroteHosts[x]
BY DEF forgetWrites, IInv, TypeOK, TablesTypeOK, NoHostRows

\* Committing replaces the rows the transaction wrote, and no others.
LEMMA CommitRows ==
    ASSUME IInv, NEW t \in Tx, commit(t)
    PROVE  /\ runs' \in [Run -> RunRow \cup {NoRow}]
           /\ hosts' \in [Run -> [Host -> HostRow \cup {NoRow}]]
           /\ \A r \in Run : runs'[r] = IF wroteRuns[t][r] # NoRow THEN wroteRuns[t][r]
                                         ELSE runs[r]
           /\ \A r \in Run, h \in Host :
                 hosts'[r][h] = IF wroteHosts[t][r][h] # NoRow THEN wroteHosts[t][r][h]
                                ELSE hosts[r][h]
           /\ expired' = expired
BY DEF commit, IInv, TypeOK, TablesTypeOK

\* The end of a consumer's transaction, whether it commits or not: every run
\* another transaction has written keeps its row.
LEMMA ConsumerEnds ==
    ASSUME IInv, NEW c \in Consumer, pc[c] # "idle", commit(c) \/ rollback(c), done(c),
           topic' \in [Upload -> Nat], faults' \in 0..MaxFaults,
           UNCHANGED <<dispatchVars, cleanVars, remaining>>
    PROVE  IInv'
<1> USE DEF IInv, TypeOK, WritesCurrent, dispatchVars, cleanVars
<1>1. c \in Tx /\ Clean \in Tx /\ c # Clean /\ forgetWrites(c) /\ UNCHANGED expired
  BY TablesAssumption DEF Tx, commit, rollback
<1>2. /\ runs' \in [Run -> RunRow \cup {NoRow}]
      /\ hosts' \in [Run -> [Host -> HostRow \cup {NoRow}]]
      /\ \A r \in Run : runs'[r] # runs[r] =>
            wroteRuns[c][r] # NoRow /\ runs'[r] = wroteRuns[c][r]
      /\ \A r \in Run, h \in Host : hosts'[r][h] # hosts[r][h] =>
            wroteHosts[c][r][h] # NoRow /\ hosts'[r][h] = wroteHosts[c][r][h]
  <2>1. CASE commit(c)
    BY <1>1, <2>1, CommitRows
  <2>2. CASE rollback(c)
    BY <2>2 DEF rollback, TablesTypeOK
  <2> QED
    BY <2>1, <2>2
<1>3. /\ \A r \in Run : runs'[r] = NoRow <=> runs[r] = NoRow
      /\ \A r \in Run, h \in Host : hosts'[r][h] = NoRow => hosts[r][h] = NoRow
  BY <1>2 DEF ConsumerWrites
<1>4. ASSUME NEW r \in Run, NEW h \in Host, hosts'[r][h] # NoRow PROVE runs'[r] # NoRow
  <2>1. hosts[r][h] # NoRow \/ wroteHosts[c][r][h] # NoRow
    BY <1>2, <1>4
  <2> QED
    BY <1>1, <1>3, <2>1 DEF RowsExist
<1>5. \A x \in Tx \ {c}, r \in Run : wroteRuns[x][r] # NoRow => runs'[r] = runs[r]
  BY <1>1, <1>2 DEF OneWriter
<1>6. TypeOK'
  <2>1. TablesTypeOK'
    BY <1>1, <1>2, ForgetWrites DEF TablesTypeOK
  <2>2. ConsumerTypeOK'
    BY DEF done, goto, ConsumerTypeOK
  <2> QED
    BY <2>1, <2>2 DEF DispatchTypeOK, CleanTypeOK
<1>7. ConsumerPlaces'
  BY <1>3 DEF ConsumerPlaces, done, goto, ConsumerTypeOK
<1>8. RowsExist'
  <2>1. \A r \in Run : runs'[r] # NoRow <=> api'[r] = "created"
    BY <1>3 DEF RowsExist
  <2>2. \A r \in Run, h \in Host, t \in Tx : wroteHosts'[t][r][h] # NoRow => runs'[r] # NoRow
    <3>1. \A r \in Run, h \in Host, t \in Tx :
             wroteHosts'[t][r][h] # NoRow => wroteHosts[t][r][h] # NoRow
      BY <1>1, ForgetWrites
    <3> QED
      BY <1>3, <3>1 DEF RowsExist
  <2>3. \A r \in Run, h \in Host : <<r, h>> \in targets' => hosts'[r][h] # NoRow
    BY <1>3 DEF RowsExist
  <2> QED
    BY <1>4, <2>1, <2>2, <2>3 DEF RowsExist
<1>9. OneWriter'
  <2>1. \A x \in Tx, r \in Run : wroteRuns'[x][r] # NoRow => wroteRuns[x][r] # NoRow
    BY <1>1, ForgetWrites
  <2> QED
    BY <2>1 DEF OneWriter
<1>10. ConsumerWrites'
  <2> SUFFICES ASSUME NEW d \in Consumer, NEW r \in Run, wroteRuns'[d][r] # NoRow
               PROVE  /\ pc'[d] \in {"hosts", "commit"} /\ r = msg'[d].run
                      /\ runs'[r] # NoRow /\ runs'[r].status \notin Complete
                      /\ wroteRuns'[d][r].status \in Reported
    BY DEF ConsumerWrites
  <2>1. d # c /\ d \in Tx /\ wroteRuns'[d] = wroteRuns[d]
    BY <1>1, ForgetWrites DEF Tx
  <2>2. pc'[d] = pc[d] /\ msg'[d] = msg[d] /\ runs'[r] = runs[r]
    BY <1>5, <2>1 DEF done, goto, ConsumerTypeOK
  <2> QED
    BY <2>1, <2>2 DEF ConsumerWrites
<1>11. CleanWrites'
  <2>1. wroteRuns'[Clean] = wroteRuns[Clean]
    BY <1>1, ForgetWrites
  <2>2. \A r \in ids : runs'[r] # NoRow /\ r \in expired
    BY <1>3 DEF CleanWrites, CleanTypeOK
  <2>3. ASSUME NEW r \in Run, cleanPc \in {"scan", "hosts", "commit"}, r \in ids
        PROVE  runs'[r] = runs[r]
    <3>1. wroteRuns[Clean][r] = [runs[r] EXCEPT !.status = "timeout"] /\ runs[r] \in RunRow
      BY <2>3 DEF CleanWrites, TablesTypeOK
    <3>2. [runs[r] EXCEPT !.status = "timeout"] \in RunRow
      BY <3>1 DEF RunRow, RunStatus
    <3> QED
      BY <1>1, <1>5, <3>1, <3>2, TablesAssumption
  <2> QED
    BY <1>1, <2>1, <2>2, <2>3 DEF CleanWrites
<1>12. TimedOutExpired'
  BY <1>1, <1>2 DEF TimedOutExpired, ConsumerWrites, Reported
<1> QED
  BY <1>6, <1>7, <1>8, <1>9, <1>10, <1>11, <1>12

-----------------------------------------------------------------------------
(* The clean job *)

\* Its SELECT and the scan of its last UPDATE only read the tables.
LEMMA CleanReads ==
    ASSUME IInv, CleanSelect \/ CleanHostsScan,
           UNCHANGED <<dispatchVars, consumerVars, remaining>>
    PROVE  IInv'
<1> USE DEF IInv, TypeOK, WritesCurrent, dispatchVars, consumerVars, tables
<1>1. UNCHANGED tables
  BY DEF CleanSelect, CleanHostsScan
<1>2. CleanTypeOK'
  BY DEF CleanSelect, CleanHostsScan, CleanTypeOK, TablesTypeOK
<1>3. TypeOK'
  BY <1>1, <1>2 DEF TablesTypeOK, DispatchTypeOK, ConsumerTypeOK
<1>4. ConsumerPlaces' /\ OneWriter' /\ ConsumerWrites' /\ TimedOutExpired'
  BY <1>1 DEF ConsumerPlaces, OneWriter, ConsumerWrites, TimedOutExpired
<1>5. RowsExist'
  <2>1. ASSUME NEW r \in Run, NEW h \in Host, <<r, h>> \in targets'
        PROVE  hosts[r][h] # NoRow
    <3>1. CASE CleanSelect
      BY <2>1, <3>1 DEF CleanSelect, RowsExist
    <3>2. CASE CleanHostsScan
      BY <2>1, <3>2 DEF CleanHostsScan
    <3> QED
      BY <3>1, <3>2
  <2> QED
    BY <1>1, <2>1 DEF RowsExist
<1>6. CleanWrites'
  <2>1. CASE CleanSelect
    BY <1>1, <2>1 DEF CleanSelect, CleanWrites
  <2>2. CASE CleanHostsScan
    BY <1>1, <2>2 DEF CleanHostsScan, CleanWrites
  <2> QED
    BY <2>1, <2>2
<1> QED
  BY <1>3, <1>4, <1>5, <1>6

\* Its UPDATE of the selected runs: no other transaction has written them.
LEMMA CleanRunsStep ==
    ASSUME IInv, CleanRuns, UNCHANGED <<dispatchVars, consumerVars, remaining>>
    PROVE  IInv'
<1> USE DEF IInv, TypeOK, WritesCurrent, dispatchVars, consumerVars
<1> DEFINE marked(r) == [runs[r] EXCEPT !.status = "timeout"]
<1>1. Clean \in Tx /\ Clean \notin Consumer
  BY TablesAssumption DEF Tx
<1>2. \A r \in ids : marked(r) \in RunRow /\ marked(r) # NoRow
  <2>1. \A r \in ids : runs[r] \in RunRow
    BY DEF CleanWrites, CleanTypeOK, TablesTypeOK
  <2>2. \A r \in ids : marked(r) \in RunRow
    BY <2>1 DEF RunRow, RunStatus
  <2> QED
    BY <2>2, TablesAssumption
<1> HIDE DEF marked
<1>3. /\ wroteRuns' = [wroteRuns EXCEPT ![Clean] =
                          [r \in Run |-> IF r \in ids THEN marked(r) ELSE NoRow]]
      /\ cleanPc' = "scan"
      /\ UNCHANGED <<ids, targets, runs, hosts, wroteHosts, expired>>
      /\ \A r \in ids, t \in Tx \ {Clean} : wroteRuns[t][r] = NoRow
  BY DEF CleanRuns, runLocked, marked
<1>4. /\ \A r \in Run : wroteRuns'[Clean][r] = IF r \in ids THEN marked(r) ELSE NoRow
      /\ \A t \in Tx \ {Clean} : wroteRuns'[t] = wroteRuns[t]
  BY <1>1, <1>3 DEF TablesTypeOK
<1>5. TypeOK'
  <2>1. wroteRuns' \in [Tx -> [Run -> RunRow \cup {NoRow}]]
    BY <1>1, <1>2, <1>3 DEF TablesTypeOK
  <2> QED
    BY <1>3, <2>1 DEF TablesTypeOK, DispatchTypeOK, ConsumerTypeOK, CleanTypeOK
<1>6. ConsumerPlaces' /\ RowsExist' /\ TimedOutExpired'
  BY <1>3 DEF ConsumerPlaces, RowsExist, TimedOutExpired
<1>7. OneWriter'
  BY <1>3, <1>4 DEF OneWriter
<1>8. ConsumerWrites'
  <2>1. \A c \in Consumer : wroteRuns'[c] = wroteRuns[c]
    BY <1>1, <1>4 DEF Tx
  <2> QED
    BY <1>3, <2>1 DEF ConsumerWrites
<1>9. CleanWrites'
  BY <1>3, <1>4 DEF CleanWrites, marked
<1> QED
  BY <1>5, <1>6, <1>7, <1>8, <1>9

\* Its UPDATE of the hosts: the rows it found are still there.
LEMMA CleanHostsStep ==
    ASSUME IInv, CleanHostsUpdate, UNCHANGED <<dispatchVars, consumerVars, remaining>>
    PROVE  IInv'
<1> USE DEF IInv, TypeOK, WritesCurrent, dispatchVars, consumerVars
<1> DEFINE marked(r, h) == [hosts[r][h] EXCEPT !.status = "timeout"]
           written == [r \in Run |-> [h \in Host |->
                          IF <<r, h>> \in targets THEN marked(r, h) ELSE NoRow]]
<1>1. Clean \in Tx
  BY DEF Tx
<1>2. /\ wroteHosts' = [wroteHosts EXCEPT ![Clean] = written]
      /\ cleanPc = "hosts" /\ cleanPc' = "commit"
      /\ UNCHANGED <<ids, targets, runs, hosts, wroteRuns, expired>>
  BY DEF CleanHostsUpdate
<1>3. written \in [Run -> [Host -> HostRow \cup {NoRow}]]
  <2>1. ASSUME NEW r \in Run, NEW h \in Host, <<r, h>> \in targets
        PROVE  marked(r, h) \in HostRow
    <3>1. hosts[r][h] \in HostRow
      BY <2>1 DEF RowsExist, TablesTypeOK
    <3> QED
      BY <3>1 DEF HostRow, RunStatus
  <2> HIDE DEF marked
  <2> QED
    BY <2>1
<1>4. \A r \in Run, h \in Host : written[r][h] # NoRow => <<r, h>> \in targets
  OBVIOUS
<1> HIDE DEF written
<1>5. TypeOK'
  <2>1. wroteHosts' \in [Tx -> [Run -> [Host -> HostRow \cup {NoRow}]]]
    BY <1>1, <1>2, <1>3 DEF TablesTypeOK
  <2> QED
    BY <1>2, <2>1 DEF TablesTypeOK, DispatchTypeOK, ConsumerTypeOK, CleanTypeOK
<1>6. RowsExist'
  <2>1. ASSUME NEW t \in Tx, NEW r \in Run, NEW h \in Host, wroteHosts'[t][r][h] # NoRow
        PROVE  runs[r] # NoRow
    <3>1. wroteHosts[t][r][h] # NoRow \/ <<r, h>> \in targets
      BY <1>1, <1>2, <1>4, <2>1 DEF TablesTypeOK
    <3> QED
      BY <3>1 DEF RowsExist
  <2> QED
    BY <1>2, <2>1 DEF RowsExist
<1>7. CleanWrites'
  BY <1>2 DEF CleanWrites
<1>8. ConsumerPlaces' /\ OneWriter' /\ ConsumerWrites' /\ TimedOutExpired'
  BY <1>2 DEF ConsumerPlaces, OneWriter, ConsumerWrites, TimedOutExpired
<1> QED
  BY <1>5, <1>6, <1>7, <1>8

\* The end of the job's transaction: it commits the selected runs as timed out,
\* all of which are expired, or nothing.
LEMMA CleanEnds ==
    ASSUME IInv, commit(Clean) \/ rollback(Clean), cleanDone,
           topic' = topic, faults' \in 0..MaxFaults,
           UNCHANGED <<pc, msg, seen, todo, dispatchVars, remaining>>
    PROVE  IInv'
<1> USE DEF IInv, TypeOK, WritesCurrent, dispatchVars
<1>1. Clean \in Tx /\ Clean \notin Consumer /\ forgetWrites(Clean) /\ UNCHANGED expired
  BY TablesAssumption DEF Tx, commit, rollback
<1>2. /\ runs' \in [Run -> RunRow \cup {NoRow}]
      /\ hosts' \in [Run -> [Host -> HostRow \cup {NoRow}]]
      /\ \A r \in Run : runs'[r] # runs[r] =>
            wroteRuns[Clean][r] # NoRow /\ runs'[r] = wroteRuns[Clean][r]
      /\ \A r \in Run, h \in Host : hosts'[r][h] # hosts[r][h] =>
            wroteHosts[Clean][r][h] # NoRow /\ hosts'[r][h] = wroteHosts[Clean][r][h]
  <2>1. CASE commit(Clean)
    BY <1>1, <2>1, CommitRows
  <2>2. CASE rollback(Clean)
    BY <2>2 DEF rollback, TablesTypeOK
  <2> QED
    BY <2>1, <2>2
<1>3. /\ \A r \in Run : runs'[r] = NoRow <=> runs[r] = NoRow
      /\ \A r \in Run : runs'[r] # runs[r] => r \in expired
  BY <1>2 DEF CleanWrites
<1>4. ASSUME NEW r \in Run, NEW h \in Host, hosts'[r][h] # NoRow PROVE runs'[r] # NoRow
  <2>1. hosts[r][h] # NoRow \/ wroteHosts[Clean][r][h] # NoRow
    BY <1>2, <1>4
  <2> QED
    BY <1>1, <1>3, <2>1 DEF RowsExist
<1>5. \A c \in Consumer, r \in Run :
         wroteRuns[c][r] # NoRow => wroteRuns'[c][r] = wroteRuns[c][r] /\ runs'[r] = runs[r]
  <2>1. \A c \in Consumer : c \in Tx /\ c # Clean
    BY <1>1 DEF Tx
  <2>2. \A c \in Consumer : wroteRuns'[c] = wroteRuns[c]
    BY <1>1, <2>1, ForgetWrites
  <2> QED
    BY <1>1, <1>2, <2>1, <2>2 DEF OneWriter
<1>6. TypeOK'
  <2>1. TablesTypeOK'
    BY <1>1, <1>2, ForgetWrites DEF TablesTypeOK
  <2>2. CleanTypeOK'
    BY DEF cleanDone, CleanTypeOK
  <2> QED
    BY <2>1, <2>2 DEF DispatchTypeOK, ConsumerTypeOK
<1>7. ConsumerPlaces'
  BY <1>3 DEF ConsumerPlaces
<1>8. RowsExist'
  <2>1. \A r \in Run : runs'[r] # NoRow <=> api'[r] = "created"
    BY <1>3 DEF RowsExist
  <2>2. \A r \in Run, h \in Host, t \in Tx : wroteHosts'[t][r][h] # NoRow => runs'[r] # NoRow
    <3>1. \A r \in Run, h \in Host, t \in Tx :
             wroteHosts'[t][r][h] # NoRow => wroteHosts[t][r][h] # NoRow
      BY <1>1, ForgetWrites
    <3> QED
      BY <1>3, <3>1 DEF RowsExist
  <2> QED
    BY <1>4, <2>1, <2>2 DEF RowsExist, cleanDone
<1>9. OneWriter'
  <2>1. \A x \in Tx, r \in Run : wroteRuns'[x][r] # NoRow => wroteRuns[x][r] # NoRow
    BY <1>1, ForgetWrites
  <2> QED
    BY <2>1 DEF OneWriter
<1>10. ConsumerWrites'
  <2>1. \A c \in Consumer, r \in Run : wroteRuns'[c][r] # NoRow => wroteRuns[c][r] # NoRow
    <3>1. \A c \in Consumer : c \in Tx /\ c # Clean
      BY <1>1 DEF Tx
    <3> QED
      BY <1>1, <3>1, ForgetWrites
  <2> QED
    BY <1>5, <2>1 DEF ConsumerWrites
<1>11. CleanWrites'
  <2>1. \A r \in Run : wroteRuns'[Clean][r] = NoRow
    BY <1>1, ForgetWrites
  <2> QED
    BY <2>1 DEF CleanWrites, cleanDone
<1>12. TimedOutExpired'
  BY <1>1, <1>3 DEF TimedOutExpired
<1> QED
  BY <1>6, <1>7, <1>8, <1>9, <1>10, <1>11, <1>12

-----------------------------------------------------------------------------
(* Every step keeps the invariant *)

\* die, the rollback and the copy put back into the topic included.
LEMMA DieStep ==
    ASSUME IInv, NEW c \in Consumer, pc[c] # "idle", die(c),
           UNCHANGED <<dispatchVars, cleanVars, remaining>>
    PROVE  IInv'
<1>1. topic' \in [Upload -> Nat] /\ faults' \in 0..MaxFaults
  BY ConsumerAssumption DEF die, IInv, TypeOK, ConsumerTypeOK, WritesCurrent, ConsumerPlaces
<1> QED
  BY <1>1, ConsumerEnds DEF die

\* The invariant is inductive: one case per action of the specification.
LEMMA IInvNext == IInv /\ [Next]_vars => IInv'
<1> SUFFICES ASSUME IInv, [Next]_vars PROVE IInv'
  OBVIOUS
<1>1. topic \in [Upload -> Nat] /\ faults \in 0..MaxFaults
  BY DEF IInv, TypeOK, ConsumerTypeOK
<1>2. CASE Api
  BY <1>2, RequestStep DEF Api
<1>3. CASE Recipient \/ Clock
  BY <1>3, EnvironmentStep
<1>4. ASSUME NEW c \in Consumer, Consume(c), UNCHANGED <<dispatchVars, cleanVars, remaining>>
      PROVE  IInv'
  <2>1. CASE Receive(c) \/ DropUnreadable(c) \/ SelectRun(c) \/ SatHostsDone(c)
    BY <1>4, <2>1, ConsumerMoves
  <2>2. CASE UpdateRun(c)
    BY <1>4, <2>2, UpdateRunStep
  <2>3. CASE UpsertHosts(c) \/ UpdateSatHost(c)
    BY <1>4, <2>3, HostsStep
  <2>4. CASE Commit(c)
    BY <1>1, <1>4, <2>4, ConsumerEnds DEF Commit
  <2>5. CASE SequenceOverflow(c)
    BY <1>1, <1>4, <2>5, ConsumerEnds DEF SequenceOverflow
  <2>6. CASE Panic(c)
    BY <1>4, <2>6, DieStep DEF Panic
  <2> QED
    BY <1>4, <2>1, <2>2, <2>3, <2>4, <2>5, <2>6 DEF Consume
<1>5. ASSUME NEW c \in Consumer, DatabaseError(c) \/ Crash(c),
             UNCHANGED <<dispatchVars, cleanVars, remaining>>
      PROVE  IInv'
  <2>1. CASE DatabaseError(c)
    BY <1>1, <1>5, <2>1, ConsumerEnds DEF DatabaseError
  <2>2. CASE Crash(c)
    BY <1>5, <2>2, DieStep DEF Crash
  <2> QED
    BY <1>5, <2>1, <2>2
<1>6. CASE Cleaning
  <2>1. UNCHANGED <<dispatchVars, consumerVars, remaining>>
    BY <1>6 DEF Cleaning
  <2>2. CASE CleanSelect \/ CleanHostsScan
    BY <2>1, <2>2, CleanReads
  <2>3. CASE CleanRuns
    BY <2>1, <2>3, CleanRunsStep
  <2>4. CASE CleanHostsUpdate
    BY <2>1, <2>4, CleanHostsStep
  <2>5. CASE CleanCommit
    BY <1>1, <2>1, <2>5, CleanEnds DEF CleanCommit, consumerVars
  <2> QED
    BY <1>6, <2>2, <2>3, <2>4, <2>5 DEF Cleaning, CleanStep
<1>7. CASE CleanFailing
  <2>1. faults' \in 0..MaxFaults
    BY <1>1, <1>7, ConsumerAssumption DEF CleanFailing, CleanFails
  <2> QED
    BY <1>7, <2>1, CleanEnds DEF CleanFailing, CleanFails, CleanAborts
<1>8. CASE UNCHANGED vars
  <2> USE <1>8 DEF vars, tables, dispatchVars, consumerVars, cleanVars, IInv
  <2>1. TypeOK'
    BY DEF TypeOK, TablesTypeOK, DispatchTypeOK, ConsumerTypeOK, CleanTypeOK
  <2>2. WritesCurrent'
    BY DEF WritesCurrent, ConsumerPlaces, RowsExist, OneWriter, ConsumerWrites,
           CleanWrites, TimedOutExpired
  <2> QED
    BY <2>1, <2>2
<1> QED
  BY <1>2, <1>3, <1>4, <1>5, <1>6, <1>7, <1>8 DEF Next, Consuming, ConsumerFails

\* The inductive invariant holds in every reachable state.
THEOREM Invariant == Spec => []IInv
BY IInvInit, IInvNext, PTL DEF Spec

\* Every variable keeps its type: no status outside the table's enumeration, no
\* sequence number outside its column, whatever the recipients send.
THEOREM TypeCorrect == Spec => []TypeOK
<1>1. IInv => TypeOK
  BY DEF IInv
<1> QED
  BY <1>1, Invariant, PTL

\* What open transactions are about to commit are changes of the current rows.
THEOREM NoLostUpdate == Spec => []WritesCurrent
<1>1. IInv => WritesCurrent
  BY DEF IInv
<1> QED
  BY <1>1, Invariant, PTL

-----------------------------------------------------------------------------
(* What changes the rows of runs *)

\* Only five actions change a row of runs or the selection of the clean job.
LEMMA RunChanges ==
    ASSUME [Next]_vars
    PROVE  \/ UNCHANGED <<runs, ids>>
           \/ (\E r \in Run : CreateRun(r)) /\ UNCHANGED ids
           \/ (\E c \in Consumer : Commit(c)) /\ UNCHANGED ids
           \/ CleanSelect /\ UNCHANGED runs
           \/ CleanCommit
           \/ CleanAborts /\ UNCHANGED runs
<1> DEFINE Claim == \/ UNCHANGED <<runs, ids>>
                    \/ (\E r \in Run : CreateRun(r)) /\ UNCHANGED ids
                    \/ (\E c \in Consumer : Commit(c)) /\ UNCHANGED ids
                    \/ CleanSelect /\ UNCHANGED runs
                    \/ CleanCommit
                    \/ CleanAborts /\ UNCHANGED runs
<1> USE DEF tables, cleanVars
<1>1. ASSUME Api PROVE Claim
  BY <1>1 DEF Api, ProcessRun, TakeToken, SendRequest, CreateFails
<1>2. ASSUME Recipient \/ Clock PROVE Claim
  BY <1>2 DEF Recipient, Publish, Clock, Expire
<1>3. ASSUME NEW c \in Consumer, UNCHANGED cleanVars,
             Consume(c) \/ DatabaseError(c) \/ Crash(c)
      PROVE  Claim
  <2>1. die(c) => UNCHANGED runs
    BY DEF die, rollback
  <2> QED
    BY <1>3, <2>1 DEF Consume, Receive, DropUnreadable, SelectRun, UpdateRun, UpsertHosts,
       UpdateSatHost, SatHostsDone, SequenceOverflow, Panic, DatabaseError, Crash, rollback
<1>4. ASSUME Cleaning PROVE Claim
  BY <1>4 DEF Cleaning, CleanStep, CleanSelect, CleanRuns, CleanHostsScan, CleanHostsUpdate
<1>5. ASSUME CleanFailing PROVE Claim
  BY <1>5 DEF CleanFailing, CleanFails, CleanAborts, rollback
<1>6. ASSUME UNCHANGED vars PROVE Claim
  BY <1>6 DEF vars
<1>7. ASSUME Consuming \/ ConsumerFails PROVE Claim
  BY <1>3, <1>7 DEF Consuming, ConsumerFails
<1> QED
  BY <1>1, <1>2, <1>4, <1>5, <1>6, <1>7 DEF Next

\* The new row of a changed run: a request's, a consumer's or the clean job's.
LEMMA RowChange ==
    ASSUME IInv, [Next]_vars, NEW r \in Run, runs'[r] # runs[r]
    PROVE  \/ runs[r] = NoRow /\ runs'[r] = newRun(r)
           \/ /\ \E c \in Consumer : pc[c] = "commit" /\ msg[c].run = r
              /\ runs[r] # NoRow /\ runs[r].status \notin Complete
              /\ runs'[r].status \in Reported
           \/ /\ cleanPc = "commit" /\ r \in ids /\ runs[r] # NoRow
              /\ runs'[r] = [runs[r] EXCEPT !.status = "timeout"]
<1> USE DEF IInv, TypeOK, WritesCurrent
<1>1. ASSUME NEW x \in Run, CreateRun(x) PROVE runs[r] = NoRow /\ runs'[r] = newRun(r)
  BY <1>1 DEF CreateRun, RowsExist, TablesTypeOK
<1>2. ASSUME NEW c \in Consumer, Commit(c)
      PROVE  /\ pc[c] = "commit" /\ msg[c].run = r
             /\ runs[r] # NoRow /\ runs[r].status \notin Complete
             /\ runs'[r].status \in Reported
  <2>1. wroteRuns[c][r] # NoRow /\ runs'[r] = wroteRuns[c][r]
    BY <1>2 DEF Commit, commit
  <2> QED
    BY <1>2, <2>1 DEF ConsumerWrites, Commit
<1>3. ASSUME CleanCommit
      PROVE  /\ cleanPc = "commit" /\ r \in ids /\ runs[r] # NoRow
             /\ runs'[r] = [runs[r] EXCEPT !.status = "timeout"]
  <2>1. wroteRuns[Clean][r] # NoRow /\ runs'[r] = wroteRuns[Clean][r]
    BY <1>3 DEF CleanCommit, commit
  <2> QED
    BY <1>3, <2>1 DEF CleanWrites, CleanCommit
<1> QED
  BY <1>1, <1>2, <1>3, RunChanges

-----------------------------------------------------------------------------
(* Theorems about runs *)

\* A complete run changes only to timeout, by a clean job that had selected it:
\* for any number of consumers, any uploads, crashes and redeliveries.
THEOREM CompleteKept == Spec => CompleteOnlyTimedOut
<1>1. IInv /\ [Next]_vars =>
        [\A r \in Run :
           (runs[r] # NoRow /\ runs[r].status \in Complete /\ runs'[r] # runs[r]) =>
              /\ cleanPc = "commit" /\ r \in ids
              /\ runs'[r] = [runs[r] EXCEPT !.status = "timeout"]]_vars
  BY RowChange
<1> QED
  BY <1>1, Invariant, PTL DEF Spec, CompleteOnlyTimedOut

\* What was shown as success, failure or timeout is never shown as running
\* again: only an expired run's row can go back to running, and an expired
\* running run is shown as timed out.
THEOREM NeverShownRunningAgain == Spec => NeverRunningAgain
<1>1. ASSUME IInv, [Next]_vars, NEW r \in Run,
             Displayed(r) \in {"success", "failure", "timeout"}
      PROVE  Displayed(r)' # "running"
  <2>1. runs[r] # NoRow
    BY <1>1, SMTT(30) DEF Displayed, Nil
  <2>2. expired \subseteq expired'
    BY <1>1 DEF Next, vars, tables, Api, ProcessRun, TakeToken, SendRequest, CreateRun, CreateFails,
       Recipient, Publish, Consuming, Consume, Receive, DropUnreadable, SelectRun, UpdateRun,
       UpsertHosts, UpdateSatHost, SatHostsDone, Commit, SequenceOverflow, Panic, ConsumerFails,
       DatabaseError, Crash, die, Cleaning, CleanStep, CleanSelect, CleanRuns, CleanHostsScan,
       CleanHostsUpdate, CleanCommit, CleanFailing, CleanFails, CleanAborts, Clock, Expire,
       commit, rollback
  <2>3. CASE runs'[r] = runs[r]
    BY <1>1, <2>1, <2>2, <2>3 DEF Displayed
  <2>4. CASE runs'[r] # runs[r]
    <3>1. CASE runs[r].status \notin Complete
      <4>1. r \in expired
        BY <1>1, <2>1, <3>1 DEF Displayed, Complete, IInv, WritesCurrent, TimedOutExpired
      <4> QED
        BY <2>2, <4>1 DEF Displayed, Nil
    <3>2. CASE runs[r].status \in Complete
      <4>1. runs'[r] = [runs[r] EXCEPT !.status = "timeout"] /\ runs[r] \in RunRow
        BY <1>1, <2>1, <2>4, <3>2, RowChange DEF IInv, TypeOK, TablesTypeOK
      <4>2. runs'[r].status = "timeout"
        BY <4>1 DEF RunRow
      <4> QED
        BY <4>2 DEF Displayed, Nil
    <3> QED
      BY <3>1, <3>2
  <2> QED
    BY <2>3, <2>4
<1>2. IInv /\ [Next]_vars =>
        [\A r \in Run : Displayed(r) \in {"success", "failure", "timeout"} =>
                         Displayed(r)' # "running"]_vars
  BY <1>1
<1> QED
  BY <1>2, Invariant, PTL DEF Spec, NeverRunningAgain

\* RunLifecycle implements RunRecord: the three processes that share the runs
\* table together change statuses only as the promise to readers allows.
THEOREM ImplementsRunRecord == Spec => KeepsPromise
<1> USE DEF Promise!Open
<1>1. Init => Promise!Init
  BY DEF Init, TablesInit, CleanInit, Promise!Init, storedStatus
<1>2. ASSUME IInv, [Next]_vars PROVE [Promise!Next]_(Promise!recordVars)
  <2> USE <1>2 DEF IInv, TypeOK, WritesCurrent, Promise!recordVars
  <2>1. CASE UNCHANGED <<runs, ids>>
    BY <2>1 DEF storedStatus
  <2>2. ASSUME NEW r \in Run, CreateRun(r), UNCHANGED ids PROVE Promise!Record(r)
    <3>1. runs[r] = NoRow /\ newRun(r) # NoRow /\ newRun(r).status = "running"
      <4>1. newRun(r) \in RunRow
        <5>1. (r \in SatRun => ResponseFull) \in BOOLEAN
          OBVIOUS
        <5> QED
          BY <5>1 DEF newRun, RunRow, RunStatus
      <4> QED
        BY <2>2, <4>1, TablesAssumption DEF CreateRun, RowsExist, newRun
    <3>2. runs' = [runs EXCEPT ![r] = newRun(r)]
      BY <2>2 DEF CreateRun
    <3> QED
      BY <2>2, <3>1, <3>2 DEF Promise!Record, storedStatus, TablesTypeOK
  <2>3. ASSUME NEW c \in Consumer, Commit(c), UNCHANGED ids
        PROVE  [Promise!Next]_(Promise!recordVars)
    <3> DEFINE r == msg[c].run
    <3>1. \A x \in Run : runs'[x] # runs[x] =>
             /\ x = r /\ runs[x] # NoRow /\ runs[x].status \notin Complete
             /\ runs'[x] # NoRow /\ runs'[x].status \in Reported
      BY <2>3, CommitRows DEF Commit, commit, ConsumerWrites, Tx
    <3>2. r \in Run
      BY <2>3 DEF Commit, ConsumerPlaces
    <3>3. CASE runs'[r] = runs[r]
      <4>1. storedStatus' = storedStatus
        BY <3>1, <3>3 DEF storedStatus
      <4> QED
        BY <2>3, <4>1
    <3>4. CASE runs'[r] # runs[r]
      <4>1. storedStatus' = [storedStatus EXCEPT ![r] = runs'[r].status]
        BY <3>1, <3>2, <3>4 DEF storedStatus
      <4>2. Promise!Open(r)
        BY <3>1, <3>2, <3>4 DEF storedStatus, TablesTypeOK, RunRow, RunStatus, Complete
      <4>3. Promise!Report(r)
        BY <2>3, <3>1, <3>2, <3>4, <4>1, <4>2 DEF Promise!Report, Reported
      <4> QED
        BY <3>2, <4>3 DEF Promise!Next
    <3> QED
      BY <3>3, <3>4
  <2>4. ASSUME CleanSelect, UNCHANGED runs PROVE Promise!Pick
    BY <2>4 DEF CleanSelect, CleanWrites, TablesTypeOK, Promise!Pick, storedStatus
  <2>5. ASSUME CleanCommit PROVE Promise!TimeOut
    <3>1. \A r \in ids : runs[r] # NoRow /\ runs[r] \in RunRow
      BY DEF CleanWrites, CleanTypeOK, TablesTypeOK
    <3>2. \A r \in ids : [runs[r] EXCEPT !.status = "timeout"] \in RunRow
      BY <3>1 DEF RunRow, RunStatus
    <3>3. \A r \in Run : runs'[r] = IF r \in ids THEN [runs[r] EXCEPT !.status = "timeout"]
                                     ELSE runs[r]
      <4>1. cleanPc = "commit" /\ commit(Clean) /\ Clean \in Tx
        BY <2>5 DEF CleanCommit, Tx
      <4>2. \A r \in Run : wroteRuns[Clean][r] = IF r \in ids
                                                 THEN [runs[r] EXCEPT !.status = "timeout"]
                                                 ELSE NoRow
        BY <4>1 DEF CleanWrites
      <4>3. \A r \in Run : runs'[r] = IF wroteRuns[Clean][r] # NoRow THEN wroteRuns[Clean][r]
                                       ELSE runs[r]
        BY <4>1, CommitRows
      <4> QED
        BY <3>2, <4>2, <4>3, TablesAssumption
    <3>4. \A r \in ids : [runs[r] EXCEPT !.status = "timeout"].status = "timeout"
      BY <3>1 DEF RunRow
    <3>5. storedStatus' = [r \in Run |-> IF r \in ids THEN "timeout" ELSE storedStatus[r]]
      BY <3>2, <3>3, <3>4, TablesAssumption, ZenonT(40) DEF storedStatus
    <3> QED
      BY <2>5, <3>5 DEF CleanCommit, cleanDone, Promise!TimeOut
  <2>6. ASSUME CleanAborts, UNCHANGED runs PROVE Promise!GiveUp
    BY <2>6 DEF CleanAborts, cleanDone, Promise!GiveUp, storedStatus
  <2> QED
    BY <1>2, <2>1, <2>2, <2>3, <2>4, <2>5, <2>6, RunChanges DEF Promise!Next
<1> QED
  BY <1>1, <1>2, Invariant, PTL DEF Spec, KeepsPromise, Promise!Spec
=============================================================================
