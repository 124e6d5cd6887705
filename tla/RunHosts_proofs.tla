--------------------------- MODULE RunHosts_proofs ---------------------------
(***************************************************************************)
(* Proofs about the rows of run_hosts in RunLifecycle, and about the       *)
(* statuses that depend on what a consumer's SELECT saw.                   *)
(*                                                                         *)
(* RunLifecycle_proofs shows that open transactions change current rows of *)
(* runs.  Here the invariant says what exactly every open transaction is   *)
(* about to commit, rows of run_hosts included: HInv.                      *)
(***************************************************************************)
EXTENDS RunLifecycle_proofs

-----------------------------------------------------------------------------
(* What open transactions are about to commit *)

InTransaction == {"update", "hosts", "commit"}

\* A response is full or partial for the whole life of its run.
FullFixed == \A r \in Run : runs[r] # NoRow => runs[r].full = newRun(r).full

\* Two transactions never have uncommitted writes of the same host.
OneHostWriter ==
    \A r \in Run, h \in Host : \A t, u \in Tx :
        wroteHosts[t][r][h] # NoRow /\ wroteHosts[u][r][h] # NoRow => t = u

\* What a consumer knows in its transaction.
Knows(c) ==
    pc[c] \in InTransaction =>
        /\ seen[c].full = newRun(msg[c].run).full
        /\ msg[c].kind \in {"runner", "sat"}
        /\ (pc[c] = "hosts" /\ msg[c].kind = "sat") =>
              todo[c] \subseteq GetSatHosts(msg[c].events)

\* Its row of runs: the current one with the status and events of its message.
RunRowOf(c) ==
    \A r \in Run : wroteRuns[c][r] # NoRow =>
        wroteRuns[c][r] = [runs[r] EXCEPT !.status = statusFor(msg[c], seen[c]),
                                          !.events = msg[c].events]

\* Its rows of run_hosts: for a runner upload all of them, written at once ...
RunnerRowsOf(c) ==
    (pc[c] \in InTransaction /\ msg[c].kind = "runner") =>
        \A r \in Run, h \in Host :
            wroteHosts[c][r][h] =
                IF pc[c] = "commit" /\ r = msg[c].run /\ h \in runnerHosts(msg[c].events)
                THEN upsertedHost(msg[c], h, hosts[r][h]) ELSE NoRow

\* ... and for a Satellite upload those whose sequence number is not stale.
SatRowsOf(c) ==
    (pc[c] \in InTransaction /\ msg[c].kind = "sat") =>
        \A r \in Run, h \in Host : wroteHosts[c][r][h] # NoRow =>
            /\ pc[c] # "update" /\ r = msg[c].run /\ h \in GetSatHosts(msg[c].events)
            /\ ~overflows(msg[c], h)
            /\ matchesHost(msg[c], h, hosts[r][h])
            /\ wroteHosts[c][r][h] = updatedSatHost(msg[c], h, seen[c].full, hosts[r][h])

NoRowsOf(c) ==
    pc[c] \notin InTransaction => \A r \in Run, h \in Host : wroteHosts[c][r][h] = NoRow

ConsumerRows(c) ==
    Knows(c) /\ RunRowOf(c) /\ RunnerRowsOf(c) /\ SatRowsOf(c) /\ NoRowsOf(c)

\* The clean job times out the hosts its subquery found, as they are by now.
CleanRows ==
    \A r \in Run, h \in Host :
        wroteHosts[Clean][r][h] =
            IF cleanPc = "commit" /\ <<r, h>> \in targets
            THEN [hosts[r][h] EXCEPT !.status = "timeout"] ELSE NoRow

Changes ==
    /\ FullFixed /\ OneHostWriter
    /\ \A c \in Consumer : ConsumerRows(c)
    /\ CleanRows

HInv == IInv /\ Changes

\* A transaction's rows stay what they are while it does nothing and the rows
\* it has written stay as they are committed.
LEMMA ConsumerAtRest ==
    ASSUME NEW c \in Consumer, ConsumerRows(c),
           pc'[c] = pc[c], msg'[c] = msg[c], seen'[c] = seen[c], todo'[c] = todo[c],
           wroteRuns'[c] = wroteRuns[c], wroteHosts'[c] = wroteHosts[c],
           \A r \in Run : wroteRuns[c][r] # NoRow => runs'[r] = runs[r],
           \A r \in Run, h \in Host : wroteHosts[c][r][h] # NoRow => hosts'[r][h] = hosts[r][h],
           pc[c] \in InTransaction => msg[c] \in Upload,
           \A r \in Run, h \in Host : hosts[r][h] \in HostRow \cup {NoRow}
    PROVE  ConsumerRows(c)'
<1> USE DEF ConsumerRows
<1>1. Knows(c)'
  BY DEF Knows
<1>2. RunRowOf(c)'
  BY DEF RunRowOf
<1>3. RunnerRowsOf(c)'
  <2> SUFFICES ASSUME pc[c] \in InTransaction, msg[c].kind = "runner",
                      NEW r \in Run, NEW h \in Host
               PROVE  wroteHosts[c][r][h] =
                        IF pc[c] = "commit" /\ r = msg[c].run /\ h \in runnerHosts(msg[c].events)
                        THEN upsertedHost(msg[c], h, hosts'[r][h]) ELSE NoRow
    BY DEF RunnerRowsOf
  <2>1. CASE pc[c] = "commit" /\ r = msg[c].run /\ h \in runnerHosts(msg[c].events)
    <3>1. wroteHosts[c][r][h] = upsertedHost(msg[c], h, hosts[r][h])
      BY <2>1 DEF RunnerRowsOf
    <3>2. wroteHosts[c][r][h] # NoRow
      BY <3>1, upsertedHostType, TablesAssumption
    <3> QED BY <2>1, <3>1, <3>2
  <2>2. CASE ~(pc[c] = "commit" /\ r = msg[c].run /\ h \in runnerHosts(msg[c].events))
    BY <2>2 DEF RunnerRowsOf
  <2> QED BY <2>1, <2>2
<1>4. SatRowsOf(c)'
  BY DEF SatRowsOf
<1>5. NoRowsOf(c)'
  BY DEF NoRowsOf
<1> QED BY <1>1, <1>2, <1>3, <1>4, <1>5

\* A consumer outside its transaction has written nothing.
LEMMA ConsumerOutside ==
    ASSUME NEW c \in Consumer, pc'[c] \notin InTransaction,
           \A r \in Run : wroteRuns'[c][r] = NoRow,
           \A r \in Run, h \in Host : wroteHosts'[c][r][h] = NoRow
    PROVE  ConsumerRows(c)'
BY DEF ConsumerRows, Knows, RunRowOf, RunnerRowsOf, SatRowsOf, NoRowsOf

\* The clean job's rows likewise.
LEMMA CleanAtRest ==
    ASSUME IInv, CleanRows, UNCHANGED <<cleanPc, targets>>,
           wroteHosts'[Clean] = wroteHosts[Clean],
           \A r \in Run, h \in Host : wroteHosts[Clean][r][h] # NoRow => hosts'[r][h] = hosts[r][h]
    PROVE  CleanRows'
<1>1. cleanPc' = cleanPc /\ targets' = targets
  OBVIOUS
<1> SUFFICES ASSUME NEW r \in Run, NEW h \in Host
             PROVE  wroteHosts'[Clean][r][h] =
                      IF cleanPc' = "commit" /\ <<r, h>> \in targets'
                      THEN [hosts'[r][h] EXCEPT !.status = "timeout"] ELSE NoRow
  BY Zenon DEF CleanRows
<1>2. wroteHosts[Clean][r][h] = IF cleanPc = "commit" /\ <<r, h>> \in targets
                                THEN [hosts[r][h] EXCEPT !.status = "timeout"] ELSE NoRow
  BY Zenon DEF CleanRows
<1>3. CASE cleanPc = "commit" /\ <<r, h>> \in targets
  <2>1. wroteHosts[Clean][r][h] = [hosts[r][h] EXCEPT !.status = "timeout"]
    BY <1>2, <1>3
  <2>2. hosts[r][h] \in HostRow
    BY <1>3 DEF IInv, TypeOK, TablesTypeOK, WritesCurrent, RowsExist
  <2>3. [hosts[r][h] EXCEPT !.status = "timeout"] \in HostRow
    BY <2>2 DEF HostRow, RunStatus
  <2>4. hosts'[r][h] = hosts[r][h]
    BY <2>1, <2>3, TablesAssumption
  <2> QED BY <1>1, <1>3, <2>1, <2>4
<1>4. CASE ~(cleanPc = "commit" /\ <<r, h>> \in targets)
  BY <1>1, <1>2, <1>4
<1> QED BY <1>3, <1>4

\* At the start nothing is written.
LEMMA HInvInit == Init => HInv
<1> SUFFICES ASSUME Init PROVE Changes
  BY IInvInit DEF HInv
<1> USE DEF Init, TablesInit, ConsumerInit, CleanInit, NoHostRows
<1>1. FullFixed
  BY DEF FullFixed
<1>2. OneHostWriter
  BY DEF OneHostWriter
<1>3. ASSUME NEW c \in Consumer PROVE ConsumerRows(c)
  <2>1. c \in Tx
    BY DEF Tx
  <2>2. pc[c] \notin InTransaction
    BY DEF InTransaction
  <2>3. \A r \in Run : wroteRuns[c][r] = NoRow
    BY <2>1
  <2>4. \A r \in Run, h \in Host : wroteHosts[c][r][h] = NoRow
    BY <2>1
  <2> QED
    BY <2>2, <2>3, <2>4 DEF ConsumerRows, Knows, RunRowOf, RunnerRowsOf, SatRowsOf, NoRowsOf
<1>4. CleanRows
  BY DEF CleanRows, Tx
<1> QED BY <1>1, <1>2, <1>3, <1>4 DEF Changes

\* Steps that leave rows and consumers alone.
LEMMA QuietStep ==
    ASSUME HInv, UNCHANGED <<runs, hosts, wroteRuns, wroteHosts, pc, msg, seen, todo>>,
           UNCHANGED <<cleanPc, targets>> \/ (cleanPc # "commit" /\ cleanPc' # "commit")
    PROVE  Changes'
<1> USE DEF HInv, Changes
<1>1. FullFixed' /\ OneHostWriter'
  BY DEF FullFixed, OneHostWriter
<1>2. ASSUME NEW c \in Consumer PROVE ConsumerRows(c)'
  <2>1. pc[c] \in InTransaction => msg[c] \in Upload
    BY DEF IInv, WritesCurrent, ConsumerPlaces, InTransaction
  <2>2. \A r \in Run, h \in Host : hosts[r][h] \in HostRow \cup {NoRow}
    BY DEF IInv, TypeOK, TablesTypeOK
  <2> QED BY <2>1, <2>2, ConsumerAtRest
<1>3. CleanRows'
  BY DEF CleanRows
<1> QED BY <1>1, <1>2, <1>3

\* In a step of transaction x the others keep what they are about to commit.
LEMMA OthersAtRest ==
    ASSUME HInv, NEW x \in Tx,
           \A d \in Consumer \ {x} :
              pc'[d] = pc[d] /\ msg'[d] = msg[d] /\ seen'[d] = seen[d] /\ todo'[d] = todo[d],
           \A t \in Tx \ {x} : wroteRuns'[t] = wroteRuns[t] /\ wroteHosts'[t] = wroteHosts[t],
           \A t \in Tx \ {x}, r \in Run : wroteRuns[t][r] # NoRow => runs'[r] = runs[r],
           \A t \in Tx \ {x}, r \in Run, h \in Host :
              wroteHosts[t][r][h] # NoRow => hosts'[r][h] = hosts[r][h],
           x # Clean => UNCHANGED <<cleanPc, targets>>
    PROVE  /\ \A d \in Consumer \ {x} : ConsumerRows(d)'
           /\ x # Clean => CleanRows'
<1>1. ASSUME NEW d \in Consumer \ {x} PROVE ConsumerRows(d)'
  <2>1. pc[d] \in InTransaction => msg[d] \in Upload
    BY DEF HInv, IInv, WritesCurrent, ConsumerPlaces, InTransaction
  <2>2. \A r \in Run, h \in Host : hosts[r][h] \in HostRow \cup {NoRow}
    BY DEF HInv, IInv, TypeOK, TablesTypeOK
  <2>3. d \in Tx \ {x} /\ ConsumerRows(d)
    BY DEF Tx, HInv, Changes
  <2> QED BY <2>1, <2>2, <2>3, ConsumerAtRest
<1>2. ASSUME x # Clean PROVE CleanRows'
  <2>1. Clean \in Tx \ {x} /\ CleanRows /\ IInv
    BY <1>2 DEF Tx, HInv, Changes
  <2> QED BY <1>2, <2>1, CleanAtRest
<1> QED BY <1>1, <1>2

\* Moves of a consumer that touch no row.
LEMMA MovesStep ==
    ASSUME HInv, NEW c \in Consumer,
           Receive(c) \/ DropUnreadable(c) \/ SelectRun(c) \/ SatHostsDone(c),
           UNCHANGED <<dispatchVars, cleanVars, remaining>>
    PROVE  Changes'
<1> USE DEF HInv
<1>1. /\ UNCHANGED <<runs, hosts, wroteRuns, wroteHosts, cleanPc, targets>>
      /\ c \in Tx /\ c # Clean
  BY TablesAssumption
  DEF Receive, DropUnreadable, SelectRun, SatHostsDone, tables, cleanVars, Tx
<1>2. \A d \in Consumer \ {c} :
         pc'[d] = pc[d] /\ msg'[d] = msg[d] /\ seen'[d] = seen[d] /\ todo'[d] = todo[d]
  BY DEF Receive, DropUnreadable, SelectRun, SatHostsDone, done, goto, IInv, TypeOK,
         ConsumerTypeOK
<1>3. (\A d \in Consumer \ {c} : ConsumerRows(d)') /\ CleanRows'
  BY <1>1, <1>2, OthersAtRest
<1>4. FullFixed' /\ OneHostWriter'
  BY <1>1 DEF Changes, FullFixed, OneHostWriter
<1>5. pc[c] # "hosts" => \A r \in Run : wroteRuns[c][r] = NoRow
  BY DEF IInv, WritesCurrent, ConsumerWrites, Receive, DropUnreadable, SelectRun, SatHostsDone
<1>6. pc[c] # "hosts" => \A r \in Run, h \in Host : wroteHosts[c][r][h] = NoRow
  BY DEF Changes, ConsumerRows, NoRowsOf, InTransaction, Receive, DropUnreadable, SelectRun,
         SatHostsDone
<1>7. ConsumerRows(c)'
  <2>1. CASE Receive(c) \/ DropUnreadable(c) \/ (SelectRun(c) /\ done(c))
    <3>1. pc'[c] \in {"idle", "select"} /\ pc[c] # "hosts"
      BY <2>1 DEF Receive, DropUnreadable, SelectRun, done, goto, IInv, TypeOK, ConsumerTypeOK
    <3> QED BY <1>1, <1>5, <1>6, <3>1, ConsumerOutside DEF InTransaction
  <2>2. CASE SatHostsDone(c)
    <3>1. /\ pc[c] = "hosts" /\ pc'[c] = "commit" /\ msg'[c] = msg[c] /\ seen'[c] = seen[c]
          /\ msg[c].kind = "sat"
      BY <2>2 DEF SatHostsDone, goto, IInv, TypeOK, ConsumerTypeOK
    <3>2. ConsumerRows(c)
      BY DEF Changes
    <3> QED
      BY <1>1, <3>1, <3>2 DEF ConsumerRows, Knows, RunRowOf, RunnerRowsOf, SatRowsOf, NoRowsOf,
                              InTransaction
  <2>3. CASE SelectRun(c) /\ ~done(c)
    <3>1. /\ pc[c] = "select" /\ pc'[c] = "update" /\ msg'[c] = msg[c]
          /\ seen'[c] = runs[msg[c].run] /\ runs[msg[c].run] # NoRow
          /\ msg[c].kind # "unreadable"
      BY <2>3 DEF SelectRun, readable, goto, IInv, TypeOK, ConsumerTypeOK
    <3>2. msg[c] \in Upload /\ msg[c].run \in Run /\ msg[c].kind \in {"runner", "sat"}
      <4>1. msg[c] \in Upload
        BY <3>1 DEF IInv, WritesCurrent, ConsumerPlaces
      <4> QED BY <3>1, <4>1, TablesAssumption DEF UploadType
    <3>3. seen'[c].full = newRun(msg[c].run).full
      BY <3>1, <3>2 DEF Changes, FullFixed
    <3>4. newRun(msg[c].run)' = newRun(msg[c].run)
      BY <3>1 DEF newRun
    <3>5. Knows(c)'
      BY <3>1, <3>2, <3>3, <3>4 DEF Knows, InTransaction
    <3>6. RunRowOf(c)' /\ RunnerRowsOf(c)' /\ SatRowsOf(c)' /\ NoRowsOf(c)'
      BY <1>1, <1>5, <1>6, <3>1 DEF RunRowOf, RunnerRowsOf, SatRowsOf, NoRowsOf
    <3> QED BY <3>5, <3>6 DEF ConsumerRows
  <2> QED BY <2>1, <2>2, <2>3
<1> QED BY <1>3, <1>4, <1>7 DEF Changes

\* A request's own rows, which no transaction has written yet.
LEMMA CreateStep ==
    ASSUME HInv, NEW r \in Run, CreateRun(r), UNCHANGED <<consumerVars, cleanVars, remaining>>
    PROVE  Changes'
<1> USE DEF HInv
<1>1. /\ runs[r] = NoRow
      /\ \A t \in Tx, h \in Host : wroteHosts[t][r][h] = NoRow
      /\ \A c \in Consumer : wroteRuns[c][r] = NoRow
      /\ \A c \in Consumer : pc[c] \in InTransaction => msg[c].run # r
      /\ \A h \in Host : <<r, h>> \notin targets
  BY DEF CreateRun, IInv, WritesCurrent, RowsExist, ConsumerWrites, ConsumerPlaces, InTransaction
<1>2. /\ runs' = [runs EXCEPT ![r] = newRun(r)]
      /\ \A q \in Run \ {r} : hosts'[q] = hosts[q]
      /\ UNCHANGED <<wroteRuns, wroteHosts, pc, msg, seen, todo, cleanPc, targets>>
  BY DEF CreateRun, consumerVars, cleanVars, IInv, TypeOK, TablesTypeOK
<1>3. runs \in [Run -> RunRow \cup {NoRow}]
  BY DEF IInv, TypeOK, TablesTypeOK
<1>4. FullFixed'
  BY <1>2, <1>3 DEF Changes, FullFixed, newRun
<1>5. OneHostWriter'
  BY <1>2 DEF Changes, OneHostWriter
<1>6. ASSUME NEW c \in Consumer PROVE ConsumerRows(c)'
  <2>1. ConsumerRows(c) /\ c \in Tx
    BY DEF Changes, Tx
  <2>2. pc[c] \in InTransaction => msg[c] \in Upload
    BY DEF IInv, WritesCurrent, ConsumerPlaces, InTransaction
  <2>3. \A q \in Run, h \in Host : hosts[q][h] \in HostRow \cup {NoRow}
    BY DEF IInv, TypeOK, TablesTypeOK
  <2> QED BY <1>1, <1>2, <1>3, <2>1, <2>2, <2>3, ConsumerAtRest
<1>7. CleanRows'
  <2>1. CleanRows /\ Clean \in Tx
    BY DEF Changes, Tx
  <2> QED BY <1>1, <1>2, <2>1, CleanAtRest
<1> QED BY <1>4, <1>5, <1>6, <1>7 DEF Changes

\* The UPDATE of the run by a consumer.
LEMMA UpdateRunRows ==
    ASSUME HInv, NEW c \in Consumer, UpdateRun(c),
           UNCHANGED <<dispatchVars, cleanVars, remaining>>
    PROVE  Changes'
<1> USE DEF HInv
<1> DEFINE u == msg[c]
           new == [runs[u.run] EXCEPT !.status = statusFor(u, seen[c]), !.events = u.events]
<1>1. u \in Upload /\ u.run \in Run /\ pc[c] = "update" /\ c \in Tx /\ c # Clean
  BY TablesAssumption DEF UpdateRun, IInv, WritesCurrent, ConsumerPlaces, Tx
<1>2. /\ UNCHANGED <<runs, hosts, wroteHosts, msg, seen, cleanPc, targets>>
      /\ pc' = [pc EXCEPT ![c] = "hosts"]
      /\ todo' = [todo EXCEPT ![c] = IF u.kind = "sat" THEN GetSatHosts(u.events) ELSE {}]
      /\ wroteRuns' = wroteRuns \/ wroteRuns' = [wroteRuns EXCEPT ![c][u.run] = new]
  BY DEF UpdateRun, goto, cleanVars
<1>3. /\ wroteRuns \in [Tx -> [Run -> RunRow \cup {NoRow}]]
      /\ pc \in [Consumer -> {"idle", "select", "update", "hosts", "commit"}]
      /\ todo \in [Consumer -> SUBSET Host]
  BY DEF IInv, TypeOK, TablesTypeOK, ConsumerTypeOK
<1>4. (\A d \in Consumer \ {c} : ConsumerRows(d)') /\ CleanRows'
  BY <1>1, <1>2, <1>3, OthersAtRest
<1>5. FullFixed' /\ OneHostWriter'
  BY <1>2 DEF Changes, FullFixed, OneHostWriter
<1>6. ConsumerRows(c)'
  <2>1. ConsumerRows(c) /\ \A r \in Run : wroteRuns[c][r] = NoRow
    BY <1>1 DEF Changes, IInv, WritesCurrent, ConsumerWrites
  <2>2. \A r \in Run, h \in Host : wroteHosts[c][r][h] = NoRow
    BY <1>1, <2>1 DEF ConsumerRows, Knows, RunnerRowsOf, SatRowsOf, InTransaction
  <2>3. Knows(c)'
    BY <1>1, <1>2, <1>3, <2>1 DEF ConsumerRows, Knows, InTransaction, newRun
  <2>4. \A r \in Run : wroteRuns'[c][r] # NoRow => r = u.run /\ wroteRuns'[c][r] = new
    BY <1>1, <1>2, <1>3, <2>1
  <2>5. RunRowOf(c)'
    BY <1>2, <2>4 DEF RunRowOf
  <2>6. RunnerRowsOf(c)' /\ SatRowsOf(c)' /\ NoRowsOf(c)'
    BY <1>1, <1>2, <1>3, <2>2 DEF RunnerRowsOf, SatRowsOf, NoRowsOf, InTransaction
  <2> QED BY <2>3, <2>5, <2>6 DEF ConsumerRows
<1> QED BY <1>4, <1>5, <1>6 DEF Changes

\* createRecord: the rows of all hosts of a runner upload at once.
LEMMA UpsertRows ==
    ASSUME HInv, NEW c \in Consumer, UpsertHosts(c),
           UNCHANGED <<dispatchVars, cleanVars, remaining>>
    PROVE  Changes'
<1> USE DEF HInv
<1> DEFINE u == msg[c]
           named == runnerHosts(u.events)
           written == [h \in Host |-> IF h \in named THEN upsertedHost(u, h, hosts[u.run][h])
                                      ELSE NoRow]
<1>1. u \in Upload /\ u.run \in Run /\ pc[c] = "hosts" /\ c \in Tx /\ c # Clean
  BY TablesAssumption DEF UpsertHosts, IInv, WritesCurrent, ConsumerPlaces, Tx
<1>2. /\ UNCHANGED <<runs, hosts, wroteRuns, msg, seen, todo, cleanPc, targets>>
      /\ pc' = [pc EXCEPT ![c] = "commit"] /\ u.kind = "runner"
      /\ wroteHosts' = [wroteHosts EXCEPT ![c][u.run] = written]
      /\ \A h \in named : ~hostLocked(c, u.run, h)
  BY DEF UpsertHosts, goto, cleanVars
<1>3. /\ wroteHosts \in [Tx -> [Run -> [Host -> HostRow \cup {NoRow}]]]
      /\ pc \in [Consumer -> {"idle", "select", "update", "hosts", "commit"}]
  BY DEF IInv, TypeOK, TablesTypeOK, ConsumerTypeOK
<1>4. \A t \in Tx \ {c}, h \in named : wroteHosts[t][u.run][h] = NoRow
  BY <1>2 DEF hostLocked
<1>5. /\ \A t \in Tx \ {c} : wroteHosts'[t] = wroteHosts[t]
      /\ \A r \in Run \ {u.run} : wroteHosts'[c][r] = wroteHosts[c][r]
      /\ wroteHosts'[c][u.run] = written
  BY <1>1, <1>2, <1>3
<1>6. (\A d \in Consumer \ {c} : ConsumerRows(d)') /\ CleanRows'
  <2>1. pc'[c] = "commit" /\ \A d \in Consumer \ {c} : pc'[d] = pc[d]
    BY <1>2, <1>3
  <2> HIDE DEF written, named, u
  <2> QED BY <1>1, <1>2, <1>5, <2>1, OthersAtRest
<1>7. FullFixed'
  BY <1>2 DEF Changes, FullFixed
<1>8. ConsumerRows(c)
  BY DEF Changes
<1>9. \A r \in Run, h \in Host : wroteHosts[c][r][h] = NoRow
  BY <1>1, <1>2, <1>8 DEF ConsumerRows, RunnerRowsOf, InTransaction
<1>10. \A r \in Run, h \in Host : wroteHosts'[c][r][h] # NoRow => r = u.run /\ h \in named
  BY <1>1, <1>5, <1>9
<1>11. OneHostWriter'
  <2> SUFFICES ASSUME NEW r \in Run, NEW h \in Host, NEW s \in Tx, NEW t \in Tx, s # t,
                      wroteHosts'[s][r][h] # NoRow, wroteHosts'[t][r][h] # NoRow
               PROVE  FALSE
    BY DEF OneHostWriter
  <2>1. CASE s # c /\ t # c
    BY <1>5, <2>1 DEF Changes, OneHostWriter
  <2>2. CASE s = c
    BY <1>4, <1>5, <1>10, <2>2
  <2>3. CASE t = c
    BY <1>4, <1>5, <1>10, <2>3
  <2> QED BY <2>1, <2>2, <2>3
<1>12. ConsumerRows(c)'
  <2>1. pc'[c] = "commit"
    BY <1>2, <1>3
  <2>2. Knows(c)'
    BY <1>1, <1>2, <1>8, <2>1 DEF ConsumerRows, Knows, InTransaction, newRun
  <2>3. RunRowOf(c)'
    BY <1>2, <1>8 DEF ConsumerRows, RunRowOf
  <2>4. RunnerRowsOf(c)'
    <3>1. \A r \in Run, h \in Host :
             wroteHosts'[c][r][h] = IF r = u.run /\ h \in named
                                    THEN upsertedHost(u, h, hosts[r][h]) ELSE NoRow
      BY <1>5, <1>9
    <3> QED BY <1>2, <2>1, <3>1 DEF RunnerRowsOf
  <2>5. SatRowsOf(c)' /\ NoRowsOf(c)'
    BY <1>2, <2>1 DEF SatRowsOf, NoRowsOf, InTransaction
  <2> QED BY <2>2, <2>3, <2>4, <2>5 DEF ConsumerRows
<1> QED BY <1>6, <1>7, <1>11, <1>12 DEF Changes

\* satUpdateRecord: the row of one host of a Satellite upload.
LEMMA SatHostRows ==
    ASSUME HInv, NEW c \in Consumer, UpdateSatHost(c),
           UNCHANGED <<dispatchVars, cleanVars, remaining>>
    PROVE  Changes'
<1> USE DEF HInv
<1> DEFINE u == msg[c]
<1>1. u \in Upload /\ u.run \in Run /\ pc[c] = "hosts" /\ c \in Tx /\ c # Clean
  BY TablesAssumption DEF UpdateSatHost, IInv, WritesCurrent, ConsumerPlaces, Tx
<1>2. PICK h \in todo[c] :
        /\ ~overflows(u, h)
        /\ \/ UNCHANGED wroteHosts
           \/ /\ matchesHost(u, h, hosts[u.run][h])
              /\ ~hostLocked(c, u.run, h)
              /\ wroteHosts' = [wroteHosts EXCEPT ![c][u.run][h] =
                                  updatedSatHost(u, h, seen[c].full, hosts[u.run][h])]
        /\ todo' = [todo EXCEPT ![c] = @ \ {h}]
  BY DEF UpdateSatHost
<1>3. /\ UNCHANGED <<runs, hosts, wroteRuns, pc, msg, seen, cleanPc, targets>>
      /\ u.kind = "sat"
  BY DEF UpdateSatHost, cleanVars
<1>4. /\ wroteHosts \in [Tx -> [Run -> [Host -> HostRow \cup {NoRow}]]]
      /\ todo \in [Consumer -> SUBSET Host] /\ h \in Host
  BY DEF IInv, TypeOK, TablesTypeOK, ConsumerTypeOK
<1> DEFINE new == updatedSatHost(u, h, seen[c].full, hosts[u.run][h])
<1>5. /\ \A t \in Tx \ {c} : wroteHosts'[t] = wroteHosts[t]
      /\ \A r \in Run, k \in Host : wroteHosts'[c][r][k] # wroteHosts[c][r][k] =>
            /\ r = u.run /\ k = h /\ wroteHosts'[c][r][k] = new
            /\ matchesHost(u, h, hosts[u.run][h]) /\ ~hostLocked(c, u.run, h)
  <2>1. CASE UNCHANGED wroteHosts
    BY <2>1
  <2>2. CASE /\ matchesHost(u, h, hosts[u.run][h]) /\ ~hostLocked(c, u.run, h)
             /\ wroteHosts' = [wroteHosts EXCEPT ![c][u.run][h] = new]
    <3> HIDE DEF new
    <3>1. \A t \in Tx \ {c} : wroteHosts'[t] = wroteHosts[t]
      BY <1>1, <1>4, <2>2
    <3>2. \A r \in Run, k \in Host :
             wroteHosts'[c][r][k] # wroteHosts[c][r][k] =>
                 r = u.run /\ k = h /\ wroteHosts'[c][r][k] = new
      BY <1>1, <1>4, <2>2
    <3> QED BY <2>2, <3>1, <3>2
  <2> QED BY <1>2, <2>1, <2>2
<1>6. (\A d \in Consumer \ {c} : ConsumerRows(d)') /\ CleanRows'
  <2>1. \A d \in Consumer \ {c} : todo'[d] = todo[d]
    BY <1>2, <1>4
  <2> QED BY <1>1, <1>3, <1>5, <2>1, OthersAtRest
<1>7. FullFixed'
  BY <1>3 DEF Changes, FullFixed
<1>8. ConsumerRows(c)
  BY DEF Changes
<1>9. OneHostWriter'
  <2> SUFFICES ASSUME NEW r \in Run, NEW k \in Host, NEW s \in Tx, NEW t \in Tx, s # t,
                      wroteHosts'[s][r][k] # NoRow, wroteHosts'[t][r][k] # NoRow
               PROVE  FALSE
    BY DEF OneHostWriter
  <2>1. CASE wroteHosts'[s][r][k] = wroteHosts[s][r][k] /\ wroteHosts'[t][r][k] = wroteHosts[t][r][k]
    BY <2>1 DEF Changes, OneHostWriter
  <2>2. CASE wroteHosts'[s][r][k] # wroteHosts[s][r][k]
    BY <1>5, <2>2 DEF hostLocked
  <2>3. CASE wroteHosts'[t][r][k] # wroteHosts[t][r][k]
    BY <1>5, <2>3 DEF hostLocked
  <2> QED BY <2>1, <2>2, <2>3
<1>10. h \in GetSatHosts(u.events)
  BY <1>1, <1>3, <1>8 DEF ConsumerRows, Knows, InTransaction
<1>11. ConsumerRows(c)'
  <2>1. todo'[c] \subseteq todo[c]
    BY <1>2, <1>4
  <2>2. Knows(c)'
    BY <1>3, <1>8, <2>1 DEF ConsumerRows, Knows, newRun
  <2>3. RunRowOf(c)'
    BY <1>3, <1>8 DEF ConsumerRows, RunRowOf
  <2>4. RunnerRowsOf(c)' /\ NoRowsOf(c)'
    BY <1>1, <1>3 DEF RunnerRowsOf, NoRowsOf, InTransaction
  <2>5. SatRowsOf(c)'
    <3> SUFFICES ASSUME NEW r \in Run, NEW k \in Host, wroteHosts'[c][r][k] # NoRow
                 PROVE  /\ r = u.run /\ k \in GetSatHosts(u.events) /\ ~overflows(u, k)
                        /\ matchesHost(u, k, hosts[r][k])
                        /\ wroteHosts'[c][r][k] = updatedSatHost(u, k, seen[c].full, hosts[r][k])
      BY <1>1, <1>3 DEF SatRowsOf
    <3>1. CASE wroteHosts'[c][r][k] = wroteHosts[c][r][k]
      BY <1>1, <1>3, <1>8, <3>1 DEF ConsumerRows, SatRowsOf, InTransaction
    <3>2. CASE wroteHosts'[c][r][k] # wroteHosts[c][r][k]
      BY <1>2, <1>5, <1>10, <3>2
    <3> QED BY <3>1, <3>2
  <2> QED BY <2>2, <2>3, <2>4, <2>5 DEF ConsumerRows
<1> QED BY <1>6, <1>7, <1>9, <1>11 DEF Changes

\* The end of a transaction, committed or not.
LEMMA EndStep ==
    ASSUME HInv, NEW x \in Tx, commit(x) \/ rollback(x),
           \A d \in Consumer \ {x} :
              pc'[d] = pc[d] /\ msg'[d] = msg[d] /\ seen'[d] = seen[d] /\ todo'[d] = todo[d],
           x # Clean => pc'[x] = "idle" /\ UNCHANGED <<cleanPc, targets>>,
           x = Clean => cleanPc' # "commit"
    PROVE  Changes'
<1> USE DEF HInv
<1>1. forgetWrites(x)
  BY DEF commit, rollback
<1>2. /\ \A r \in Run : wroteRuns'[x][r] = NoRow
      /\ \A r \in Run, h \in Host : wroteHosts'[x][r][h] = NoRow
      /\ \A t \in Tx \ {x} : wroteRuns'[t] = wroteRuns[t] /\ wroteHosts'[t] = wroteHosts[t]
  BY <1>1, ForgetWrites
<1>3. /\ \A r \in Run : runs'[r] # runs[r] => wroteRuns[x][r] # NoRow /\ runs'[r] = wroteRuns[x][r]
      /\ \A r \in Run, h \in Host : hosts'[r][h] # hosts[r][h] => wroteHosts[x][r][h] # NoRow
  <2>1. CASE commit(x)
    BY <2>1, CommitRows
  <2>2. CASE rollback(x)
    BY <2>2 DEF rollback
  <2> QED BY <2>1, <2>2
<1>4. /\ \A t \in Tx \ {x}, r \in Run : wroteRuns[t][r] # NoRow => runs'[r] = runs[r]
      /\ \A t \in Tx \ {x}, r \in Run, h \in Host :
            wroteHosts[t][r][h] # NoRow => hosts'[r][h] = hosts[r][h]
  BY <1>3 DEF IInv, WritesCurrent, OneWriter, Changes, OneHostWriter
<1>5. (\A d \in Consumer \ {x} : ConsumerRows(d)') /\ (x # Clean => CleanRows')
  BY <1>2, <1>4, OthersAtRest
<1>6. OneHostWriter'
  BY <1>2 DEF Changes, OneHostWriter
<1>7. FullFixed'
  <2> SUFFICES ASSUME NEW r \in Run, runs'[r] # runs[r]
               PROVE  runs[r] # NoRow /\ runs'[r].full = runs[r].full
    BY DEF FullFixed, Changes, newRun
  <2>1. wroteRuns[x][r] # NoRow /\ runs'[r] = wroteRuns[x][r]
    BY <1>3
  <2>2. runs[r] # NoRow => runs[r] \in RunRow
    BY DEF IInv, TypeOK, TablesTypeOK
  <2>3. CASE x = Clean
    <3>1. r \in ids /\ wroteRuns[x][r] = [runs[r] EXCEPT !.status = "timeout"]
      BY <2>1, <2>3 DEF IInv, WritesCurrent, CleanWrites
    <3>2. runs[r] # NoRow
      BY <3>1 DEF IInv, WritesCurrent, CleanWrites
    <3> QED BY <2>1, <2>2, <3>1, <3>2 DEF RunRow
  <2>4. CASE x \in Consumer
    <3>1. wroteRuns[x][r] = [runs[r] EXCEPT !.status = statusFor(msg[x], seen[x]),
                                            !.events = msg[x].events]
      BY <2>1, <2>4 DEF Changes, ConsumerRows, RunRowOf
    <3>2. runs[r] # NoRow
      BY <2>1, <2>4 DEF IInv, WritesCurrent, ConsumerWrites
    <3> QED BY <2>1, <2>2, <3>1, <3>2 DEF RunRow
  <2> QED BY <2>3, <2>4 DEF Tx
<1>8. CASE x = Clean
  <2>1. CleanRows'
    BY <1>2, <1>8 DEF CleanRows
  <2>2. \A c \in Consumer : c \in Consumer \ {x}
    BY <1>8, TablesAssumption
  <2> QED BY <1>5, <1>6, <1>7, <2>1, <2>2 DEF Changes
<1>9. CASE x \in Consumer /\ x # Clean
  <2>1. ConsumerRows(x)'
    BY <1>2, <1>9, ConsumerOutside DEF InTransaction
  <2> QED BY <1>5, <1>6, <1>7, <1>9, <2>1 DEF Changes
<1> QED BY <1>8, <1>9 DEF Tx

\* The statements of the clean job.
LEMMA CleanStatements ==
    ASSUME HInv, CleanRuns \/ CleanHostsUpdate,
           UNCHANGED <<dispatchVars, consumerVars, remaining>>
    PROVE  Changes'
<1> USE DEF HInv
<1>1. Clean \in Tx /\ Clean \notin Consumer
  BY TablesAssumption DEF Tx
<1>2. /\ wroteRuns \in [Tx -> [Run -> RunRow \cup {NoRow}]]
      /\ wroteHosts \in [Tx -> [Run -> [Host -> HostRow \cup {NoRow}]]]
  BY DEF IInv, TypeOK, TablesTypeOK
<1>3. UNCHANGED <<runs, hosts, pc, msg, seen, todo, targets>>
  BY DEF CleanRuns, CleanHostsUpdate, consumerVars
<1>4. \A t \in Tx \ {Clean} : wroteRuns'[t] = wroteRuns[t] /\ wroteHosts'[t] = wroteHosts[t]
  BY <1>1, <1>2 DEF CleanRuns, CleanHostsUpdate
<1>5. \A c \in Consumer : ConsumerRows(c)'
  BY <1>1, <1>3, <1>4, OthersAtRest
<1>6. FullFixed'
  BY <1>3 DEF Changes, FullFixed
<1>7. CASE CleanRuns
  <2>1. UNCHANGED wroteHosts /\ cleanPc = "runs" /\ cleanPc' = "scan"
    BY <1>7 DEF CleanRuns
  <2>2. OneHostWriter' /\ CleanRows'
    BY <2>1 DEF Changes, OneHostWriter, CleanRows
  <2> QED BY <1>5, <1>6, <2>2 DEF Changes
<1>8. CASE CleanHostsUpdate
  <2>1. /\ cleanPc' = "commit"
        /\ \A t \in targets : ~hostLocked(Clean, t[1], t[2])
        /\ \A r \in Run, h \in Host :
              wroteHosts'[Clean][r][h] =
                 IF <<r, h>> \in targets THEN [hosts[r][h] EXCEPT !.status = "timeout"] ELSE NoRow
    <3>1. wroteHosts' = [wroteHosts EXCEPT ![Clean] =
              [r \in Run |-> [h \in Host |->
                  IF <<r, h>> \in targets THEN [hosts[r][h] EXCEPT !.status = "timeout"]
                  ELSE NoRow]]]
      BY <1>8 DEF CleanHostsUpdate
    <3>2. wroteHosts'[Clean] =
              [r \in Run |-> [h \in Host |->
                  IF <<r, h>> \in targets THEN [hosts[r][h] EXCEPT !.status = "timeout"]
                  ELSE NoRow]]
      BY <1>1, <1>2, <3>1
    <3> QED BY <1>8, <3>2 DEF CleanHostsUpdate
  <2>2. CleanRows'
    BY <1>3, <2>1 DEF CleanRows
  <2>3. OneHostWriter'
    <3>1. ASSUME NEW r \in Run, NEW h \in Host, <<r, h>> \in targets, NEW t \in Tx \ {Clean}
          PROVE  wroteHosts[t][r][h] = NoRow
      <4>1. ~hostLocked(Clean, r, h)
        BY <2>1, <3>1
      <4> QED BY <4>1 DEF hostLocked
    <3>2. \A r \in Run, h \in Host : wroteHosts'[Clean][r][h] # NoRow => <<r, h>> \in targets
      BY <2>1
    <3>3. \A r \in Run, h \in Host, t \in Tx \ {Clean} :
             wroteHosts'[t][r][h] = wroteHosts[t][r][h]
      BY <1>4
    <3> SUFFICES ASSUME NEW r \in Run, NEW h \in Host, NEW s \in Tx, NEW t \in Tx, s # t,
                        wroteHosts'[s][r][h] # NoRow, wroteHosts'[t][r][h] # NoRow
                 PROVE  FALSE
      BY DEF OneHostWriter
    <3>4. CASE s # Clean /\ t # Clean
      BY <3>3, <3>4 DEF Changes, OneHostWriter
    <3>5. CASE s = Clean
      <4>1. <<r, h>> \in targets /\ t \in Tx \ {Clean}
        BY <3>2, <3>5
      <4>2. wroteHosts[t][r][h] = NoRow
        BY <3>1, <4>1
      <4> QED BY <3>3, <4>1, <4>2
    <3>6. CASE t = Clean
      <4>1. <<r, h>> \in targets /\ s \in Tx \ {Clean}
        BY <3>2, <3>6
      <4>2. wroteHosts[s][r][h] = NoRow
        BY <3>1, <4>1
      <4> QED BY <3>3, <4>1, <4>2
    <3> QED BY <3>4, <3>5, <3>6
  <2> QED BY <1>5, <1>6, <2>2, <2>3 DEF Changes
<1> QED BY <1>7, <1>8

\* The invariant is inductive.
LEMMA HInvNext == HInv /\ [Next]_vars => HInv'
<1> SUFFICES ASSUME HInv, [Next]_vars PROVE Changes'
  BY IInvNext DEF HInv
<1> DEFINE idleRest(c) == \A d \in Consumer \ {c} :
              pc'[d] = pc[d] /\ msg'[d] = msg[d] /\ seen'[d] = seen[d] /\ todo'[d] = todo[d]
<1>0. ASSUME NEW c \in Consumer, done(c) PROVE pc'[c] = "idle" /\ idleRest(c)
  BY <1>0 DEF done, goto, HInv, IInv, TypeOK, ConsumerTypeOK
<1>1. CASE Api
  <2>1. PICK r \in Run : ProcessRun(r) /\ UNCHANGED <<consumerVars, cleanVars, remaining>>
    BY <1>1 DEF Api
  <2>2. CASE CreateRun(r)
    BY <2>1, <2>2, CreateStep
  <2>3. CASE TakeToken(r) \/ SendRequest(r) \/ CreateFails(r)
    <3>1. UNCHANGED <<runs, hosts, wroteRuns, wroteHosts, pc, msg, seen, todo, cleanPc, targets>>
      BY <2>1, <2>3 DEF TakeToken, SendRequest, CreateFails, tables, consumerVars, cleanVars
    <3> QED BY <3>1, QuietStep
  <2> QED BY <2>1, <2>2, <2>3 DEF ProcessRun
<1>2. CASE Recipient \/ Clock
  <2>1. UNCHANGED <<runs, hosts, wroteRuns, wroteHosts, pc, msg, seen, todo, cleanPc, targets>>
    BY <1>2 DEF Recipient, Clock, Publish, Expire, tables, consumerVars, cleanVars
  <2> QED BY <2>1, QuietStep
<1>3. ASSUME NEW c \in Consumer, UNCHANGED <<dispatchVars, cleanVars, remaining>>,
             Consume(c) \/ DatabaseError(c) \/ Crash(c)
      PROVE  Changes'
  <2>1. CASE Receive(c) \/ DropUnreadable(c) \/ SelectRun(c) \/ SatHostsDone(c)
    BY <1>3, <2>1, MovesStep
  <2>2. CASE UpdateRun(c)
    BY <1>3, <2>2, UpdateRunRows
  <2>3. CASE UpsertHosts(c)
    BY <1>3, <2>3, UpsertRows
  <2>4. CASE UpdateSatHost(c)
    BY <1>3, <2>4, SatHostRows
  <2>5. CASE Commit(c) \/ SequenceOverflow(c) \/ Panic(c) \/ DatabaseError(c) \/ Crash(c)
    <3>1. (commit(c) \/ rollback(c)) /\ done(c)
      BY <2>5 DEF Commit, SequenceOverflow, Panic, DatabaseError, Crash, die
    <3>2. c \in Tx /\ c # Clean
      BY TablesAssumption DEF Tx
    <3>3. UNCHANGED <<cleanPc, targets>>
      BY <1>3 DEF cleanVars
    <3>4. pc'[c] = "idle" /\ idleRest(c)
      BY <1>0, <3>1
    <3> QED BY <3>1, <3>2, <3>3, <3>4, EndStep
  <2> QED BY <1>3, <2>1, <2>2, <2>3, <2>4, <2>5 DEF Consume
<1>4. CASE Cleaning
  <2>1. CleanStep /\ UNCHANGED <<dispatchVars, consumerVars, remaining>>
    BY <1>4 DEF Cleaning
  <2>2. CASE CleanSelect \/ CleanHostsScan
    <3>1. /\ UNCHANGED <<runs, hosts, wroteRuns, wroteHosts, pc, msg, seen, todo>>
          /\ cleanPc # "commit" /\ cleanPc' # "commit"
      BY <2>1, <2>2 DEF CleanSelect, CleanHostsScan, tables, consumerVars
    <3> QED BY <3>1, QuietStep
  <2>3. CASE CleanRuns \/ CleanHostsUpdate
    BY <2>1, <2>3, CleanStatements
  <2>4. CASE CleanCommit
    <3>1. /\ commit(Clean) /\ cleanPc' = "idle" /\ Clean \in Tx
          /\ UNCHANGED <<pc, msg, seen, todo>>
      BY <2>1, <2>4 DEF CleanCommit, cleanDone, consumerVars, Tx
    <3> QED BY <3>1, EndStep
  <2> QED BY <2>1, <2>2, <2>3, <2>4 DEF CleanStep
<1>5. CASE CleanFailing
  <2>1. /\ rollback(Clean) /\ cleanPc' = "idle" /\ Clean \in Tx
        /\ UNCHANGED <<pc, msg, seen, todo>>
    BY <1>5 DEF CleanFailing, CleanFails, CleanAborts, cleanDone, Tx
  <2> QED BY <2>1, EndStep
<1>6. CASE UNCHANGED vars
  <2>1. UNCHANGED <<runs, hosts, wroteRuns, wroteHosts, pc, msg, seen, todo, cleanPc, targets>>
    BY <1>6 DEF vars, tables, consumerVars, cleanVars
  <2> QED BY <2>1, QuietStep
<1> QED
  BY <1>1, <1>2, <1>3, <1>4, <1>5, <1>6 DEF Next, Consuming, ConsumerFails

\* In every reachable state, open transactions are about to commit exactly what
\* their message or subquery makes of the current rows.
THEOREM ChangesCurrent == Spec => []HInv
BY HInvInit, HInvNext, PTL DEF Spec

-----------------------------------------------------------------------------
(* What changes the rows of run_hosts *)

\* Only a request and the end of a transaction change a row of run_hosts.
LEMMA HostChanges ==
    ASSUME [Next]_vars
    PROVE  \/ UNCHANGED hosts
           \/ \E r \in Run : CreateRun(r) /\ UNCHANGED <<consumerVars, cleanVars>>
           \/ \E c \in Consumer : Commit(c) /\ UNCHANGED cleanVars
           \/ CleanCommit /\ UNCHANGED consumerVars
<1> DEFINE Claim == \/ UNCHANGED hosts
                    \/ \E r \in Run : CreateRun(r) /\ UNCHANGED <<consumerVars, cleanVars>>
                    \/ \E c \in Consumer : Commit(c) /\ UNCHANGED cleanVars
                    \/ CleanCommit /\ UNCHANGED consumerVars
<1>1. ASSUME Api PROVE Claim
  <2>1. PICK r \in Run : ProcessRun(r) /\ UNCHANGED <<consumerVars, cleanVars, remaining>>
    BY <1>1 DEF Api
  <2> QED BY <2>1 DEF ProcessRun, TakeToken, SendRequest, CreateFails, tables
<1>2. ASSUME Recipient \/ Clock PROVE Claim
  BY <1>2 DEF Recipient, Publish, Clock, Expire, tables
<1>3. ASSUME NEW c \in Consumer, UNCHANGED cleanVars,
             Consume(c) \/ DatabaseError(c) \/ Crash(c)
      PROVE  Claim
  <2>1. die(c) => UNCHANGED hosts
    BY DEF die, rollback
  <2> QED
    BY <1>3, <2>1 DEF Consume, Receive, DropUnreadable, SelectRun, UpdateRun, UpsertHosts,
       UpdateSatHost, SatHostsDone, SequenceOverflow, Panic, DatabaseError, Crash, rollback, tables
<1>4. ASSUME Cleaning PROVE Claim
  BY <1>4 DEF Cleaning, CleanStep, CleanSelect, CleanRuns, CleanHostsScan, CleanHostsUpdate,
              tables
<1>5. ASSUME CleanFailing PROVE Claim
  BY <1>5 DEF CleanFailing, CleanFails, CleanAborts, rollback
<1>6. ASSUME UNCHANGED vars PROVE Claim
  BY <1>6 DEF vars, tables
<1>7. ASSUME Consuming \/ ConsumerFails PROVE Claim
  BY <1>3, <1>7 DEF Consuming, ConsumerFails
<1> QED
  BY <1>1, <1>2, <1>4, <1>5, <1>6, <1>7 DEF Next

\* Consumer c commits the row that its runner upload, or its Satellite upload,
\* makes of the committed row of host h.
RunnerHostChange(c, r, h) ==
    /\ Commit(c) /\ r = msg[c].run /\ msg[c] \in Upload /\ msg[c].kind = "runner"
    /\ h \in runnerHosts(msg[c].events)
    /\ hosts'[r][h] = upsertedHost(msg[c], h, hosts[r][h])

SatHostChange(c, r, h) ==
    /\ Commit(c) /\ r = msg[c].run /\ msg[c] \in Upload /\ msg[c].kind = "sat"
    /\ h \in GetSatHosts(msg[c].events) /\ ~overflows(msg[c], h)
    /\ matchesHost(msg[c], h, hosts[r][h])
    /\ hosts'[r][h] = updatedSatHost(msg[c], h, newRun(r).full, hosts[r][h])

\* The new row of a changed host: a request's, a consumer's or the clean job's.
LEMMA HostRowChange ==
    ASSUME HInv, [Next]_vars, NEW r \in Run, NEW h \in Host, hosts'[r][h] # hosts[r][h]
    PROVE  \/ runs[r] = NoRow /\ hosts[r][h] = NoRow /\ hosts'[r][h] = newHostRun
           \/ \E c \in Consumer : RunnerHostChange(c, r, h) \/ SatHostChange(c, r, h)
           \/ /\ CleanCommit /\ <<r, h>> \in targets /\ hosts[r][h] \in HostRow
              /\ hosts'[r][h] = [hosts[r][h] EXCEPT !.status = "timeout"]
<1> USE DEF HInv
<1>1. ASSUME NEW x \in Run, CreateRun(x)
      PROVE  runs[r] = NoRow /\ hosts[r][h] = NoRow /\ hosts'[r][h] = newHostRun
  BY <1>1 DEF CreateRun, IInv, WritesCurrent, RowsExist, TypeOK, TablesTypeOK
<1>2. ASSUME NEW c \in Consumer, Commit(c)
      PROVE  RunnerHostChange(c, r, h) \/ SatHostChange(c, r, h)
  <2>1. wroteHosts[c][r][h] # NoRow /\ hosts'[r][h] = wroteHosts[c][r][h]
    <3>1. c \in Tx /\ commit(c)
      BY <1>2 DEF Tx, Commit
    <3> QED BY <3>1, CommitRows
  <2>2. pc[c] = "commit" /\ msg[c] \in Upload /\ ConsumerRows(c)
    BY <1>2 DEF Commit, IInv, WritesCurrent, ConsumerPlaces, Changes
  <2>3. msg[c].kind \in {"runner", "sat"} /\ seen[c].full = newRun(msg[c].run).full
    BY <2>2 DEF ConsumerRows, Knows, InTransaction
  <2>4. CASE msg[c].kind = "runner"
    <3>1. RunnerRowsOf(c)
      BY <2>2 DEF ConsumerRows
    <3>2. wroteHosts[c][r][h] =
                IF r = msg[c].run /\ h \in runnerHosts(msg[c].events)
                THEN upsertedHost(msg[c], h, hosts[r][h]) ELSE NoRow
      BY <2>2, <2>4, <3>1 DEF RunnerRowsOf, InTransaction
    <3> QED BY <1>2, <2>1, <2>2, <2>4, <3>2 DEF RunnerHostChange
  <2>5. CASE msg[c].kind = "sat"
    <3>1. SatRowsOf(c)
      BY <2>2 DEF ConsumerRows
    <3>2. /\ r = msg[c].run /\ h \in GetSatHosts(msg[c].events)
          /\ ~overflows(msg[c], h)
          /\ matchesHost(msg[c], h, hosts[r][h])
          /\ wroteHosts[c][r][h] = updatedSatHost(msg[c], h, seen[c].full, hosts[r][h])
      BY <2>1, <2>2, <2>5, <3>1 DEF SatRowsOf, InTransaction
    <3> QED BY <1>2, <2>1, <2>2, <2>3, <2>5, <3>2 DEF SatHostChange
  <2> QED BY <2>3, <2>4, <2>5
<1>3. ASSUME CleanCommit
      PROVE  /\ <<r, h>> \in targets /\ hosts[r][h] \in HostRow
             /\ hosts'[r][h] = [hosts[r][h] EXCEPT !.status = "timeout"]
  <2>1. wroteHosts[Clean][r][h] # NoRow /\ hosts'[r][h] = wroteHosts[Clean][r][h]
    <3>1. Clean \in Tx /\ commit(Clean)
      BY <1>3 DEF Tx, CleanCommit
    <3> QED BY <3>1, CommitRows
  <2>2. <<r, h>> \in targets /\ hosts'[r][h] = [hosts[r][h] EXCEPT !.status = "timeout"]
    BY <1>3, <2>1 DEF Changes, CleanRows, CleanCommit
  <2>3. hosts[r][h] \in HostRow
    BY <2>2 DEF IInv, TypeOK, TablesTypeOK, WritesCurrent, RowsExist
  <2> QED BY <2>2, <2>3
<1> QED BY <1>1, <1>2, <1>3, HostChanges

-----------------------------------------------------------------------------
(* Theorems about stale reads and the rows of Satellite hosts *)

\* A canceled Satellite run gets another status only from a transaction that
\* read the row before it was canceled, for any uploads and interleaving.
THEOREM CanceledKept == Spec => CanceledOnlyByStale
<1>1. ASSUME HInv, [Next]_vars, NEW r \in SatRun, runs[r] # NoRow,
             runs[r].status = "canceled", runs'[r].status # "canceled"
      PROVE  \/ cleanPc = "commit" /\ r \in ids /\ runs'[r].status = "timeout"
             \/ \E c \in Consumer :
                   pc[c] = "commit" /\ msg[c].run = r /\ seen[c].status # "canceled"
  <2> USE <1>1 DEF HInv
  <2>1. r \in Run /\ runs[r] \in RunRow /\ runs'[r] # runs[r]
    BY TablesAssumption DEF IInv, TypeOK, TablesTypeOK
  <2>2. ASSUME NEW c \in Consumer, Commit(c)
        PROVE  pc[c] = "commit" /\ msg[c].run = r /\ seen[c].status # "canceled"
    <3>1. wroteRuns[c][r] # NoRow /\ runs'[r] = wroteRuns[c][r] /\ pc[c] = "commit"
      <4>1. c \in Tx /\ commit(c) /\ pc[c] = "commit"
        BY <2>2 DEF Tx, Commit
      <4> QED BY <2>1, <4>1, CommitRows
    <3>2. msg[c].run = r /\ msg[c] \in Upload
      BY <2>1, <3>1 DEF IInv, WritesCurrent, ConsumerWrites, ConsumerPlaces
    <3>3. RunRowOf(c) /\ Knows(c)
      BY DEF Changes, ConsumerRows
    <3>4. wroteRuns[c][r] = [runs[r] EXCEPT !.status = statusFor(msg[c], seen[c]),
                                            !.events = msg[c].events]
      BY <2>1, <3>1, <3>3 DEF RunRowOf
    <3>5. msg[c].kind = "sat"
      BY <3>1, <3>2, <3>3, TablesAssumption DEF Knows, InTransaction
    <3>6. runs'[r].status = statusFor(msg[c], seen[c])
      BY <2>1, <3>1, <3>4 DEF RunRow
    <3>7. seen[c].status = "canceled" => statusFor(msg[c], seen[c]) = "canceled"
      BY <3>5 DEF statusFor
    <3> QED BY <3>1, <3>2, <3>6, <3>7
  <2>3. ASSUME CleanCommit
        PROVE  cleanPc = "commit" /\ r \in ids /\ runs'[r].status = "timeout"
    <3>1. wroteRuns[Clean][r] # NoRow /\ runs'[r] = wroteRuns[Clean][r] /\ cleanPc = "commit"
      <4>1. Clean \in Tx /\ commit(Clean) /\ cleanPc = "commit"
        BY <2>3 DEF Tx, CleanCommit
      <4> QED BY <2>1, <4>1, CommitRows
    <3>2. r \in ids /\ runs'[r] = [runs[r] EXCEPT !.status = "timeout"]
      BY <2>1, <3>1 DEF IInv, WritesCurrent, CleanWrites
    <3> QED BY <2>1, <3>1, <3>2 DEF RunRow
  <2>4. ~\E x \in Run : CreateRun(x)
    BY <2>1 DEF CreateRun, IInv, WritesCurrent, RowsExist, TypeOK, TablesTypeOK
  <2> QED BY <2>1, <2>2, <2>3, <2>4, RunChanges
<1>2. HInv /\ [Next]_vars =>
        [\A r \in SatRun :
         (runs[r] # NoRow /\ runs[r].status = "canceled" /\ runs'[r].status # "canceled") =>
            \/ cleanPc = "commit" /\ r \in ids /\ runs'[r].status = "timeout"
            \/ \E c \in Consumer :
                  pc[c] = "commit" /\ msg[c].run = r /\ seen[c].status # "canceled"]_vars
  BY <1>1
<1> QED BY <1>2, ChangesCurrent, PTL DEF Spec, CanceledOnlyByStale

-----------------------------------------------------------------------------
(* Runner runs: the run's verdict and those of its hosts *)

\* The uploads of run r that end its playbook, and the hosts they name.
FinalOf(r) ==
    {u \in Upload : u.run = r /\ u.kind = "runner" /\ inferStatus(u.events, Nil) # "running"}
LastHosts(r) == UNION {runnerHosts(f.events) : f \in FinalOf(r)}

HostComplete(r, h) == hosts[r][h] # NoRow /\ hosts[r][h].status \in Complete
HostsDone(r) == FinalOf(r) # {} /\ \A h \in LastHosts(r) : HostComplete(r, h)

\* A complete run or host has the verdict of a final upload.
RunVerdict(r) ==
    (runs[r] # NoRow /\ runs[r].status \in Complete) =>
        /\ \E f \in FinalOf(r) : /\ runs[r].events = f.events
                                 /\ runs[r].status = inferStatus(f.events, Nil)
        /\ HostsDone(r)

HostVerdict(r) ==
    \A h \in Host : HostComplete(r, h) =>
        \E f \in FinalOf(r) : /\ h \in runnerHosts(f.events)
                              /\ hosts[r][h].status = inferStatus(f.events, h)

\* A consumer that found the run complete, and so holds no lock on it, finds
\* its hosts complete.
NoLockNeeded(r) ==
    \A c \in Consumer :
        (pc[c] \in {"hosts", "commit"} /\ msg[c].run = r /\ wroteRuns[c][r] = NoRow) => HostsDone(r)

\* A timed-out run leaves none of its hosts running, ...
HostsTimedOut(r) ==
    (runs[r] # NoRow /\ runs[r].status = "timeout") =>
        \A h \in LastHosts(r) : hosts[r][h] # NoRow => hosts[r][h].status # "running"

\* ... because the clean job has the run locked while it writes exactly those of
\* its hosts that are running.
TargetsOpen(r) ==
    \A h \in LastHosts(r) :
        /\ <<r, h>> \in targets => r \in ids /\ ~HostComplete(r, h)
        /\ (cleanPc \in {"hosts", "commit"} /\ r \in ids /\ hosts[r][h] # NoRow
              /\ hosts[r][h].status = "running") => <<r, h>> \in targets

VInv ==
    /\ cleanPc \notin {"hosts", "commit"} => targets = {}
    /\ \A r \in Run \ SatRun : /\ RunVerdict(r) /\ HostVerdict(r) /\ NoLockNeeded(r)
                               /\ HostsTimedOut(r) /\ TargetsOpen(r)

\* The event that ends a playbook.
Ending == {"playbook_on_stats", "executor_on_failed"}

\* An upload is final when it has that event, which is then its last.
LEMMA EndsAt ==
    ASSUME CumulativeUploads, NEW u \in Upload, u.kind = "runner",
           inferStatus(u.events, Nil) # "running"
    PROVE  /\ Len(u.events) \in DOMAIN u.events
           /\ u.events[Len(u.events)].event \in Ending
           /\ u.events[Len(u.events)].host = Nil
<1>1. PICK i \in DOMAIN u.events : u.events[i].event \in Ending
  BY DEF inferStatus, Ending
<1>2. i = Len(u.events) /\ u.events[i].host = Nil
  BY <1>1 DEF CumulativeUploads, Ending
<1> QED BY <1>1, <1>2

\* All final uploads of a run have the same events.
LEMMA FinalEvents ==
    ASSUME CumulativeUploads, NEW r, NEW f \in FinalOf(r), NEW g \in FinalOf(r)
    PROVE  f.events = g.events
<1>1. ASSUME NEW u \in FinalOf(r), NEW v \in FinalOf(r),
             DOMAIN u.events \subseteq DOMAIN v.events,
             \A i \in DOMAIN u.events : u.events[i] = v.events[i]
      PROVE  u.events = v.events
  <2>1. /\ u \in Upload /\ u.kind = "runner" /\ inferStatus(u.events, Nil) # "running"
        /\ v \in Upload /\ v.kind = "runner"
    BY DEF FinalOf
  <2>2. /\ Len(u.events) \in DOMAIN u.events
        /\ u.events[Len(u.events)].event \in Ending
    BY <2>1, EndsAt
  <2>3. Len(u.events) \in DOMAIN v.events /\ v.events[Len(u.events)].event \in Ending
    BY <1>1, <2>2
  <2>4. Len(u.events) = Len(v.events)
    BY <2>1, <2>3 DEF CumulativeUploads, Ending
  <2>5. u.events \in Seq(RunnerEvent) /\ v.events \in Seq(RunnerEvent)
    BY <2>1, UploadFields
  <2>6. \A i \in 1..Len(u.events) : u.events[i] = v.events[i]
    BY <1>1, <2>5
  <2> QED BY <2>4, <2>5, <2>6
<1>2. /\ f \in Upload /\ f.kind = "runner" /\ f.run = r
      /\ g \in Upload /\ g.kind = "runner" /\ g.run = r
  BY DEF FinalOf
<1>3. \/ DOMAIN f.events \subseteq DOMAIN g.events
         /\ \A i \in DOMAIN f.events : f.events[i] = g.events[i]
      \/ DOMAIN g.events \subseteq DOMAIN f.events
         /\ \A i \in DOMAIN g.events : f.events[i] = g.events[i]
  BY <1>2 DEF CumulativeUploads
<1> QED BY <1>1, <1>3

\* So the hosts they name are those of any one of them.
LEMMA FinalHosts ==
    ASSUME CumulativeUploads, NEW r, NEW f \in FinalOf(r)
    PROVE  LastHosts(r) = runnerHosts(f.events)
<1>1. \A g \in FinalOf(r) : g.events = f.events
  BY FinalEvents
<1>2. \A g \in FinalOf(r) : runnerHosts(g.events) = runnerHosts(f.events)
  BY <1>1
<1> QED BY <1>2 DEF LastHosts

\* A runner upload names hosts, at least one.
LEMMA NamedHosts ==
    ASSUME NEW u \in Upload, u.kind = "runner"
    PROVE  runnerHosts(u.events) \subseteq Host /\ runnerHosts(u.events) # {}
<1>1. \A i \in DOMAIN u.events : u.events[i] \in RunnerEvent
  BY UploadFields
<1>2. GetAnsibleHosts(u.events) \subseteq Host
  BY <1>1 DEF GetAnsibleHosts, RunnerEvent
<1> QED BY <1>2, HostAssumption DEF runnerHosts

\* An upload is final for the run exactly when it is for each of its hosts.
LEMMA FinalForAll ==
    ASSUME CumulativeUploads, NEW u \in Upload, u.kind = "runner", NEW h \in Host
    PROVE  inferStatus(u.events, h) \in Complete <=> inferStatus(u.events, Nil) # "running"
<1>1. inferStatus(u.events, h) \in {"running", "success", "failure"}
  BY inferStatusType
<1>2. ASSUME inferStatus(u.events, h) # "running" PROVE inferStatus(u.events, Nil) # "running"
  <2>1. \E i \in DOMAIN u.events : u.events[i].event \in Ending
    BY <1>2 DEF inferStatus, Ending
  <2> QED BY <2>1 DEF inferStatus, Ending
<1>3. ASSUME inferStatus(u.events, Nil) # "running" PROVE inferStatus(u.events, h) # "running"
  <2>1. /\ Len(u.events) \in DOMAIN u.events
        /\ u.events[Len(u.events)].event \in Ending
        /\ u.events[Len(u.events)].host = Nil
    BY <1>3, EndsAt
  <2> QED BY <2>1 DEF inferStatus, Ending
<1> QED BY <1>1, <1>2, <1>3 DEF Complete

\* A final upload fails the run exactly when it fails one of its hosts.
LEMMA FailsTogether ==
    ASSUME CumulativeUploads, NEW u \in Upload, u.kind = "runner",
           inferStatus(u.events, Nil) # "running"
    PROVE  inferStatus(u.events, Nil) = "failure" <=>
              \E h \in runnerHosts(u.events) : inferStatus(u.events, h) = "failure"
<1> DEFINE ev == u.events
           Failing == {"runner_on_failed", "executor_on_failed"}
           about(h) == {i \in DOMAIN ev : h = Nil \/ ev[i].host \in {Nil, h}}
           failed(h) == \E i \in about(h) : ev[i].event \in Failing
<1>1. ASSUME NEW h \in Host \cup {Nil} PROVE inferStatus(ev, h) = "failure" <=> failed(h)
  <2>1. inferStatus(ev, h) # "running"
    BY FinalForAll DEF Complete
  <2> QED BY <2>1 DEF inferStatus
<1>2. runnerHosts(ev) \subseteq Host /\ runnerHosts(ev) # {}
  BY NamedHosts
<1>3. \A i \in DOMAIN ev : ev[i].host = Nil \/ ev[i].host \in runnerHosts(ev)
  <2>1. \A i \in DOMAIN ev : ev[i].host = Nil \/ ev[i].host \in GetAnsibleHosts(ev)
    BY DEF GetAnsibleHosts
  <2> QED BY <2>1 DEF runnerHosts
<1>4. ASSUME failed(Nil) PROVE \E h \in runnerHosts(ev) : failed(h)
  <2>1. PICK i \in DOMAIN ev : ev[i].event \in Failing
    BY <1>4
  <2>2. PICK h \in runnerHosts(ev) : ev[i].host \in {Nil, h}
    BY <1>2, <1>3
  <2> QED BY <2>1, <2>2
<1>5. ASSUME NEW h \in runnerHosts(ev), failed(h) PROVE failed(Nil)
  BY <1>5
<1> HIDE DEF failed
<1> QED BY <1>1, <1>2, <1>4, <1>5

\* The clean job moves in its own steps only.
LEMMA CleanChanges ==
    ASSUME [Next]_vars
    PROVE  \/ UNCHANGED cleanVars
           \/ CleanSelect \/ CleanRuns \/ CleanHostsScan \/ CleanHostsUpdate \/ CleanCommit
           \/ CleanAborts
BY DEF Next, vars, Api, Recipient, Publish, Consuming, ConsumerFails, Cleaning, CleanStep,
       CleanFailing, CleanFails, Clock

\* A consumer past its UPDATE of runs got there by it.
LEMMA PastUpdate ==
    ASSUME HInv, [Next]_vars, NEW c \in Consumer, pc'[c] \in {"hosts", "commit"}
    PROVE  /\ msg'[c] = msg[c]
           /\ \/ pc[c] \in {"hosts", "commit"} /\ wroteRuns'[c] = wroteRuns[c]
              \/ UpdateRun(c)
<1> DEFINE Claim == /\ msg'[c] = msg[c]
                    /\ \/ pc[c] \in {"hosts", "commit"} /\ wroteRuns'[c] = wroteRuns[c]
                       \/ UpdateRun(c)
<1>1. /\ pc \in [Consumer -> {"idle", "select", "update", "hosts", "commit"}]
      /\ msg \in [Consumer -> Upload \cup {NoMsg}]
      /\ wroteRuns \in [Tx -> [Run -> RunRow \cup {NoRow}]]
      /\ c \in Tx /\ c # Clean /\ Clean \in Tx
  BY TablesAssumption DEF HInv, IInv, TypeOK, ConsumerTypeOK, TablesTypeOK, Tx
<1>2. CASE UNCHANGED <<pc, msg, wroteRuns>>
  BY <1>2
<1>3. ASSUME NEW d \in Consumer, Consume(d) \/ DatabaseError(d) \/ Crash(d) PROVE Claim
  <2>1. d \in Tx
    BY DEF Tx
  <2>2. done(d) => pc'[d] = "idle" /\ (d # c => pc'[c] = pc[c] /\ msg'[c] = msg[c])
    BY <1>1 DEF done, goto
  <2>3. ASSUME forgetWrites(d), d # c PROVE wroteRuns'[c] = wroteRuns[c]
    BY <1>1, <2>1, <2>3 DEF forgetWrites
  <2>4. CASE Receive(d) \/ DropUnreadable(d) \/ SelectRun(d)
    <3>1. UNCHANGED wroteRuns
      BY <2>4 DEF Receive, DropUnreadable, SelectRun, tables
    <3>2. pc'[d] \in {"idle", "select", "update"}
      BY <1>1, <2>4 DEF Receive, DropUnreadable, SelectRun, done, goto
    <3>3. d # c => pc'[c] = pc[c] /\ msg'[c] = msg[c]
      BY <1>1, <2>4 DEF Receive, DropUnreadable, SelectRun, done, goto
    <3> QED BY <3>1, <3>2, <3>3
  <2>5. CASE UpdateRun(d)
    <3>1. UNCHANGED msg /\ (d # c => pc'[c] = pc[c] /\ wroteRuns'[c] = wroteRuns[c])
      BY <1>1, <2>1, <2>5 DEF UpdateRun, goto
    <3> QED BY <2>5, <3>1
  <2>6. CASE UpsertHosts(d) \/ UpdateSatHost(d) \/ SatHostsDone(d)
    <3>1. UNCHANGED <<msg, wroteRuns>> /\ pc[d] = "hosts" /\ (d # c => pc'[c] = pc[c])
      BY <1>1, <2>6 DEF UpsertHosts, UpdateSatHost, SatHostsDone, goto, tables
    <3> QED BY <3>1
  <2>7. CASE Commit(d) \/ SequenceOverflow(d) \/ Panic(d) \/ DatabaseError(d) \/ Crash(d)
    <3>1. forgetWrites(d) /\ done(d)
      BY <2>7 DEF Commit, SequenceOverflow, Panic, DatabaseError, Crash, die, commit, rollback
    <3> QED BY <2>2, <2>3, <3>1
  <2> QED BY <1>3, <2>4, <2>5, <2>6, <2>7 DEF Consume
<1>4. CASE Api \/ Recipient \/ Clock
  <2>1. UNCHANGED <<pc, msg, wroteRuns>>
    BY <1>4 DEF Api, Recipient, Clock, Publish, Expire, ProcessRun, TakeToken, SendRequest,
                CreateRun, CreateFails, tables, consumerVars
  <2> QED BY <1>2, <2>1
<1>5. CASE Cleaning \/ CleanFailing
  <2>1. UNCHANGED <<pc, msg>> /\ wroteRuns'[c] = wroteRuns[c]
    BY <1>1, <1>5 DEF Cleaning, CleanFailing, CleanFails, CleanStep, CleanSelect, CleanRuns,
                CleanHostsScan, CleanHostsUpdate, CleanCommit, CleanAborts, commit, rollback,
                forgetWrites, tables, consumerVars
  <2> QED BY <2>1
<1>6. CASE UNCHANGED vars
  BY <1>2, <1>6 DEF vars, tables, consumerVars
<1> QED BY <1>3, <1>4, <1>5, <1>6 DEF Next, Consuming, ConsumerFails

\* A step leaves the row of a runner run's host, or a runner upload or the clean
\* job changes it.
LEMMA RunnerHostSteps ==
    ASSUME HInv, [Next]_vars, NEW r \in Run \ SatRun, NEW h \in Host,
           hosts'[r][h] # hosts[r][h]
    PROVE  \/ runs[r] = NoRow /\ hosts[r][h] = NoRow /\ hosts'[r][h] = newHostRun
           \/ \E c \in Consumer : RunnerHostChange(c, r, h)
           \/ /\ CleanCommit /\ <<r, h>> \in targets /\ hosts[r][h] \in HostRow
              /\ hosts'[r][h] = [hosts[r][h] EXCEPT !.status = "timeout"]
<1>1. ASSUME NEW c \in Consumer PROVE ~SatHostChange(c, r, h)
  BY TablesAssumption DEF SatHostChange
<1> QED BY <1>1, HostRowChange

LEMMA LastHostsAreHosts == \A r : LastHosts(r) \subseteq Host
<1>1. ASSUME NEW r, NEW f \in FinalOf(r) PROVE runnerHosts(f.events) \subseteq Host
  BY NamedHosts DEF FinalOf
<1> QED BY <1>1 DEF LastHosts

\* The row of a complete host of a runner run is never changed again.
LEMMA CompleteStays ==
    ASSUME HInv, VInv, [Next]_vars, NEW r \in Run \ SatRun, NEW h \in Host, HostComplete(r, h)
    PROVE  hosts'[r][h] = hosts[r][h]
<1> SUFFICES ASSUME hosts'[r][h] # hosts[r][h] PROVE FALSE
  OBVIOUS
<1>1. h \in LastHosts(r)
  <2>1. HostVerdict(r)
    BY DEF VInv
  <2>2. PICK f \in FinalOf(r) : h \in runnerHosts(f.events)
    BY <2>1 DEF HostVerdict
  <2> QED BY <2>2 DEF LastHosts
<1>2. <<r, h>> \notin targets
  BY <1>1 DEF VInv, TargetsOpen
<1>3. ASSUME NEW c \in Consumer, RunnerHostChange(c, r, h) PROVE FALSE
  BY <1>3 DEF RunnerHostChange, upsertedHost, HostComplete
<1>4. hosts[r][h] # NoRow
  BY DEF HostComplete
<1> QED BY <1>2, <1>3, <1>4, RunnerHostSteps

LEMMA DoneStays ==
    ASSUME HInv, VInv, [Next]_vars, NEW r \in Run \ SatRun, HostsDone(r)
    PROVE  HostsDone(r)'
<1>1. ASSUME NEW h \in LastHosts(r) PROVE HostComplete(r, h)'
  <2>1. h \in Host /\ HostComplete(r, h)
    BY LastHostsAreHosts DEF HostsDone
  <2>2. hosts'[r][h] = hosts[r][h]
    BY <2>1, CompleteStays
  <2> QED BY <2>1, <2>2 DEF HostComplete
<1>2. FinalOf(r) # {}
  BY DEF HostsDone
<1> QED BY <1>1, <1>2 DEF HostsDone, FinalOf, LastHosts

\* What a consumer commits to a host with a runner upload.
LEMMA UpsertedStatus ==
    ASSUME HInv, NEW c \in Consumer, NEW r \in Run, NEW h \in Host, RunnerHostChange(c, r, h),
           ~HostComplete(r, h)
    PROVE  hosts'[r][h].status = inferStatus(msg[c].events, h)
BY DEF RunnerHostChange, upsertedHost, HostComplete

\* Hosts get a final status from a final upload only.
LEMMA HostVerdictStep ==
    ASSUME CumulativeUploads, HInv, VInv, [Next]_vars, NEW r \in Run \ SatRun
    PROVE  HostVerdict(r)'
<1> SUFFICES ASSUME NEW h \in Host, HostComplete(r, h)'
             PROVE  \E f \in FinalOf(r) : /\ h \in runnerHosts(f.events)
                                          /\ hosts'[r][h].status = inferStatus(f.events, h)
  BY DEF HostVerdict, FinalOf
<1>0. hosts'[r][h] # NoRow /\ hosts'[r][h].status \in Complete
  BY DEF HostComplete
<1>1. CASE hosts'[r][h] = hosts[r][h]
  <2>1. HostComplete(r, h)
    BY <1>0, <1>1 DEF HostComplete
  <2> QED BY <1>1, <2>1 DEF VInv, HostVerdict
<1>2. CASE hosts'[r][h] # hosts[r][h]
  <2>1. ~HostComplete(r, h)
    BY <1>2, CompleteStays
  <2>2. hosts'[r][h] # newHostRun
    BY <1>0 DEF newHostRun, Complete
  <2>3. ASSUME hosts[r][h] \in HostRow PROVE hosts'[r][h] # [hosts[r][h] EXCEPT !.status = "timeout"]
    BY <1>0, <2>3 DEF HostRow, Complete
  <2>4. PICK c \in Consumer : RunnerHostChange(c, r, h)
    BY <1>2, <2>2, <2>3, RunnerHostSteps
  <2>5. hosts'[r][h].status = inferStatus(msg[c].events, h)
    BY <2>1, <2>4, UpsertedStatus
  <2>6. /\ msg[c] \in Upload /\ msg[c].kind = "runner" /\ msg[c].run = r
        /\ h \in runnerHosts(msg[c].events)
    BY <2>4 DEF RunnerHostChange
  <2>7. inferStatus(msg[c].events, Nil) # "running"
    BY <1>0, <2>5, <2>6, FinalForAll
  <2>8. msg[c] \in FinalOf(r)
    BY <2>6, <2>7 DEF FinalOf
  <2> QED BY <2>5, <2>6, <2>8
<1> QED BY <1>1, <1>2

\* A run gets a final status from a final upload only, in the transaction that
\* also completes its hosts.
LEMMA RunVerdictStep ==
    ASSUME CumulativeUploads, HInv, VInv, [Next]_vars, NEW r \in Run \ SatRun
    PROVE  RunVerdict(r)'
<1> SUFFICES ASSUME runs'[r] # NoRow, runs'[r].status \in Complete
             PROVE  /\ \E f \in FinalOf(r) : /\ runs'[r].events = f.events
                                             /\ runs'[r].status = inferStatus(f.events, Nil)
                    /\ HostsDone(r)'
  BY DEF RunVerdict, FinalOf
<1>1. CASE runs'[r] = runs[r]
  <2>1. RunVerdict(r)
    BY DEF VInv
  <2>2. /\ \E f \in FinalOf(r) : /\ runs[r].events = f.events
                                 /\ runs[r].status = inferStatus(f.events, Nil)
        /\ HostsDone(r)
    BY <1>1, <2>1 DEF RunVerdict
  <2> QED BY <1>1, <2>2, DoneStays
<1>2. CASE runs'[r] # runs[r]
  <2>1. runs[r] = NoRow \/ runs[r] \in RunRow
    BY DEF HInv, IInv, TypeOK, TablesTypeOK
  <2>2. ~\E x \in Run : CreateRun(x)
    BY <1>2 DEF CreateRun, newRun, Complete, HInv, IInv, TypeOK, TablesTypeOK
  <2>3. ~CleanCommit
    <3> SUFFICES ASSUME CleanCommit PROVE FALSE
      OBVIOUS
    <3>1. wroteRuns[Clean][r] # NoRow /\ runs'[r] = wroteRuns[Clean][r]
      <4>1. Clean \in Tx /\ commit(Clean)
        BY DEF Tx, CleanCommit
      <4> QED BY <1>2, <4>1, CommitRows DEF HInv
    <3>2. r \in ids /\ runs'[r] = [runs[r] EXCEPT !.status = "timeout"]
      BY <3>1 DEF HInv, IInv, WritesCurrent, CleanWrites
    <3>3. runs[r] \in RunRow
      BY <2>1, <3>2 DEF HInv, IInv, WritesCurrent, CleanWrites
    <3>4. runs'[r].status = "timeout"
      BY <3>2, <3>3 DEF RunRow
    <3> QED BY <3>4 DEF Complete
  <2>4. PICK c \in Consumer : Commit(c)
    BY <1>2, <2>2, <2>3, RunChanges
  <2>5. wroteRuns[c][r] # NoRow /\ runs'[r] = wroteRuns[c][r] /\ pc[c] = "commit"
    <3>1. c \in Tx /\ commit(c) /\ pc[c] = "commit"
      BY <2>4 DEF Tx, Commit
    <3> QED BY <1>2, <3>1, CommitRows DEF HInv
  <2>6. msg[c].run = r /\ msg[c] \in Upload /\ runs[r] \in RunRow
    BY <2>1, <2>5 DEF HInv, IInv, WritesCurrent, ConsumerWrites, ConsumerPlaces
  <2>7. Knows(c) /\ RunRowOf(c) /\ RunnerRowsOf(c)
    BY DEF HInv, Changes, ConsumerRows
  <2>8. msg[c].kind = "runner"
    BY <2>5, <2>6, <2>7, TablesAssumption DEF Knows, InTransaction
  <2>9. /\ runs'[r].events = msg[c].events
        /\ runs'[r].status = inferStatus(msg[c].events, Nil)
    <3>1. runs'[r] = [runs[r] EXCEPT !.status = statusFor(msg[c], seen[c]),
                                     !.events = msg[c].events]
      BY <2>5, <2>7 DEF RunRowOf
    <3>2. statusFor(msg[c], seen[c]) = inferStatus(msg[c].events, Nil)
      BY <2>8 DEF statusFor
    <3> QED BY <2>6, <3>1, <3>2 DEF RunRow
  <2>10. inferStatus(msg[c].events, Nil) # "running"
    BY <2>9 DEF Complete
  <2>11. msg[c] \in FinalOf(r)
    BY <2>6, <2>8, <2>10 DEF FinalOf
  <2>12. ASSUME NEW h \in LastHosts(r) PROVE HostComplete(r, h)'
    <3>1. h \in Host /\ h \in runnerHosts(msg[c].events)
      BY <2>11, FinalHosts, LastHostsAreHosts
    <3>2. wroteHosts[c][r][h] = upsertedHost(msg[c], h, hosts[r][h])
      BY <2>5, <2>6, <2>7, <2>8, <3>1 DEF RunnerRowsOf, InTransaction
    <3>3. hosts[r][h] \in HostRow \cup {NoRow}
      BY <3>1 DEF HInv, IInv, TypeOK, TablesTypeOK
    <3>4. upsertedHost(msg[c], h, hosts[r][h]) # NoRow
      BY <2>6, <2>8, <3>3, upsertedHostType, TablesAssumption
    <3>5. hosts'[r][h] = upsertedHost(msg[c], h, hosts[r][h])
      <4>1. c \in Tx /\ commit(c)
        BY <2>4 DEF Tx, Commit
      <4> QED BY <3>1, <3>2, <3>4, <4>1, CommitRows DEF HInv
    <3>6. inferStatus(msg[c].events, h) \in Complete
      BY <2>6, <2>8, <2>10, <3>1, FinalForAll
    <3>7. upsertedHost(msg[c], h, hosts[r][h]).status \in Complete
      BY <3>6 DEF upsertedHost
    <3> QED BY <3>4, <3>5, <3>7 DEF HostComplete
  <2>13. HostsDone(r)'
    BY <2>11, <2>12 DEF HostsDone, FinalOf, LastHosts
  <2> QED BY <2>9, <2>11, <2>13
<1> QED BY <1>1, <1>2

\* A consumer that did not have to lock the run finds its hosts complete.
LEMMA NoLockStep ==
    ASSUME HInv, VInv, [Next]_vars, NEW r \in Run \ SatRun
    PROVE  NoLockNeeded(r)'
<1> SUFFICES ASSUME NEW c \in Consumer, pc'[c] \in {"hosts", "commit"}, msg'[c].run = r,
                    wroteRuns'[c][r] = NoRow
             PROVE  HostsDone(r)'
  BY DEF NoLockNeeded
<1>1. /\ msg'[c] = msg[c]
      /\ \/ pc[c] \in {"hosts", "commit"} /\ wroteRuns'[c] = wroteRuns[c]
         \/ UpdateRun(c)
  BY PastUpdate
<1>2. HostsDone(r)
  <2>1. CASE pc[c] \in {"hosts", "commit"} /\ wroteRuns'[c] = wroteRuns[c]
    BY <1>1, <2>1 DEF VInv, NoLockNeeded
  <2>2. CASE UpdateRun(c)
    <3>1. msg[c].run = r /\ msg[c] \in Upload /\ runs[r] # NoRow /\ pc[c] = "update"
      BY <1>1, <2>2 DEF UpdateRun, HInv, IInv, WritesCurrent, ConsumerPlaces
    <3>2. runs[r] \in RunRow /\ wroteRuns \in [Tx -> [Run -> RunRow \cup {NoRow}]] /\ c \in Tx
      BY <3>1 DEF HInv, IInv, TypeOK, TablesTypeOK, Tx
    <3> DEFINE new == [runs[r] EXCEPT !.status = statusFor(msg[c], seen[c]),
                                      !.events = msg[c].events]
    <3>3. new # NoRow
      <4>1. statusFor(msg[c], seen[c]) \in RunStatus
        BY statusForType DEF Reported, RunStatus
      <4>2. new \in RunRow
        BY <3>1, <3>2, <4>1 DEF RunRow
      <4> QED BY <4>2, TablesAssumption
    <3>4. runs[r].status \in Complete
      <4> SUFFICES ASSUME runs[r].status \notin Complete PROVE FALSE
        OBVIOUS
      <4>1. wroteRuns' = [wroteRuns EXCEPT ![c][r] = new]
        BY <2>2, <3>1 DEF UpdateRun
      <4> HIDE DEF new
      <4>2. wroteRuns'[c][r] = new
        BY <3>2, <4>1
      <4> QED BY <3>3, <4>2
    <3>5. RunVerdict(r)
      BY DEF VInv
    <3> QED BY <3>1, <3>4, <3>5 DEF RunVerdict
  <2> QED BY <1>1, <2>1, <2>2
<1> QED BY <1>2, DoneStays

\* While the clean job writes the hosts of a run, nobody else has the run.
LEMMA LockedByClean ==
    ASSUME HInv, NEW r \in ids, cleanPc \in {"scan", "hosts", "commit"}
    PROVE  /\ \A c \in Consumer : wroteRuns[c][r] = NoRow
           /\ runs[r] \in RunRow
           /\ wroteRuns[Clean][r] = [runs[r] EXCEPT !.status = "timeout"]
           /\ wroteRuns[Clean][r] # NoRow
<1>1. r \in Run /\ Clean \in Tx /\ \A c \in Consumer : c \in Tx /\ c # Clean
  BY TablesAssumption DEF HInv, IInv, TypeOK, CleanTypeOK, Tx
<1>2. runs[r] \in RunRow
  BY <1>1 DEF HInv, IInv, TypeOK, TablesTypeOK, WritesCurrent, CleanWrites
<1>3. wroteRuns[Clean][r] = [runs[r] EXCEPT !.status = "timeout"]
  BY <1>1 DEF HInv, IInv, WritesCurrent, CleanWrites
<1>4. wroteRuns[Clean][r] # NoRow
  <2>1. [runs[r] EXCEPT !.status = "timeout"] \in RunRow
    BY <1>2 DEF RunRow, RunStatus
  <2> QED BY <1>3, <2>1, TablesAssumption
<1>5. \A c \in Consumer : wroteRuns[c][r] = NoRow
  BY <1>1, <1>4 DEF HInv, IInv, WritesCurrent, OneWriter
<1> QED BY <1>2, <1>3, <1>4, <1>5

\* A consumer without a write of its run changes none of the hosts final
\* uploads name.
LEMMA NoWriteNoChange ==
    ASSUME HInv, VInv, [Next]_vars, NEW r \in Run \ SatRun, NEW h \in LastHosts(r),
           NEW c \in Consumer, RunnerHostChange(c, r, h), wroteRuns[c][r] = NoRow
    PROVE  hosts'[r][h] = hosts[r][h]
<1>1. pc[c] = "commit" /\ msg[c].run = r
  BY DEF RunnerHostChange, Commit
<1>2. HostsDone(r) /\ h \in Host
  BY <1>1, LastHostsAreHosts DEF VInv, NoLockNeeded
<1>3. HostComplete(r, h)
  BY <1>2 DEF HostsDone
<1> QED BY <1>2, <1>3, CompleteStays

\* Hosts of a timed-out run are not left running.
LEMMA HostsTimedOutStep ==
    ASSUME HInv, VInv, [Next]_vars, NEW r \in Run \ SatRun
    PROVE  HostsTimedOut(r)'
<1> SUFFICES ASSUME runs'[r] # NoRow, runs'[r].status = "timeout", NEW h \in LastHosts(r),
                    hosts'[r][h] # NoRow, hosts'[r][h].status = "running"
             PROVE  FALSE
  BY DEF HostsTimedOut, LastHosts, FinalOf
<1>1. h \in Host
  BY LastHostsAreHosts
<1>2. ASSUME NEW c \in Consumer, Commit(c)
      PROVE  runs'[r] = runs[r] /\ wroteRuns[c][r] = NoRow
  <2>1. c \in Tx /\ commit(c)
    BY <1>2 DEF Tx, Commit
  <2>2. runs'[r] = IF wroteRuns[c][r] # NoRow THEN wroteRuns[c][r] ELSE runs[r]
    BY <2>1, CommitRows DEF HInv
  <2>3. wroteRuns[c][r] # NoRow => wroteRuns[c][r].status \in Reported
    BY DEF HInv, IInv, WritesCurrent, ConsumerWrites
  <2> QED BY <2>2, <2>3 DEF Reported
<1>3. CASE hosts'[r][h] # hosts[r][h]
  <2>1. ASSUME runs[r] = NoRow PROVE FALSE
    <3>1. runs'[r] # runs[r]
      BY <2>1
    <3>2. runs'[r] = newRun(r)
      BY <2>1, <3>1, RowChange DEF HInv
    <3> QED BY <3>2 DEF newRun
  <2>2. ASSUME NEW c \in Consumer, RunnerHostChange(c, r, h) PROVE FALSE
    BY <1>2, <1>3, <2>2, NoWriteNoChange DEF RunnerHostChange
  <2>3. hosts[r][h] \in HostRow => hosts'[r][h] # [hosts[r][h] EXCEPT !.status = "timeout"]
    BY DEF HostRow
  <2> QED BY <1>1, <1>3, <2>1, <2>2, <2>3, RunnerHostSteps
<1>4. CASE hosts'[r][h] = hosts[r][h] /\ runs'[r] = runs[r]
  BY <1>4 DEF VInv, HostsTimedOut
<1>5. CASE hosts'[r][h] = hosts[r][h] /\ runs'[r] # runs[r]
  <2>1. ASSUME NEW x \in Run, CreateRun(x) PROVE FALSE
    <3>1. runs' = [runs EXCEPT ![x] = newRun(x)] /\ runs \in [Run -> RunRow \cup {NoRow}]
      BY <2>1 DEF CreateRun, HInv, IInv, TypeOK, TablesTypeOK
    <3>2. runs'[r] = newRun(r)
      BY <1>5, <3>1
    <3> QED BY <3>2 DEF newRun
  <2>2. CleanCommit
    BY <1>2, <1>5, <2>1, RunChanges
  <2>3. Clean \in Tx /\ commit(Clean) /\ cleanPc = "commit"
    BY <2>2 DEF Tx, CleanCommit
  <2>4. wroteRuns[Clean][r] # NoRow
    BY <1>5, <2>3, CommitRows DEF HInv
  <2>5. r \in ids
    BY <2>4 DEF HInv, IInv, WritesCurrent, CleanWrites
  <2>6. <<r, h>> \in targets
    BY <1>5, <2>3, <2>5 DEF VInv, TargetsOpen
  <2>7. wroteHosts[Clean][r][h] = [hosts[r][h] EXCEPT !.status = "timeout"]
    BY <1>1, <2>3, <2>6 DEF HInv, Changes, CleanRows
  <2>8. hosts[r][h] \in HostRow
    BY <1>1, <1>5 DEF HInv, IInv, TypeOK, TablesTypeOK
  <2>9. [hosts[r][h] EXCEPT !.status = "timeout"] \in HostRow
    BY <2>8 DEF HostRow, RunStatus
  <2>10. hosts'[r][h] = [hosts[r][h] EXCEPT !.status = "timeout"]
    BY <1>1, <2>3, <2>7, <2>9, CommitRows, TablesAssumption DEF HInv
  <2>11. hosts'[r][h].status = "timeout"
    BY <2>8, <2>10 DEF HostRow
  <2> QED BY <2>11
<1> QED BY <1>3, <1>4, <1>5

\* While the clean job waits to write a run's hosts, none of those final uploads
\* name changes.
LEMMA TargetsKept ==
    ASSUME HInv, VInv, [Next]_vars, UNCHANGED cleanVars, NEW r \in Run \ SatRun,
           NEW h \in LastHosts(r), r \in ids, cleanPc \in {"hosts", "commit"}
    PROVE  hosts'[r][h] = hosts[r][h]
<1> SUFFICES ASSUME hosts'[r][h] # hosts[r][h] PROVE FALSE
  OBVIOUS
<1>1. h \in Host
  BY LastHostsAreHosts
<1>2. runs[r] # NoRow
  BY DEF HInv, IInv, WritesCurrent, CleanWrites
<1>3. ASSUME NEW c \in Consumer, RunnerHostChange(c, r, h) PROVE FALSE
  <2>1. wroteRuns[c][r] = NoRow
    BY LockedByClean
  <2> QED BY <1>3, <2>1, NoWriteNoChange
<1>4. ~CleanCommit
  BY DEF CleanCommit, cleanDone, cleanVars
<1> QED BY <1>1, <1>2, <1>3, <1>4, RunnerHostSteps

\* The hosts the clean job is about to write are the running ones of runs it has
\* locked.
LEMMA TargetsStep ==
    ASSUME HInv, VInv, [Next]_vars
    PROVE  /\ cleanPc' \notin {"hosts", "commit"} => targets' = {}
           /\ \A r \in Run \ SatRun : TargetsOpen(r)'
<1> DEFINE Written == {"hosts", "commit"}
           Open(r, h) ==
              /\ <<r, h>> \in targets' => r \in ids' /\ ~HostComplete(r, h)'
              /\ (cleanPc' \in Written /\ r \in ids' /\ hosts'[r][h] # NoRow
                    /\ hosts'[r][h].status = "running") => <<r, h>> \in targets'
           Claim == /\ cleanPc' \notin Written => targets' = {}
                    /\ \A r \in Run \ SatRun : \A h \in LastHosts(r) : Open(r, h)
<1>0. cleanPc \notin Written => targets = {}
  BY DEF VInv
<1>1. CASE UNCHANGED cleanVars
  <2>1. UNCHANGED <<cleanPc, ids, targets>>
    BY <1>1 DEF cleanVars
  <2>2. ASSUME NEW r \in Run \ SatRun, NEW h \in LastHosts(r) PROVE Open(r, h)
    <3>1. /\ <<r, h>> \in targets => r \in ids /\ ~HostComplete(r, h)
          /\ (cleanPc \in Written /\ r \in ids /\ hosts[r][h] # NoRow
                /\ hosts[r][h].status = "running") => <<r, h>> \in targets
      BY DEF VInv, TargetsOpen
    <3>2. CASE r \in ids /\ cleanPc \in Written
      <4>1. hosts'[r][h] = hosts[r][h]
        BY <1>1, <3>2, TargetsKept
      <4> QED BY <2>1, <3>1, <4>1 DEF HostComplete
    <3>3. CASE ~(r \in ids /\ cleanPc \in Written)
      BY <1>0, <2>1, <3>1, <3>3
    <3> QED BY <3>2, <3>3
  <2> QED BY <1>0, <2>1, <2>2 DEF TargetsOpen
<1>2. CASE CleanSelect \/ CleanRuns
  <2>1. targets' = {} /\ cleanPc' \notin Written
    BY <1>0, <1>2 DEF CleanSelect, CleanRuns
  <2> QED BY <2>1 DEF TargetsOpen
<1>3. CASE CleanHostsScan
  <2>1. /\ cleanPc = "scan" /\ cleanPc' = "hosts" /\ UNCHANGED <<ids, runs, hosts, wroteRuns>>
        /\ targets' = {t \in Run \X Host :
                         /\ hosts[t[1]][t[2]] # NoRow
                         /\ hosts[t[1]][t[2]].status = "running"
                         /\ cleanView(t[1]).status = "timeout"}
    BY <1>3 DEF CleanHostsScan, tables
  <2>2. ASSUME NEW r \in Run \ SatRun, NEW h \in LastHosts(r) PROVE Open(r, h)
    <3>1. h \in Host
      BY LastHostsAreHosts
    <3>2. <<r, h>> \in targets' <=> /\ hosts[r][h] # NoRow /\ hosts[r][h].status = "running"
                                    /\ cleanView(r).status = "timeout"
      BY <2>1, <3>1
    <3>3. ASSUME <<r, h>> \in targets' PROVE r \in ids /\ ~HostComplete(r, h)'
      <4>1. hosts[r][h] # NoRow /\ hosts[r][h].status = "running"
            /\ cleanView(r).status = "timeout"
        BY <3>2, <3>3
      <4>2. ~HostComplete(r, h)'
        BY <2>1, <4>1 DEF HostComplete, Complete
      <4>3. ASSUME r \notin ids PROVE FALSE
        <5>1. wroteRuns[Clean][r] = NoRow
          BY <4>3 DEF HInv, IInv, WritesCurrent, CleanWrites
        <5>2. runs[r] # NoRow /\ runs[r].status = "timeout"
          BY <3>1, <4>1, <5>1 DEF cleanView, HInv, IInv, WritesCurrent, RowsExist
        <5> QED BY <4>1, <5>2 DEF VInv, HostsTimedOut
      <4> QED BY <4>2, <4>3
    <3>4. ASSUME r \in ids, hosts[r][h] # NoRow, hosts[r][h].status = "running"
          PROVE  <<r, h>> \in targets'
      <4>1. /\ wroteRuns[Clean][r] = [runs[r] EXCEPT !.status = "timeout"]
            /\ wroteRuns[Clean][r] # NoRow /\ runs[r] \in RunRow
        BY <2>1, <3>4, LockedByClean
      <4>2. cleanView(r).status = "timeout"
        BY <4>1 DEF cleanView, RunRow
      <4> QED BY <3>2, <3>4, <4>2
    <3> QED BY <2>1, <3>3, <3>4
  <2> QED BY <2>1, <2>2 DEF TargetsOpen
<1>4. CASE CleanHostsUpdate
  <2>1. cleanPc = "hosts" /\ cleanPc' = "commit" /\ UNCHANGED <<ids, targets, hosts>>
    BY <1>4 DEF CleanHostsUpdate
  <2>2. ASSUME NEW r \in Run \ SatRun, NEW h \in LastHosts(r) PROVE Open(r, h)
    <3>1. TargetsOpen(r)
      BY DEF VInv
    <3> QED BY <2>1, <3>1 DEF TargetsOpen, HostComplete
  <2> QED BY <2>1, <2>2 DEF TargetsOpen
<1>5. CASE CleanCommit \/ CleanAborts
  <2>1. targets' = {} /\ cleanPc' \notin Written
    BY <1>5 DEF CleanCommit, CleanAborts, cleanDone
  <2> QED BY <2>1 DEF TargetsOpen
<1> QED BY <1>1, <1>2, <1>3, <1>4, <1>5, CleanChanges

LEMMA VInvInit == Init => VInv
<1> SUFFICES ASSUME Init PROVE VInv
  OBVIOUS
<1> USE DEF Init, TablesInit, ConsumerInit, CleanInit, NoHostRows
<1>1. ASSUME NEW r \in Run \ SatRun
      PROVE  RunVerdict(r) /\ HostVerdict(r) /\ NoLockNeeded(r) /\ HostsTimedOut(r)
  BY <1>1 DEF RunVerdict, HostVerdict, HostComplete, NoLockNeeded, HostsTimedOut
<1>2. \A r \in Run \ SatRun : TargetsOpen(r)
  BY DEF TargetsOpen
<1> QED BY <1>1, <1>2 DEF VInv

\* The invariant of runner runs is inductive.
LEMMA VInvNext ==
    ASSUME CumulativeUploads
    PROVE  HInv /\ VInv /\ [Next]_vars => VInv'
<1> SUFFICES ASSUME HInv, VInv, [Next]_vars PROVE VInv'
  OBVIOUS
<1>1. ASSUME NEW r \in Run \ SatRun
      PROVE  /\ RunVerdict(r)' /\ HostVerdict(r)' /\ NoLockNeeded(r)'
             /\ HostsTimedOut(r)'
  BY RunVerdictStep, HostVerdictStep, NoLockStep, HostsTimedOutStep
<1>2. /\ cleanPc' \notin {"hosts", "commit"} => targets' = {}
      /\ \A r \in Run \ SatRun : TargetsOpen(r)'
  BY TargetsStep
<1> QED BY <1>1, <1>2 DEF VInv

\* Every reachable state satisfies it, for devices that repeat their events.
LEMMA VerdictsAlways ==
    ASSUME CumulativeUploads
    PROVE  Spec => [](HInv /\ VInv)
BY VInvInit, VInvNext, ChangesCurrent, PTL DEF Spec

\* A run stored as success or failure agrees with its hosts, for any number of
\* runs, hosts and consumers and any order of uploads, crashes and clean jobs.
THEOREM VerdictsAgreeAlways ==
    ASSUME CumulativeUploads
    PROVE  Spec => []RunAndHostsAgree
<1>1. HInv /\ VInv => RunAndHostsAgree
  <2> SUFFICES ASSUME HInv, VInv, NEW r \in Run \ SatRun, runs[r] # NoRow,
                      runs[r].status \in Complete
               PROVE  /\ \A h \in runnerHosts(runs[r].events) :
                           hosts[r][h] # NoRow /\ hosts[r][h].status \in Complete
                      /\ runs[r].status = "failure" <=>
                           \E h \in Host : hosts[r][h] # NoRow /\ hosts[r][h].status = "failure"
    BY DEF RunAndHostsAgree
  <2>1. RunVerdict(r) /\ HostVerdict(r)
    BY DEF VInv
  <2>2. PICK f \in FinalOf(r) : /\ runs[r].events = f.events
                                /\ runs[r].status = inferStatus(f.events, Nil)
    BY <2>1 DEF RunVerdict
  <2>3. /\ f \in Upload /\ f.kind = "runner" /\ inferStatus(f.events, Nil) # "running"
        /\ HostsDone(r)
    BY <2>1 DEF FinalOf, RunVerdict
  <2>4. LastHosts(r) = runnerHosts(f.events) /\ LastHosts(r) \subseteq Host
    BY FinalHosts, LastHostsAreHosts
  <2>5. \A h \in runnerHosts(f.events) : hosts[r][h] # NoRow /\ hosts[r][h].status \in Complete
    BY <2>3, <2>4 DEF HostsDone, HostComplete
  <2>6. ASSUME NEW h \in Host, hosts[r][h] # NoRow, hosts[r][h].status \in Complete
        PROVE  h \in runnerHosts(f.events) /\ hosts[r][h].status = inferStatus(f.events, h)
    <3>1. PICK g \in FinalOf(r) : /\ h \in runnerHosts(g.events)
                                  /\ hosts[r][h].status = inferStatus(g.events, h)
      BY <2>1, <2>6 DEF HostVerdict, HostComplete
    <3>2. g.events = f.events
      BY FinalEvents
    <3> QED BY <3>1, <3>2
  <2>7. inferStatus(f.events, Nil) = "failure" <=>
           \E h \in runnerHosts(f.events) : inferStatus(f.events, h) = "failure"
    BY <2>3, FailsTogether
  <2>8. ASSUME runs[r].status = "failure"
        PROVE  \E h \in Host : hosts[r][h] # NoRow /\ hosts[r][h].status = "failure"
    <3>1. PICK h \in runnerHosts(f.events) : inferStatus(f.events, h) = "failure"
      BY <2>2, <2>7, <2>8
    <3>2. h \in Host /\ hosts[r][h] # NoRow /\ hosts[r][h].status \in Complete
      BY <2>4, <2>5, <3>1
    <3> QED BY <2>6, <3>1, <3>2
  <2>9. ASSUME NEW h \in Host, hosts[r][h] # NoRow, hosts[r][h].status = "failure"
        PROVE  runs[r].status = "failure"
    <3>1. hosts[r][h].status \in Complete
      BY <2>9 DEF Complete
    <3>2. h \in runnerHosts(f.events) /\ inferStatus(f.events, h) = "failure"
      BY <2>6, <2>9, <3>1
    <3> QED BY <2>2, <2>7, <3>2
  <2> QED BY <2>2, <2>5, <2>8, <2>9
<1> QED BY <1>1, VerdictsAlways, PTL

\* The verdict of a runner's host is never overwritten by the clean job, though
\* the job writes hosts it found earlier without looking at them again.
THEOREM VerdictKept ==
    ASSUME CumulativeUploads
    PROVE  Spec => HostVerdictNotTimedOut
<1>1. ASSUME HInv, VInv, [Next]_vars, NEW r \in Run \ SatRun, NEW h \in Host,
             hosts[r][h] # NoRow, hosts[r][h].status \in Complete
      PROVE  hosts'[r][h].status # "timeout"
  <2>1. hosts'[r][h] = hosts[r][h]
    BY <1>1, CompleteStays DEF HostComplete
  <2> QED BY <1>1, <2>1 DEF Complete
<1>2. HInv /\ VInv /\ [Next]_vars =>
        [\A r \in Run \ SatRun, h \in Host :
           (hosts[r][h] # NoRow /\ hosts[r][h].status \in Complete) =>
              hosts'[r][h].status # "timeout"]_vars
  BY <1>1
<1> QED BY <1>2, VerdictsAlways, PTL DEF Spec, HostVerdictNotTimedOut
=============================================================================
