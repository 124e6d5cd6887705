--------------------------- MODULE RunOutput_proofs ---------------------------
(***************************************************************************)
(* Proofs about the console output of Satellite hosts in RunLifecycle: it  *)
(* only moves forward, and for recipients that send their output as        *)
(* Satellite does (WholeOutput, OutputInBatches) the stored output is      *)
(* whole, in order, and marked where pieces are missing.                   *)
(***************************************************************************)
EXTENDS RunHosts_proofs, FiniteSetTheorems, WellFoundedInduction

-----------------------------------------------------------------------------
(* Least and greatest numbers, for Max and Min of FiniteSetsExt *)

\* Every set of natural numbers has a least element: the intervals below its
\* elements are finite sets, which strict inclusion orders well.
LEMMA Least ==
    ASSUME NEW T \in SUBSET Nat, T # {}
    PROVE  \E x \in T : \A y \in T : x <= y
<1> DEFINE K == {0..x : x \in T}
<1>1. K \subseteq FiniteSubsetsOf(Nat) /\ K # {}
  <2>1. ASSUME NEW x \in T PROVE 0..x \in FiniteSubsetsOf(Nat)
    <3>1. IsFiniteSet(0..x)
      BY FS_Interval
    <3>2. 0..x \in SUBSET Nat
      OBVIOUS
    <3> QED BY <3>1, <3>2 DEF FiniteSubsetsOf
  <2> QED BY <2>1
<1>2. PICK k \in K : \A y \in K : ~(<<y, k>> \in StrictSubsetOrdering(Nat))
  <2>1. IsWellFoundedOn(StrictSubsetOrdering(Nat), FiniteSubsetsOf(Nat))
    BY FS_StrictSubsetOrderingWellFounded
  <2> HIDE DEF K
  <2> QED BY <1>1, <2>1, WFMin
<1>3. PICK x \in T : k = 0..x
  OBVIOUS
<1>4. ASSUME NEW y \in T PROVE x <= y
  <2> SUFFICES ASSUME y < x PROVE FALSE
    OBVIOUS
  <2>1. 0..y \subseteq 0..x /\ x \in 0..x /\ x \notin 0..y
    OBVIOUS
  <2>2. <<0..y, 0..x>> \in StrictSubsetOrdering(Nat)
    <3>1. 0..y \in SUBSET Nat /\ 0..x \in SUBSET Nat /\ 0..y # 0..x
      BY <2>1
    <3> QED BY <2>1, <3>1 DEF StrictSubsetOrdering
  <2>3. 0..y \in K
    OBVIOUS
  <2> QED BY <1>2, <1>3, <2>2, <2>3
<1> QED BY <1>4

\* Finitely many numbers have an upper bound.
LEMMA BoundExists ==
    ASSUME NEW n \in Nat, NEW f, \A i \in 1..n : f[i] \in Int
    PROVE  \E b \in Nat : \A i \in 1..n : f[i] <= b
<1> DEFINE Bounded(k) == \E b \in Nat : \A i \in 1..k : f[i] <= b
           K == {k \in Nat : k <= n /\ ~Bounded(k)}
<1> SUFFICES ASSUME K # {} PROVE FALSE
  <2>1. n \in Nat /\ n <= n /\ (K = {} => n \notin K)
    OBVIOUS
  <2> QED BY <2>1
<1>1. PICK k \in K : \A j \in K : k <= j
  <2>1. K \in SUBSET Nat
    OBVIOUS
  <2> HIDE DEF K
  <2> QED BY <2>1, Least
<1>2. k # 0
  BY SMT
<1>3. k - 1 \in Nat /\ k - 1 <= n /\ k - 1 \notin K
  <2>1. k \in Nat /\ k <= n
    OBVIOUS
  <2> HIDE DEF K
  <2> QED BY <1>1, <1>2, <2>1
<1>4. PICK b \in Nat : \A i \in 1..(k - 1) : f[i] <= b
  BY <1>3
<1>5. f[k] \in Int
  BY <1>2
<1>6. PICK c \in Nat : b <= c /\ f[k] <= c
  <2>1. CASE f[k] <= b
    BY <2>1
  <2>2. CASE ~(f[k] <= b)
    <3>1. f[k] \in Nat /\ b <= f[k]
      BY <1>5, <2>2
    <3> QED BY <3>1
  <2> QED BY <2>1, <2>2
<1>7. \A i \in 1..k : f[i] <= c
  <2> SUFFICES ASSUME NEW i \in 1..k PROVE f[i] <= c
    OBVIOUS
  <2>1. CASE i = k
    BY <1>6, <2>1
  <2>2. CASE i # k
    <3>1. i \in 1..(k - 1) /\ f[i] \in Int
      BY <2>2
    <3> QED BY <1>4, <1>6, <3>1
  <2> QED BY <2>1, <2>2
<1> QED BY <1>7

\* A maximum is the maximum.
LEMMA MaxIs ==
    ASSUME NEW S, S \subseteq Int, NEW x \in S, \A y \in S : y <= x
    PROVE  Max(S) = x
<1>1. \A y \in S : x >= y
  OBVIOUS
<1>2. Max(S) \in S /\ \A y \in S : Max(S) >= y
  BY <1>1 DEF Max
<1>3. Max(S) \in Int /\ x \in Int /\ Max(S) <= x /\ Max(S) >= x
  BY <1>2
<1> QED BY <1>3

\* The maximum of the numbers that the elements of a sequence give.
LEMMA MaxExists ==
    ASSUME NEW n \in Nat, NEW f, \A i \in 1..n : f[i] \in Int,
           NEW S, S # {}, S \subseteq Nat \cup {-1}, \A x \in S : x = -1 \/ \E i \in 1..n : f[i] = x
    PROVE  Max(S) \in S /\ \A x \in S : x <= Max(S)
<1>1. PICK b \in Nat : \A i \in 1..n : f[i] <= b
  BY BoundExists
<1> DEFINE B == {c \in Nat : \A x \in S : x <= c}
<1>2. b \in B
  <2>1. ASSUME NEW x \in S PROVE x <= b
    <3>1. CASE x = -1
      BY <3>1
    <3>2. CASE x # -1
      BY <1>1, <3>2
    <3> QED BY <3>1, <3>2
  <2> QED BY <2>1
<1>3. PICK m \in B : \A c \in B : m <= c
  <2>1. B \in SUBSET Nat /\ B # {}
    BY <1>2
  <2> HIDE DEF B
  <2> QED BY <2>1, Least
<1>4. \E x \in S : \A y \in S : y <= x
  <2>1. CASE m \in S
    BY <2>1
  <2>2. CASE m \notin S /\ m = 0
    <3>1. \A x \in S : x = -1
      <4>1. \A x \in S : x <= 0 /\ x # 0
        BY <2>2
      <4> QED BY <4>1
    <3>2. PICK x \in S : TRUE
      OBVIOUS
    <3>3. ASSUME NEW y \in S PROVE y <= x
      <4>1. y = -1 /\ x = -1
        BY <3>1
      <4> QED BY <4>1
    <3> QED BY <3>3
  <2>3. CASE m \notin S /\ m # 0
    <3>1. m - 1 \in Nat /\ \A x \in S : x <= m - 1
      <4>1. ASSUME NEW x \in S PROVE x <= m - 1
        <5>1. x <= m /\ x # m /\ x \in Int /\ m \in Int
          BY <2>3
        <5> QED BY <5>1
      <4> QED BY <2>3, <4>1
    <3>2. m - 1 \in B
      BY <3>1
    <3> QED BY <1>3, <3>2
  <2> QED BY <2>1, <2>2, <2>3
<1>5. S \subseteq Int
  OBVIOUS
<1> QED BY <1>4, <1>5, MaxIs
-----------------------------------------------------------------------------
(* The row an upload leaves *)

\* The part a partial upload appends to a host's output, and whether it starts
\* with the mark for missing output.
NewPart(u, h, g) == [gap |-> g, pieces |-> satConsole(u.events, h)]
Skipped(u, h, row) ==
    IF row.seq = NoSeq THEN satSequence(u.events, h) > 0
    ELSE row.seq + 1 < satSequence(u.events, h)

\* The row an UPDATE of satUpdateRecord leaves: the status alone when the
\* upload has no sequence number for the host, else a newer number and output.
LEMMA updatedSatHostRow ==
    ASSUME NEW u \in Upload, u.kind = "sat", NEW h, NEW full \in BOOLEAN, NEW row \in HostRow,
           ~overflows(u, h), matchesHost(u, h, row)
    PROVE  LET s == satSequence(u.events, h)
               new == updatedSatHost(u, h, full, row)
           IN  /\ s \in NoSeq..MaxSmallint /\ row.seq \in NoSeq..MaxSmallint
               /\ row.log \in Seq(LogPart) /\ Skipped(u, h, row) \in BOOLEAN
               /\ s = NoSeq => new.seq = row.seq /\ new.log = row.log
               /\ s # NoSeq =>
                     /\ new.seq = s /\ row.seq < s
                     /\ full => new.log = <<NewPart(u, h, FALSE)>>
                     /\ ~full => new.log = Append(row.log, NewPart(u, h, Skipped(u, h, row)))
<1> DEFINE s == satSequence(u.events, h)
           new == updatedSatHost(u, h, full, row)
           log == IF full THEN <<NewPart(u, h, FALSE)>>
                  ELSE Append(row.log, NewPart(u, h, Skipped(u, h, row)))
<1>1. s \in NoSeq..MaxSmallint
  BY DEF overflows
<1>2. row.seq \in NoSeq..MaxSmallint /\ row.log \in Seq(LogPart)
  BY DEF HostRow
<1>3. s \in Int /\ row.seq \in Int
  BY <1>1, <1>2, TablesAssumption DEF NoSeq
<1>4. Skipped(u, h, row) \in BOOLEAN
  <2>1. (s > 0) \in BOOLEAN /\ (row.seq + 1 < s) \in BOOLEAN
    BY <1>3
  <2> QED BY <2>1, Zenon DEF Skipped
<1>5. ASSUME s = NoSeq PROVE new.seq = row.seq /\ new.log = row.log
  <2>1. new = [row EXCEPT !.status = inferSatHostStatus(u.events, h)]
    BY <1>5 DEF updatedSatHost
  <2> QED BY <2>1 DEF HostRow
<1>6. ASSUME s # NoSeq
      PROVE  /\ new.seq = s /\ row.seq < s
             /\ full => new.log = <<NewPart(u, h, FALSE)>>
             /\ ~full => new.log = Append(row.log, NewPart(u, h, Skipped(u, h, row)))
  <2>1. new = [status |-> inferSatHostStatus(u.events, h), seq |-> s, log |-> log]
    BY <1>6, Zenon DEF updatedSatHost, satAssignmentWithCase, NewPart, Skipped
  <2>2. new.seq = s /\ new.log = log
    <3> HIDE DEF log, new, s
    <3> QED BY <2>1
  <2>3. row.seq < s
    BY <1>1, <1>2, <1>3, <1>6 DEF matchesHost, NoSeq
  <2>4. (full => log = <<NewPart(u, h, FALSE)>>)
        /\ (~full => log = Append(row.log, NewPart(u, h, Skipped(u, h, row))))
    BY Zenon
  <2> QED BY <2>2, <2>3, <2>4
<1> QED BY <1>1, <1>2, <1>4, <1>5, <1>6

\* An UPDATE of a Satellite host moves its sequence number and, with partial
\* responses, its output forward only.
LEMMA SatRowForward ==
    ASSUME NEW u \in Upload, u.kind = "sat", NEW h, NEW full \in BOOLEAN, NEW row \in HostRow,
           ~overflows(u, h), matchesHost(u, h, row)
    PROVE  LET new == updatedSatHost(u, h, full, row)
           IN  /\ new.seq >= row.seq
               /\ ~full => \E more \in 0..1 :
                              /\ Len(new.log) = Len(row.log) + more
                              /\ \A i \in DOMAIN row.log : new.log[i] = row.log[i]
<1> DEFINE s == satSequence(u.events, h)
           new == updatedSatHost(u, h, full, row)
           part == NewPart(u, h, Skipped(u, h, row))
<1>1. /\ s \in NoSeq..MaxSmallint /\ row.seq \in NoSeq..MaxSmallint
      /\ row.log \in Seq(LogPart) /\ Skipped(u, h, row) \in BOOLEAN
      /\ s = NoSeq => new.seq = row.seq /\ new.log = row.log
      /\ s # NoSeq => /\ new.seq = s /\ row.seq < s
                      /\ ~full => new.log = Append(row.log, part)
  BY updatedSatHostRow, ZenonT(40)
<1>2. part \in LogPart
  BY <1>1, UploadContents DEF LogPart, NewPart
<1>3. s \in Int /\ row.seq \in Int
  BY <1>1, TablesAssumption DEF NoSeq
<1> HIDE DEF part, new, s
<1>4. CASE s = NoSeq
  <2>1. Len(new.log) = Len(row.log) + 0 /\ new.log = row.log
    BY <1>1, <1>4
  <2>2. new.seq >= row.seq
    BY <1>1, <1>3, <1>4
  <2> QED BY <2>1, <2>2 DEF new
<1>5. CASE s # NoSeq
  <2>1. new.seq >= row.seq
    BY <1>1, <1>3, <1>5
  <2>2. ~full => /\ Len(new.log) = Len(row.log) + 1
                 /\ \A i \in DOMAIN row.log : new.log[i] = row.log[i]
    BY <1>1, <1>2, <1>5, SMTT(30)
  <2> QED BY <2>1, <2>2 DEF new
<1> QED BY <1>4, <1>5

\* A step leaves the row of a Satellite host, changes its status only, or
\* applies an upload to it.
LEMMA SatHostSteps ==
    ASSUME HInv, [Next]_vars, NEW r \in SatRun, NEW h \in Host, hosts[r][h] # NoRow
    PROVE  /\ hosts[r][h] \in HostRow /\ runs[r] # NoRow /\ runs[r].full = newRun(r).full
           /\ newRun(r).full \in BOOLEAN
           /\ \/ hosts'[r][h] = hosts[r][h]
              \/ hosts'[r][h] = [hosts[r][h] EXCEPT !.status = "timeout"]
              \/ \E u \in Upload :
                    /\ u.run = r /\ u.kind = "sat" /\ h \in GetSatHosts(u.events)
                    /\ ~overflows(u, h) /\ matchesHost(u, h, hosts[r][h])
                    /\ hosts'[r][h] = updatedSatHost(u, h, newRun(r).full, hosts[r][h])
<1>1. r \in Run
  BY TablesAssumption
<1>2. hosts[r][h] \in HostRow /\ runs[r] # NoRow /\ runs[r].full = newRun(r).full
  <2>1. hosts[r][h] \in HostRow
    BY <1>1 DEF HInv, IInv, TypeOK, TablesTypeOK
  <2>2. runs[r] # NoRow
    BY <1>1 DEF HInv, IInv, WritesCurrent, RowsExist
  <2>3. runs[r].full = newRun(r).full
    BY <1>1, <2>2 DEF HInv, Changes, FullFixed
  <2> QED BY <2>1, <2>2, <2>3
<1>3. newRun(r).full \in BOOLEAN
  BY DEF newRun
<1>4. ASSUME NEW c \in Consumer PROVE ~RunnerHostChange(c, r, h)
  BY TablesAssumption DEF RunnerHostChange
<1>5. ASSUME NEW c \in Consumer, SatHostChange(c, r, h)
      PROVE  \E u \in Upload :
                    /\ u.run = r /\ u.kind = "sat" /\ h \in GetSatHosts(u.events)
                    /\ ~overflows(u, h) /\ matchesHost(u, h, hosts[r][h])
                    /\ hosts'[r][h] = updatedSatHost(u, h, newRun(r).full, hosts[r][h])
  BY <1>5 DEF SatHostChange
<1> QED BY <1>1, <1>2, <1>3, <1>4, <1>5, HostRowChange

\* Sequence numbers and output of Satellite hosts only move forward, for any
\* number of consumers, any uploads in any order, crashes and redeliveries.
THEOREM OutputForward == Spec => SequenceForward
<1>1. ASSUME HInv, [Next]_vars, NEW r \in SatRun, NEW h \in Host, hosts[r][h] # NoRow
      PROVE  /\ hosts'[r][h] # NoRow
             /\ hosts'[r][h].seq >= hosts[r][h].seq
             /\ ~runs[r].full =>
                  \E more \in 0..1 :
                     /\ Len(hosts'[r][h].log) = Len(hosts[r][h].log) + more
                     /\ \A i \in DOMAIN hosts[r][h].log :
                           hosts'[r][h].log[i] = hosts[r][h].log[i]
  <2> DEFINE row == hosts[r][h]
             new == hosts'[r][h]
  <2>1. /\ row \in HostRow /\ runs[r].full = newRun(r).full /\ newRun(r).full \in BOOLEAN
        /\ \/ new = row
           \/ new = [row EXCEPT !.status = "timeout"]
           \/ \E u \in Upload :
                    /\ u.run = r /\ u.kind = "sat" /\ h \in GetSatHosts(u.events)
                    /\ ~overflows(u, h) /\ matchesHost(u, h, row)
                    /\ new = updatedSatHost(u, h, newRun(r).full, row)
    BY <1>1, SatHostSteps
  <2>2. CASE new = row \/ new = [row EXCEPT !.status = "timeout"]
    <3>1. new \in HostRow /\ new.seq = row.seq /\ new.log = row.log
      BY <2>1, <2>2 DEF HostRow, RunStatus
    <3>2. row.seq \in Int /\ Len(row.log) \in Nat
      BY <2>1, TablesAssumption DEF HostRow, NoSeq
    <3>3. Len(new.log) = Len(row.log) + 0 /\ new.seq >= row.seq
      BY <3>1, <3>2
    <3> QED BY <3>1, <3>3, TablesAssumption
  <2>3. ASSUME NEW u \in Upload, u.kind = "sat", ~overflows(u, h), matchesHost(u, h, row),
               new = updatedSatHost(u, h, newRun(r).full, row)
        PROVE  /\ new # NoRow /\ new.seq >= row.seq
               /\ ~runs[r].full =>
                    \E more \in 0..1 : /\ Len(new.log) = Len(row.log) + more
                                       /\ \A i \in DOMAIN row.log : new.log[i] = row.log[i]
    <3>1. new \in HostRow
      BY <2>1, <2>3, updatedSatHostType
    <3>2. /\ new.seq >= row.seq
          /\ ~newRun(r).full =>
                    \E more \in 0..1 : /\ Len(new.log) = Len(row.log) + more
                                       /\ \A i \in DOMAIN row.log : new.log[i] = row.log[i]
      BY <2>1, <2>3, SatRowForward
    <3> QED BY <2>1, <3>1, <3>2, TablesAssumption
  <2> QED BY <2>1, <2>2, <2>3
<1>2. HInv /\ [Next]_vars =>
        [\A r \in SatRun, h \in Host :
         hosts[r][h] # NoRow =>
            /\ hosts'[r][h] # NoRow
            /\ hosts'[r][h].seq >= hosts[r][h].seq
            /\ ~runs[r].full =>
                  \E more \in 0..1 :
                     /\ Len(hosts'[r][h].log) = Len(hosts[r][h].log) + more
                     /\ \A i \in DOMAIN hosts[r][h].log :
                           hosts'[r][h].log[i] = hosts[r][h].log[i]]_vars
  BY <1>1
<1> QED BY <1>2, ChangesCurrent, PTL DEF Spec, SequenceForward

-----------------------------------------------------------------------------
(* Full responses *)

\* A Satellite host's row appears with the request, without output.
LEMMA SatHostAppears ==
    ASSUME HInv, [Next]_vars, NEW r \in SatRun, NEW h \in Host,
           hosts[r][h] = NoRow, hosts'[r][h] # NoRow
    PROVE  hosts'[r][h] = newHostRun
<1>1. r \in Run
  BY TablesAssumption
<1>2. ASSUME NEW c \in Consumer PROVE ~RunnerHostChange(c, r, h) /\ ~SatHostChange(c, r, h)
  BY TablesAssumption DEF RunnerHostChange, SatHostChange, matchesHost
<1> QED BY <1>1, <1>2, HostRowChange, TablesAssumption

\* The response mode a step finds is the run's.
LEMMA ModeFixed ==
    ASSUME HInv, HInv', NEW r \in SatRun, NEW h \in Host, hosts'[r][h] # NoRow
    PROVE  /\ runs'[r].full = newRun(r).full
           /\ hosts[r][h] # NoRow => runs[r].full = newRun(r).full
<1>1. r \in Run
  BY TablesAssumption
<1>2. runs'[r] # NoRow /\ (hosts[r][h] # NoRow => runs[r] # NoRow)
  BY <1>1 DEF HInv, IInv, WritesCurrent, RowsExist
<1>3. FullFixed /\ FullFixed'
  BY DEF HInv, Changes
<1> QED BY <1>1, <1>2, <1>3 DEF FullFixed, newRun

\* The output a row holds under full responses.
WholeRow(row) ==
    IF row.seq = NoSeq THEN row.log = <<>>
    ELSE Len(row.log) = 1 /\ row.log[1].pieces = 0..row.seq

\* An upload that repeats all output of its hosts leaves it whole.
LEMMA WholeRowKept ==
    ASSUME WholeOutput, NEW u \in Upload, u.kind = "sat", NEW h \in Host, h \in GetSatHosts(u.events),
           NEW row \in HostRow, WholeRow(row), ~overflows(u, h), matchesHost(u, h, row)
    PROVE  WholeRow(updatedSatHost(u, h, TRUE, row))
<1> DEFINE s == satSequence(u.events, h)
           new == updatedSatHost(u, h, TRUE, row)
<1>1. /\ s = NoSeq => new.seq = row.seq /\ new.log = row.log
      /\ s # NoSeq => new.seq = s /\ new.log = <<NewPart(u, h, FALSE)>>
  BY updatedSatHostRow, ZenonT(40)
<1>2. satConsole(u.events, h) = 0..s
  BY DEF WholeOutput
<1>3. CASE s = NoSeq
  BY <1>1, <1>3 DEF WholeRow
<1>4. CASE s # NoSeq
  <2>1. Len(new.log) = 1 /\ new.log[1].pieces = 0..s
    <3>1. NewPart(u, h, FALSE).pieces = 0..s
      BY <1>2 DEF NewPart
    <3> HIDE DEF new, s
    <3>2. \A p : Len(<<p>>) = 1 /\ <<p>>[1] = p
      OBVIOUS
    <3>3. new.log = <<NewPart(u, h, FALSE)>>
      BY <1>1, <1>4
    <3> QED BY <3>1, <3>2, <3>3
  <2> QED BY <1>1, <1>4, <2>1 DEF WholeRow
<1> QED BY <1>3, <1>4

\* With full responses the output of a host is that of one upload, complete up
\* to the stored sequence number, however consumers overlap, crash and retry.
THEOREM OutputWhole ==
    ASSUME WholeOutput
    PROVE  Spec => []FullLogWhole
<1>1. Init => FullLogWhole
  BY TablesAssumption DEF Init, TablesInit, NoHostRows, FullLogWhole
<1>2. ASSUME HInv, HInv', FullLogWhole, [Next]_vars PROVE FullLogWhole'
  <2> SUFFICES ASSUME NEW r \in SatRun, NEW h \in Host, hosts'[r][h] # NoRow, runs'[r].full
               PROVE  WholeRow(hosts'[r][h])
    BY DEF FullLogWhole, WholeRow
  <2>1. newRun(r).full
    BY <1>2, ModeFixed
  <2>2. CASE hosts[r][h] = NoRow
    <3>1. hosts'[r][h] = newHostRun
      BY <1>2, <2>2, SatHostAppears
    <3> QED BY <3>1 DEF newHostRun, WholeRow
  <2>3. CASE hosts[r][h] # NoRow
    <3> DEFINE row == hosts[r][h]
    <3>1. runs[r].full
      BY <1>2, <2>1, <2>3, ModeFixed
    <3>2. WholeRow(row)
      BY <1>2, <2>3, <3>1 DEF FullLogWhole, WholeRow
    <3>3. /\ row \in HostRow
          /\ \/ hosts'[r][h] = row
             \/ hosts'[r][h] = [row EXCEPT !.status = "timeout"]
             \/ \E u \in Upload :
                    /\ u.kind = "sat" /\ h \in GetSatHosts(u.events)
                    /\ ~overflows(u, h) /\ matchesHost(u, h, row)
                    /\ hosts'[r][h] = updatedSatHost(u, h, newRun(r).full, row)
      BY <1>2, <2>3, SatHostSteps
    <3>4. CASE hosts'[r][h] = row
      BY <3>2, <3>4
    <3>5. CASE hosts'[r][h] = [row EXCEPT !.status = "timeout"]
      <4>1. hosts'[r][h].seq = row.seq /\ hosts'[r][h].log = row.log
        BY <3>3, <3>5 DEF HostRow
      <4> QED BY <3>2, <4>1 DEF WholeRow
    <3>6. ASSUME NEW u \in Upload, u.kind = "sat", h \in GetSatHosts(u.events),
                 ~overflows(u, h), matchesHost(u, h, row),
                 hosts'[r][h] = updatedSatHost(u, h, newRun(r).full, row)
          PROVE  WholeRow(hosts'[r][h])
      <4>1. newRun(r).full = TRUE
        BY <2>1 DEF newRun
      <4>2. WholeRow(updatedSatHost(u, h, TRUE, row))
        BY <3>2, <3>3, <3>6, WholeRowKept
      <4> QED BY <3>6, <4>1, <4>2
    <3> QED BY <3>3, <3>4, <3>5, <3>6
  <2> QED BY <2>2, <2>3
<1>3. HInv /\ HInv' /\ FullLogWhole /\ [Next]_vars => FullLogWhole'
  BY <1>2
<1> QED BY <1>1, <1>3, ChangesCurrent, PTL DEF Spec

-----------------------------------------------------------------------------
(* Partial responses *)

\* Part i of a log is marked, if sequence numbers are missing before it.
Marked(log, i) == Min(log[i].pieces) > lastBefore(log, i) + 1 => log[i].gap

\* What a row holds under partial responses: the output of uploads, the later
\* ones after the earlier, the last up to the row's sequence number.
PartialRow(r, h, row) ==
    /\ \A i \in DOMAIN row.log :
          /\ \E u \in Upload : /\ u.run = r /\ u.kind = "sat"
                               /\ row.log[i].pieces = satConsole(u.events, h)
          /\ row.log[i].pieces # {}
          /\ \A p \in row.log[i].pieces : p <= row.seq
          /\ Marked(row.log, i)
    /\ \A i, j \in DOMAIN row.log :
          i < j => \A a \in row.log[i].pieces, b \in row.log[j].pieces : a < b
    /\ IF row.log = <<>> THEN row.seq = NoSeq
       ELSE row.seq \in row.log[Len(row.log)].pieces

PartialRows ==
    \A r \in SatRun, h \in Host :
        (hosts[r][h] # NoRow /\ ~runs[r].full) => PartialRow(r, h, hosts[r][h])

\* The last piece of a batch of output has the batch's sequence number.
LEMMA BatchOutput ==
    ASSUME OutputInBatches, NEW u \in Upload, u.kind = "sat", NEW h,
           satSequence(u.events, h) # NoSeq
    PROVE  /\ satSequence(u.events, h) \in satConsole(u.events, h)
           /\ satConsole(u.events, h) \subseteq Nat
           /\ \A p \in satConsole(u.events, h) : p <= satSequence(u.events, h)
<1> DEFINE ev == u.events
           about == aboutHost(ev, h)
           S == {NoSeq} \cup {ev[i].sequence : i \in about}
           f == [i \in 1..Len(ev) |-> ev[i].sequence]
<1>1. /\ ev \in Seq(SatEvent) /\ Len(ev) \in Nat /\ DOMAIN ev = 1..Len(ev)
      /\ about \subseteq DOMAIN ev
  BY UploadFields DEF aboutHost
<1>2. \A i \in DOMAIN ev : ev[i].sequence \in Nat \cup {-1} /\ ev[i].console = ev[i].sequence
  <2>1. \A i \in DOMAIN ev : ev[i] \in SatEvent
    BY <1>1
  <2>2. \A i \in DOMAIN ev : ev[i].sequence \in Nat \cup {-1}
    BY <2>1 DEF SatEvent, NoSeq
  <2>3. \A i \in DOMAIN ev : ev[i].console = ev[i].sequence
    BY DEF OutputInBatches
  <2> QED BY <2>2, <2>3
<1>3. Max(S) \in S /\ \A x \in S : x <= Max(S)
  <2>1. \A i \in 1..Len(ev) : f[i] \in Int
    BY <1>1, <1>2
  <2>2. S # {} /\ S \subseteq Nat \cup {-1}
    BY <1>1, <1>2 DEF NoSeq
  <2>3. \A x \in S : x = -1 \/ \E i \in 1..Len(ev) : f[i] = x
    BY <1>1 DEF NoSeq
  <2> HIDE DEF S, f
  <2> QED BY <1>1, <2>1, <2>2, <2>3, MaxExists
<1>4. satSequence(ev, h) = Max(S)
  BY DEF satSequence
<1>5. satConsole(ev, h) = {ev[i].console : i \in about} \ {NoText}
  BY DEF satConsole
<1>6. Max(S) \in satConsole(ev, h)
  <2>1. PICK i \in about : Max(S) = ev[i].sequence
    BY <1>3, <1>4
  <2>2. Max(S) = ev[i].console /\ Max(S) # NoText
    BY <1>1, <1>2, <1>4, <2>1 DEF NoSeq, NoText
  <2> HIDE DEF S
  <2> QED BY <1>5, <2>1, <2>2
<1>7. \A p \in satConsole(ev, h) : p \in S
  BY <1>1, <1>2, <1>5
<1>8. satConsole(ev, h) \subseteq Nat
  BY UploadContents
<1> QED BY <1>3, <1>4, <1>6, <1>7, <1>8

\* The stored number is that of the last piece of output.
LEMMA LastPiece ==
    ASSUME NEW r, NEW h, NEW row \in HostRow, PartialRow(r, h, row)
    PROVE  row.seq = Max({NoSeq} \cup UNION {row.log[i].pieces : i \in 1..Len(row.log)})
<1> DEFINE S == {NoSeq} \cup UNION {row.log[i].pieces : i \in 1..Len(row.log)}
<1>1. /\ row.log \in Seq(LogPart) /\ Len(row.log) \in Nat /\ DOMAIN row.log = 1..Len(row.log)
      /\ row.seq \in NoSeq..MaxSmallint /\ row.seq \in Int /\ row.seq >= NoSeq
  BY TablesAssumption DEF HostRow, NoSeq
<1>2. \A i \in 1..Len(row.log) : row.log[i].pieces \subseteq Nat
  <2>1. \A i \in 1..Len(row.log) : row.log[i] \in LogPart
    BY <1>1
  <2> QED BY <2>1 DEF LogPart
<1>3. S \subseteq Int
  BY <1>2 DEF NoSeq
<1>4. \A x \in S : x <= row.seq
  <2>1. ASSUME NEW i \in 1..Len(row.log), NEW p \in row.log[i].pieces PROVE p <= row.seq
    BY <1>1 DEF PartialRow
  <2> QED BY <1>1, <2>1 DEF NoSeq
<1>5. row.seq \in S
  <2>1. CASE row.log = <<>>
    BY <2>1 DEF PartialRow
  <2>2. CASE row.log # <<>>
    <3>1. Len(row.log) \in 1..Len(row.log)
      BY <1>1, <2>2
    <3>2. row.seq \in row.log[Len(row.log)].pieces
      BY <2>2 DEF PartialRow
    <3> QED BY <3>1, <3>2
  <2> QED BY <2>1, <2>2
<1> HIDE DEF S
<1>6. Max(S) = row.seq
  BY <1>3, <1>4, <1>5, MaxIs
<1> QED BY <1>6 DEF S

\* Appending a batch of output keeps the log in order and marked.
LEMMA PartialRowKept ==
    ASSUME OutputInBatches, NEW r, NEW h \in Host, NEW u \in Upload, u.run = r, u.kind = "sat",
           NEW row \in HostRow, PartialRow(r, h, row), ~overflows(u, h), matchesHost(u, h, row)
    PROVE  PartialRow(r, h, updatedSatHost(u, h, FALSE, row))
<1> DEFINE s == satSequence(u.events, h)
           new == updatedSatHost(u, h, FALSE, row)
           part == NewPart(u, h, Skipped(u, h, row))
           out == satConsole(u.events, h)
           n == Len(row.log)
<1>1. /\ s \in NoSeq..MaxSmallint /\ row.seq \in NoSeq..MaxSmallint
      /\ row.log \in Seq(LogPart) /\ Skipped(u, h, row) \in BOOLEAN
      /\ s = NoSeq => new.seq = row.seq /\ new.log = row.log
      /\ s # NoSeq => /\ new.seq = s /\ row.seq < s
                      /\ new.log = Append(row.log, part)
  BY updatedSatHostRow, ZenonT(40)
<1>2. s \in Int /\ row.seq \in Int /\ n \in Nat /\ DOMAIN row.log = 1..n
  BY <1>1, TablesAssumption DEF NoSeq
<1>3. CASE s = NoSeq
  BY <1>1, <1>3 DEF PartialRow
<1>4. CASE s # NoSeq
  <2>1. s \in out /\ out \subseteq Nat /\ \A p \in out : p <= s
    BY <1>4, BatchOutput
  <2>2. part.pieces = out /\ part.gap = Skipped(u, h, row)
    BY DEF NewPart
  <2>3. part \in LogPart
    BY <1>1, <2>1 DEF LogPart, NewPart
  <2> HIDE DEF part, new, s, out
  <2>4. /\ new.seq = s /\ row.seq < s /\ DOMAIN new.log = 1..(n + 1) /\ Len(new.log) = n + 1
        /\ new.log # <<>> /\ new.log[n + 1] = part
        /\ \A i \in 1..n : new.log[i] = row.log[i]
    BY <1>1, <1>2, <1>4, <2>3
  <2>5. /\ \A i \in 1..n : /\ \E v \in Upload : /\ v.run = r /\ v.kind = "sat"
                                               /\ row.log[i].pieces = satConsole(v.events, h)
                           /\ row.log[i].pieces # {}
                           /\ \A p \in row.log[i].pieces : p <= row.seq
                           /\ Marked(row.log, i)
        /\ \A i, j \in 1..n :
              i < j => \A a \in row.log[i].pieces, b \in row.log[j].pieces : a < b
    BY <1>2 DEF PartialRow
  <2>6. \A i \in 1..n : row.log[i].pieces \subseteq Nat
    <3>1. \A i \in 1..n : row.log[i] \in LogPart
      BY <1>1, <1>2
    <3> QED BY <3>1 DEF LogPart
  <2>7. ASSUME NEW i \in 1..n PROVE Marked(new.log, i)
    <3>1. {new.log[j].pieces : j \in 1..(i - 1)} = {row.log[j].pieces : j \in 1..(i - 1)}
      <4>1. \A j \in 1..(i - 1) : new.log[j] = row.log[j]
        BY <1>2, <2>4
      <4> QED BY <4>1
    <3>2. lastBefore(new.log, i) = lastBefore(row.log, i)
      BY <3>1 DEF lastBefore
    <3>3. new.log[i] = row.log[i] /\ Marked(row.log, i)
      BY <2>4, <2>5
    <3> QED BY <3>2, <3>3 DEF Marked
  <2>8. Marked(new.log, n + 1)
    <3>1. lastBefore(new.log, n + 1) = row.seq
      <4>1. {new.log[j].pieces : j \in 1..((n + 1) - 1)} = {row.log[j].pieces : j \in 1..n}
        <5>1. (n + 1) - 1 = n
          BY <1>2
        <5> QED BY <2>4, <5>1
      <4>2. row.seq = Max({NoSeq} \cup UNION {row.log[j].pieces : j \in 1..n})
        BY LastPiece
      <4> QED BY <4>1, <4>2 DEF lastBefore
    <3>2. Min(out) \in out
      <4>1. PICK m \in out : \A p \in out : m <= p
        BY <2>1, Least
      <4> QED BY <4>1 DEF Min
    <3>3. Min(out) \in Int /\ Min(out) <= s
      <4>1. \A p \in out : p \in Int /\ p <= s
        BY <2>1
      <4> QED BY <3>2, <4>1, Zenon
    <3>4. Min(out) > row.seq + 1 => Skipped(u, h, row)
      <4> SUFFICES ASSUME Min(out) > row.seq + 1 PROVE Skipped(u, h, row)
        OBVIOUS
      <4>1. s > row.seq + 1 /\ row.seq + 1 < s
        BY <1>2, <3>3
      <4>2. row.seq = NoSeq => s > 0
        BY <1>2, <4>1 DEF NoSeq
      <4> QED BY <4>1, <4>2 DEF Skipped, s
    <3> QED BY <2>2, <2>4, <3>1, <3>4 DEF Marked
  <2>9. ASSUME NEW i \in 1..n, NEW a \in row.log[i].pieces, NEW b \in out PROVE a < b
    <3>1. PICK v \in Upload : /\ v.run = r /\ v.kind = "sat"
                              /\ row.log[i].pieces = satConsole(v.events, h)
      BY <2>5
    <3> DEFINE old == row.log[i].pieces
    <3>2. old = out \/ (\A x \in old, y \in out : x < y) \/ (\A x \in old, y \in out : y < x)
      BY <3>1 DEF OutputInBatches, out
    <3>3. a \in Nat /\ a <= row.seq /\ (\A x \in old : x <= row.seq)
      BY <2>5, <2>6
    <3>4. old # out
      BY <1>2, <2>1, <2>4, <3>3
    <3>5. ~(\A x \in old, y \in out : y < x)
      <4>1. ~(s < a)
        BY <1>2, <2>4, <3>3
      <4> QED BY <2>1, <4>1
    <3> QED BY <3>2, <3>4, <3>5
  <2>10. ASSUME NEW i \in 1..(n + 1)
         PROVE  /\ \E v \in Upload : /\ v.run = r /\ v.kind = "sat"
                                     /\ new.log[i].pieces = satConsole(v.events, h)
                /\ new.log[i].pieces # {}
                /\ \A p \in new.log[i].pieces : p <= new.seq
                /\ Marked(new.log, i)
    <3>1. CASE i = n + 1
      BY <2>1, <2>2, <2>4, <2>8, <3>1 DEF out
    <3>2. CASE i # n + 1
      <4>1. i \in 1..n
        BY <1>2, <3>2
      <4>2. \A p \in row.log[i].pieces : p <= s
        BY <1>2, <2>4, <2>5, <2>6, <4>1
      <4> QED BY <2>4, <2>5, <2>7, <4>1, <4>2
    <3> QED BY <3>1, <3>2
  <2>11. ASSUME NEW i \in 1..(n + 1), NEW j \in 1..(n + 1), i < j,
                NEW a \in new.log[i].pieces, NEW b \in new.log[j].pieces
         PROVE  a < b
    <3>1. i \in 1..n
      BY <1>2, <2>11
    <3>2. CASE j = n + 1
      BY <2>2, <2>4, <2>9, <2>11, <3>1, <3>2
    <3>3. CASE j # n + 1
      <4>1. j \in 1..n
        BY <1>2, <3>3
      <4> QED BY <2>4, <2>5, <2>11, <3>1, <4>1
    <3> QED BY <3>2, <3>3
  <2>12. new.seq \in new.log[Len(new.log)].pieces
    BY <2>1, <2>2, <2>4
  <2>13. PartialRow(r, h, new)
    BY <2>4, <2>10, <2>11, <2>12 DEF PartialRow
  <2> QED BY <2>13 DEF new
<1> QED BY <1>3, <1>4

\* With partial responses every row of a Satellite host is a log of batches in
\* order, however they were duplicated, lost and reordered on the way.
LEMMA PartialRowsAlways ==
    ASSUME OutputInBatches
    PROVE  Spec => [](HInv /\ PartialRows)
<1>1. Init => PartialRows
  BY TablesAssumption DEF Init, TablesInit, NoHostRows, PartialRows
<1>2. ASSUME HInv, HInv', PartialRows, [Next]_vars PROVE PartialRows'
  <2> SUFFICES ASSUME NEW r \in SatRun, NEW h \in Host, hosts'[r][h] # NoRow, ~runs'[r].full
               PROVE  PartialRow(r, h, hosts'[r][h])
    BY DEF PartialRows, PartialRow, Marked, lastBefore
  <2>1. ~newRun(r).full
    BY <1>2, ModeFixed
  <2>2. CASE hosts[r][h] = NoRow
    <3>1. hosts'[r][h].log = <<>> /\ hosts'[r][h].seq = NoSeq
      BY <1>2, <2>2, SatHostAppears DEF newHostRun
    <3> QED BY <3>1 DEF PartialRow
  <2>3. CASE hosts[r][h] # NoRow
    <3> DEFINE row == hosts[r][h]
    <3>1. ~runs[r].full
      BY <1>2, <2>1, <2>3, ModeFixed
    <3>2. PartialRow(r, h, row)
      BY <1>2, <2>3, <3>1 DEF PartialRows
    <3>3. /\ row \in HostRow
          /\ \/ hosts'[r][h] = row
             \/ hosts'[r][h] = [row EXCEPT !.status = "timeout"]
             \/ \E u \in Upload :
                    /\ u.run = r /\ u.kind = "sat" /\ ~overflows(u, h) /\ matchesHost(u, h, row)
                    /\ hosts'[r][h] = updatedSatHost(u, h, newRun(r).full, row)
      BY <1>2, <2>3, SatHostSteps
    <3>4. CASE hosts'[r][h] = row
      BY <3>2, <3>4
    <3>5. CASE hosts'[r][h] = [row EXCEPT !.status = "timeout"]
      <4>1. hosts'[r][h].seq = row.seq /\ hosts'[r][h].log = row.log
        BY <3>3, <3>5 DEF HostRow
      <4> QED BY <3>2, <4>1 DEF PartialRow
    <3>6. ASSUME NEW u \in Upload, u.run = r, u.kind = "sat",
                 ~overflows(u, h), matchesHost(u, h, row),
                 hosts'[r][h] = updatedSatHost(u, h, newRun(r).full, row)
          PROVE  PartialRow(r, h, hosts'[r][h])
      <4>1. newRun(r).full = FALSE
        BY <2>1 DEF newRun
      <4>2. PartialRow(r, h, updatedSatHost(u, h, FALSE, row))
        BY <3>2, <3>3, <3>6, PartialRowKept
      <4> QED BY <3>6, <4>1, <4>2
    <3> QED BY <3>3, <3>4, <3>5, <3>6
  <2> QED BY <2>2, <2>3
<1>3. HInv /\ HInv' /\ PartialRows /\ [Next]_vars => PartialRows'
  BY <1>2
<1> QED BY <1>1, <1>3, ChangesCurrent, PTL DEF Spec

\* The output of a host is in order, each piece once, and ends with the stored
\* sequence number, for any number of consumers, hosts and batches.
THEOREM OutputInOrder ==
    ASSUME OutputInBatches
    PROVE  Spec => []LogInOrder
<1>1. HInv /\ PartialRows => LogInOrder
  <2> SUFFICES ASSUME HInv, PartialRows, NEW r \in SatRun, NEW h \in Host,
                      hosts[r][h] # NoRow, ~runs[r].full
               PROVE  LET log == hosts[r][h].log
                          all == UNION {log[i].pieces : i \in DOMAIN log}
                      IN  /\ \A i, j \in DOMAIN log :
                                i < j => \A a \in log[i].pieces, b \in log[j].pieces : a < b
                          /\ hosts[r][h].seq = Max({NoSeq} \cup all)
    BY DEF LogInOrder
  <2> DEFINE row == hosts[r][h]
  <2>1. PartialRow(r, h, row) /\ r \in Run
    BY TablesAssumption DEF PartialRows
  <2>2. row \in HostRow
    BY <2>1 DEF HInv, IInv, TypeOK, TablesTypeOK
  <2>3. row.seq = Max({NoSeq} \cup UNION {row.log[i].pieces : i \in 1..Len(row.log)})
    BY <2>1, <2>2, LastPiece
  <2>4. DOMAIN row.log = 1..Len(row.log)
    BY <2>2 DEF HostRow
  <2>5. \A i, j \in DOMAIN row.log :
           i < j => \A a \in row.log[i].pieces, b \in row.log[j].pieces : a < b
    BY <2>1 DEF PartialRow
  <2>6. row.seq = Max({NoSeq} \cup UNION {row.log[i].pieces : i \in DOMAIN row.log})
    BY <2>3, <2>4
  <2> QED BY <2>5, <2>6
<1> QED BY <1>1, PartialRowsAlways, PTL

\* Missing output is always marked as missing.
THEOREM GapsMarked ==
    ASSUME OutputInBatches
    PROVE  Spec => []MissedIsMarked
<1>1. PartialRows => MissedIsMarked
  BY DEF PartialRows, PartialRow, Marked, MissedIsMarked
<1> QED BY <1>1, PartialRowsAlways, PTL

\* No transaction takes back what a later one has stored in a host's row.
THEOREM HostsOnlyForward ==
    ASSUME CumulativeUploads
    PROVE  Spec => HostsForward
BY VerdictKept, OutputForward DEF HostsForward
=============================================================================
