------------------------------ MODULE RunTables ------------------------------
(***************************************************************************)
(* The runs and run_hosts tables and the transactions on them.             *)
(*                                                                         *)
(* runs and hosts hold the committed rows.  A transaction is a response    *)
(* consumer handling a message, or the clean job.  Its uncommitted rows    *)
(* are in wroteRuns and wroteHosts, where NoRow means "not written"; a     *)
(* written row is locked until the transaction ends.  This is PostgreSQL's *)
(* default READ COMMITTED: each statement sees the committed rows of its   *)
(* own moment plus the transaction's own writes, and a writer waits for    *)
(* the lock and then works on the latest committed row.                    *)
(***************************************************************************)
EXTENDS PlaybookEvents

CONSTANTS Run,           \* runs that can be requested
          SatRun,        \* those with a sat_id: Satellite runs
          RequestHosts,  \* the hosts each request lists
          ResponseFull,  \* configuration: satellite.response.full
          Upload,        \* messages a recipient can send
          Consumer,      \* response consumer processes
          MaxSmallint,   \* largest value of run_hosts.sat_sequence
          NoRow

Clean == "clean"
Tx == Consumer \cup {Clean}

UploadType ==
    [run : Run, kind : {"runner"}, events : Seq(RunnerEvent)]
    \cup [run : Run, kind : {"sat"}, events : Seq(SatEvent)]
    \cup [run : Run, kind : {"unreadable"}, events : {<<>>}]

LogPart == [gap : BOOLEAN, pieces : SUBSET Nat]

RunRow == [full : BOOLEAN, status : RunStatus,
           events : {<<>>} \cup {u.events : u \in Upload}]
HostRow == [status : RunStatus, seq : NoSeq..MaxSmallint, log : Seq(LogPart)]

ASSUME TablesAssumption ==
    /\ SatRun \subseteq Run
    /\ RequestHosts \in [Run -> SUBSET Host]
    /\ ResponseFull \in BOOLEAN
    /\ Upload \subseteq UploadType
    /\ \A u \in Upload : u.kind # "unreadable" => (u.kind = "sat" <=> u.run \in SatRun)
    /\ Clean \notin Consumer
    /\ MaxSmallint \in Nat
    /\ NoRow \notin RunRow /\ NoRow \notin HostRow

VARIABLES runs,        \* committed rows of runs, by run
          hosts,       \* committed rows of run_hosts, by run and host
          wroteRuns,   \* rows of runs a transaction has written
          wroteHosts,  \* rows of run_hosts a transaction has written
          expired      \* runs with created_at + timeout <= NOW()

tables == <<runs, hosts, wroteRuns, wroteHosts, expired>>

NoHostRows == [h \in Host |-> NoRow]

TablesInit ==
    /\ runs = [r \in Run |-> NoRow]
    /\ hosts = [r \in Run |-> NoHostRows]
    /\ wroteRuns = [t \in Tx |-> [r \in Run |-> NoRow]]
    /\ wroteHosts = [t \in Tx |-> [r \in Run |-> NoHostRows]]
    /\ expired = {}

TablesTypeOK ==
    /\ runs \in [Run -> RunRow \cup {NoRow}]
    /\ hosts \in [Run -> [Host -> HostRow \cup {NoRow}]]
    /\ wroteRuns \in [Tx -> [Run -> RunRow \cup {NoRow}]]
    /\ wroteHosts \in [Tx -> [Run -> [Host -> HostRow \cup {NoRow}]]]
    /\ expired \subseteq Run

-----------------------------------------------------------------------------
(* Transactions *)

\* Another transaction holds the row.
runLocked(t, r) == \E u \in Tx \ {t} : wroteRuns[u][r] # NoRow
hostLocked(t, r, h) == \E u \in Tx \ {t} : wroteHosts[u][r][h] # NoRow

forgetWrites(t) ==
    /\ wroteRuns' = [wroteRuns EXCEPT ![t] = [r \in Run |-> NoRow]]
    /\ wroteHosts' = [wroteHosts EXCEPT ![t] = [r \in Run |-> NoHostRows]]

commit(t) ==
    /\ runs' = [r \in Run |-> IF wroteRuns[t][r] # NoRow THEN wroteRuns[t][r] ELSE runs[r]]
    /\ hosts' = [r \in Run |-> [h \in Host |->
                    IF wroteHosts[t][r][h] # NoRow THEN wroteHosts[t][r][h]
                    ELSE hosts[r][h]]]
    /\ forgetWrites(t)
    /\ UNCHANGED expired

rollback(t) == forgetWrites(t) /\ UNCHANGED <<runs, hosts, expired>>

-----------------------------------------------------------------------------
(* Rows *)

\* dispatch/db.go: a run starts running, and so do the hosts of its request.
newRun(r) == [full |-> r \in SatRun => ResponseFull, status |-> "running", events |-> <<>>]
newHostRun == [status |-> "running", seq |-> NoSeq, log |-> <<>>]

\* Time passes: a recorded run reaches its timeout.
Expire(r) ==
    /\ runs[r] # NoRow
    /\ r \notin expired
    /\ expired' = expired \cup {r}
    /\ UNCHANGED <<runs, hosts, wroteRuns, wroteHosts>>
=============================================================================
