------------------------------ MODULE RunRecord ------------------------------
(***************************************************************************)
(* What the dispatcher promises about the status of a run, seen from       *)
(* outside: by an API client that polls it or a service that follows the   *)
(* stream of changes of the runs table.                                    *)
(*                                                                         *)
(* A run is recorded as running.  A report gives an open run (one that is  *)
(* not success or failure) any status a recipient can report, also a run   *)
(* that timed out or was canceled.  From time to time the runs that are    *)
(* running are picked, and later those picked, and no others, time out     *)
(* together: also one that a report closed in between.                     *)
(***************************************************************************)
CONSTANT Run

VARIABLES status, picked

recordVars == <<status, picked>>

Open(r) == status[r] \in {"running", "timeout", "canceled"}

Init == status = [r \in Run |-> "none"] /\ picked = {}

Record(r) ==
    /\ status[r] = "none"
    /\ status' = [status EXCEPT ![r] = "running"]
    /\ UNCHANGED picked

Report(r) ==
    /\ Open(r)
    /\ \E s \in {"running", "success", "failure", "canceled"} :
          status' = [status EXCEPT ![r] = s]
    /\ UNCHANGED picked

Pick ==
    /\ picked = {}
    /\ picked' \in SUBSET {r \in Run : status[r] = "running"}
    /\ UNCHANGED status

TimeOut ==
    /\ status' = [r \in Run |-> IF r \in picked THEN "timeout" ELSE status[r]]
    /\ picked' = {}

GiveUp == picked' = {} /\ UNCHANGED status

Next == (\E r \in Run : Record(r) \/ Report(r)) \/ Pick \/ TimeOut \/ GiveUp

Spec == Init /\ [][Next]_recordVars
=============================================================================
