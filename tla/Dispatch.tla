------------------------------- MODULE Dispatch -------------------------------
(***************************************************************************)
(* Requesting a run: ProcessRun of internal/api/dispatch/impl.go.          *)
(*                                                                         *)
(* A request takes a token from the rate limiter, asks cloud connector to  *)
(* deliver the work to the recipient and only then records the run.        *)
(* api[r] is how far the request for run r has come, in the end its        *)
(* outcome; delivered is the set of runs whose work reached the recipient. *)
(***************************************************************************)
EXTENDS RunTables

VARIABLES api, delivered

dispatchVars == <<api, delivered>>

Outcome == {"created", "recipient_not_found", "error"}

DispatchInit == api = [r \in Run |-> "wait"] /\ delivered = {}

DispatchTypeOK ==
    /\ api \in [Run -> {"wait", "send", "create"} \cup Outcome]
    /\ delivered \subseteq Run

\* rateLimiter.Wait: a token, or an error when the request's context ends.
TakeToken(r) ==
    /\ api[r] = "wait"
    /\ \E next \in {"send", "error"} : api' = [api EXCEPT ![r] = next]
    /\ UNCHANGED <<delivered, tables>>

\* SendCloudConnectorRequest: accepted, not found, or an error, which does not
\* say whether the request arrived.
SendRequest(r) ==
    /\ api[r] = "send"
    /\ \/ /\ api' = [api EXCEPT ![r] = "create"]
          /\ delivered' = delivered \cup {r}
       \/ /\ api' = [api EXCEPT ![r] = "recipient_not_found"]
          /\ UNCHANGED delivered
       \/ /\ api' = [api EXCEPT ![r] = "error"]
          /\ delivered' \in {delivered, delivered \cup {r}}
    /\ UNCHANGED tables

\* The transaction that inserts the run and the hosts of the request.
CreateRun(r) ==
    /\ api[r] = "create"
    /\ runs' = [runs EXCEPT ![r] = newRun(r)]
    /\ hosts' = [hosts EXCEPT ![r] =
                    [h \in Host |-> IF h \in RequestHosts[r] THEN newHostRun ELSE NoRow]]
    /\ api' = [api EXCEPT ![r] = "created"]
    /\ UNCHANGED <<wroteRuns, wroteHosts, expired, delivered>>

\* The same transaction failing, after the work was sent.
CreateFails(r) ==
    /\ api[r] = "create"
    /\ api' = [api EXCEPT ![r] = "error"]
    /\ UNCHANGED <<delivered, tables>>

ProcessRun(r) == TakeToken(r) \/ SendRequest(r) \/ CreateRun(r) \/ CreateFails(r)
=============================================================================
