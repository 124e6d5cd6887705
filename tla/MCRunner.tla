------------------------------ MODULE MCRunner ------------------------------
(***************************************************************************)
(* Two directly connected recipients.  Run r1 fails on one of its hosts: a *)
(* partial and a final upload, and a message that cannot be read; its      *)
(* request names a host.  Run r2 succeeds without involving any host.      *)
(***************************************************************************)
EXTENDS RunLifecycle, TLC

CONSTANTS r1, r2, c1, c2

ev(e, h, n) == [event |-> e, host |-> h, stdout |-> n]
runnerUpload(r, evs) == [run |-> r, kind |-> "runner", events |-> evs]

Partial == <<ev("executor_on_start", Nil, NoText), ev("runner_on_ok", LocalHost, 1)>>
Final == Partial \o <<ev("runner_on_failed", "h1", 2), ev("playbook_on_stats", Nil, NoText)>>
NoHosts == <<ev("executor_on_start", Nil, NoText), ev("playbook_on_stats", Nil, 1)>>

MCRun == {r1, r2}
MCConsumer == {c1, c2}
MCRequestHosts == [r \in MCRun |-> IF r = r1 THEN {"h1"} ELSE {}]
MCUpload == {runnerUpload(r1, Partial), runnerUpload(r1, Final),
             [run |-> r1, kind |-> "unreadable", events |-> <<>>],
             runnerUpload(r2, NoHosts)}

\* What RunAndHostsAgree and HostVerdictNotTimedOut ask of devices.
ASSUME DeviceAssumption == CumulativeUploads

ConsumerSymmetry == Permutations(MCConsumer)
=============================================================================
