------------------------------- MODULE MCFull -------------------------------
(***************************************************************************)
(* Full responses: the two directly connected recipients of MCRunner, or   *)
(* the Satellite run r3 with the full uploads of MCSatUploads.  The two    *)
(* kinds never touch the same rows, so they are not requested together.    *)
(***************************************************************************)
EXTENDS MCRunner, MCSatUploads

CONSTANT r3

FullRun == MCRun \cup {r3}
FullSatRun == {r3}
FullRequestHosts == [r \in FullRun |-> IF r = r3 THEN {"h1", "h2"} ELSE MCRequestHosts[r]]
FullUpload == MCUpload \cup FullUploads(r3)

\* What FullLogWhole asks of Satellite.
ASSUME FullAssumption == WholeOutput

OneKind == api[r3] = "wait" \/ \A r \in MCRun : api[r] = "wait"
FullSpec == Init /\ [][Next /\ OneKind']_vars
=============================================================================
