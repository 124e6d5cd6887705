---------------------------- MODULE MCSatellite ----------------------------
(***************************************************************************)
(* One Satellite run on two hosts with partial responses, and the uploads  *)
(* of MCSatUploads.                                                        *)
(***************************************************************************)
EXTENDS RunLifecycle, MCSatUploads, TLC

CONSTANTS r1, c1, c2

MCRun == {r1}
OneConsumer == {c1}
TwoConsumers == {c1, c2}
MCRequestHosts == [r \in MCRun |-> {"h1", "h2"}]

PartialUploads == {First(r1), Batch(r1), Last(r1), Canceled(r1)}
FaultyUploads == {First(r1), Last(r1), Overflow(r1)}

\* What LogInOrder and MissedIsMarked ask of Satellite.
ASSUME PartialAssumption == OutputInBatches

ConsumerSymmetry == Permutations(TwoConsumers)
=============================================================================
