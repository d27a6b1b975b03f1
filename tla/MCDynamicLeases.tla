---------------------------- MODULE MCDynamicLeases ----------------------------
(* DynamicLeases on small sets, for TLC.                                   *)
EXTENDS DynamicLeases, TLC

Symmetry == Permutations(LeaseId) \cup Permutations(Backend) \cup Permutations(Reaper)
=============================================================================
