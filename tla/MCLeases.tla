------------------------------- MODULE MCLeases -------------------------------
(* Leases on small sets, for TLC.                                          *)
EXTENDS Leases, TLC

\* Identities, paths and lease ids are only compared for equality.
Symmetry == Permutations(Identity) \cup Permutations(Path) \cup Permutations(LeaseId)
=============================================================================
