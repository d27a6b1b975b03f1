-------------------------------- MODULE MCVault --------------------------------
(* Vault on small sets, for TLC.                                           *)
EXTENDS Vault, TLC

\* Paths, values and metadata are only compared for equality.
Symmetry ==
    Permutations(Path) \cup Permutations(Value) \cup Permutations(Metadata)
=============================================================================
