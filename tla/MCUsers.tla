-------------------------------- MODULE MCUsers --------------------------------
(* The accounts on small sets, for TLC.                                    *)
EXTENDS Users, TLC

Symmetry == Permutations(Call)
=============================================================================
