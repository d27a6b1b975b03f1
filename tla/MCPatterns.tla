------------------------------- MODULE MCPatterns -------------------------------
(* Small instances of Patterns for TLC. *)
EXTENDS Patterns, TLC

CONSTANTS a1, a2, p, q, s, t

Symmetry == Permutations(Agent) \cup Permutations(Path) \cup Permutations(Shape)
===============================================================================
