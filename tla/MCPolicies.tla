------------------------------- MODULE MCPolicies -------------------------------
(* Small instances of Policies for TLC. *)
EXTENDS Policies, TLC

CONSTANTS c1, c2, a, b, admin, full, x

\* One caller administers by the built-in policy, the other by a stored one.
Tokens == (c1 :> {Admin}) @@ (c2 :> {a})
===============================================================================
