------------------------------ MODULE MCAppRoles ------------------------------
(* AppRoles, with the history Lockout adds, on small sets for TLC.         *)
EXTENDS Lockout
=============================================================================
