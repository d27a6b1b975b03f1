-------------------------------- MODULE Custody --------------------------------
(***************************************************************************)
(* What dynamic secrets promise about one credential: it is created once,  *)
(* for a checkout that asked for it; it is released once, when its lease   *)
(* is due, and only then is the lease closed.  The world around the server *)
(* may disturb a lease at any time (a provider that fails, a crash in      *)
(* mid-call, a config changed under it): from then on nothing is promised. *)
(***************************************************************************)
CONSTANT LeaseId

VARIABLES
    custody,    \* where the credential of each lease is
    due         \* leases that are over, or that somebody asked to revoke

Custody == {"none", "asked", "held", "released", "closed", "adrift"}

TypeOK ==
    /\ custody \in [LeaseId -> Custody]
    /\ due \subseteq LeaseId

Init ==
    /\ custody = [l \in LeaseId |-> "none"]
    /\ due = {}

Pass(l, from, to) ==
    /\ custody[l] = from
    /\ custody' = [custody EXCEPT ![l] = to]

Ask(l) == Pass(l, "none", "asked")

Create(l) == Pass(l, "asked", "held")

Release(l) == l \in due /\ Pass(l, "held", "released")

Close(l) == Pass(l, "released", "closed")

\* Disturb({}) is a step of the clock, or of the calls, that moves only due.
Disturb(S) == custody' = [l \in LeaseId |-> IF l \in S THEN "adrift" ELSE custody[l]]

Next ==
    /\ \/ \E l \in LeaseId : Ask(l) \/ Create(l) \/ Release(l) \/ Close(l)
       \/ \E S \in SUBSET LeaseId : Disturb(S)
    /\ due' \subseteq LeaseId

Spec == Init /\ [][Next]_<<custody, due>>
=============================================================================
