----------------------------- MODULE AccessWindow -----------------------------
(***************************************************************************)
(* What the approval gate promises about one lease id: it is asked for or  *)
(* granted once, its window opens at most once, and once the window or the *)
(* request is closed (by revocation, denial, expiry or deletion) it never  *)
(* opens again.  The gate releases a gated secret only through windows     *)
(* that are open in that step.  It is not the only door: there are others  *)
(* that release without looking for a window.                              *)
(***************************************************************************)
CONSTANT LeaseId

VARIABLES
    phase,      \* of each lease id
    released    \* by which door the last step released a gated secret, if it did

Phase == {"none", "asked", "open", "closed"}

Released == [door : {"none", "window", "bypass"}, through : SUBSET LeaseId]

TypeOK ==
    /\ phase \in [LeaseId -> Phase]
    /\ released \in Released

Nothing == [door |-> "none", through |-> {}]

Init ==
    /\ phase = [l \in LeaseId |-> "none"]
    /\ released = Nothing

Move(S, from, to) ==
    /\ \A l \in S : phase[l] \in from
    /\ phase' = [l \in LeaseId |-> IF l \in S THEN to ELSE phase[l]]

Ask(l) == Move({l}, {"none"}, "asked") /\ released' = Nothing

Open(S) == Move(S, {"none", "asked"}, "open") /\ released' = Nothing

\* The gate may open windows in the step that goes through them.
Use(S, W) ==
    /\ Move(S, {"none", "asked"}, "open")
    /\ W # {}
    /\ \A l \in W : phase'[l] = "open"
    /\ released' = [door |-> "window", through |-> W]

Bypass ==
    /\ released' = [door |-> "bypass", through |-> {}]
    /\ UNCHANGED phase

Close(S) == Move(S, {"asked", "open"}, "closed") /\ released' = Nothing

Next ==
    \/ \E l \in LeaseId : Ask(l)
    \/ \E S \in SUBSET LeaseId :
          \/ Open(S)
          \/ \E W \in SUBSET LeaseId : Use(S, W)
          \/ Close(S)
    \/ Bypass

Spec == Init /\ [][Next]_<<phase, released>>
=============================================================================
