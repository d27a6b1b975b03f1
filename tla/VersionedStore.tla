----------------------------- MODULE VersionedStore -----------------------------
(***************************************************************************)
(* What the vault promises of its secrets: each path has a numbered        *)
(* history that only grows, one version at a time and without a gap, and   *)
(* that is only ever removed as a whole.  Which of the versions are        *)
(* current or archived, who wrote them and what key wraps them is not      *)
(* visible here, so that a key rotation or a restart changes nothing.      *)
(***************************************************************************)
EXTENDS Naturals

CONSTANTS
    Path,
    Version,    \* 1 .. the last version there can be
    Entry,      \* what a version holds
    None        \* no version

VARIABLE history    \* of each path, by version

Nothing == [n \in Version |-> None]

Init == history = [p \in Path |-> Nothing]

Write(p, n, entry) ==
    /\ \A m \in Version : history[p][m] # None <=> m < n
    /\ history' = [history EXCEPT ![p][n] = entry]

Remove(p) == history' = [history EXCEPT ![p] = Nothing]

Next ==
    \E p \in Path :
        \/ \E n \in Version, entry \in Entry : Write(p, n, entry)
        \/ Remove(p)

Spec == Init /\ [][Next]_history
=================================================================================
