-------------------------------- MODULE MCProxy --------------------------------
(* Small instances of Proxy for TLC. *)
EXTENDS Proxy, TLC

Symmetry == Permutations(Call)

\* A window that is over counts for nothing, whatever its counter still holds: states that
\* differ in that only have the same steps.
Seen == <<now, limit, [b \in Bucket |-> Live(b)], setting, cached, call, sent, lost, answer>>

\* A minute of one tick, an hour of two.
MinuteAndHour == [minute |-> 1, hour |-> 2]
MinuteOnly == [minute |-> 1]
===============================================================================
