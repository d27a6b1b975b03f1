-------------------------------- MODULE Patterns --------------------------------
(***************************************************************************)
(* What the server learns from proxied calls: the proxy_patterns table, a  *)
(* row for each secret and request shape (method and URL template) that    *)
(* has worked once, with its last outcomes, totals and agents; and what it *)
(* offers callers from it.  Recording, suggesting, pinning and deleting    *)
(* have no await, so that each is a step, and so is an answer that records *)
(* and then suggests.  A call whose answer never arrived, broke off or was *)
(* too long, or that could not be audited, is offered patterns and teaches *)
(* none; an error while recording is swallowed.                            *)
(*                                                                         *)
(* Header names and body schemas follow a row's calls and decide nothing;  *)
(* they are left out, and so is the normalisation that maps URLs to        *)
(* templates.  `heard` is history.                                         *)
(***************************************************************************)
EXTENDS Integers, Sequences, FiniteSets

CONSTANTS
    Agent,          \* identities
    Path,           \* secrets' paths
    Shape,          \* a method and a URL template
    MaxOutcomes,    \* MAX_OUTCOMES
    MaxSuggest,     \* suggestions in an answer
    MaxCalls,       \* bound on the calls recorded in a row
    None            \* no row

\* An outcome and a row of proxy_patterns.
Heard == [agent : Agent, success : BOOLEAN]
Row == [recent : Seq(Heard), agents : SUBSET Agent, successes : Nat \ {0}, failures : Nat,
        pinned : BOOLEAN]

ASSUME ConstantsOK ==
    /\ {MaxOutcomes, MaxSuggest} \subseteq Nat \ {0}
    /\ MaxCalls \in Nat
    /\ None \notin Row

VARIABLES
    pattern,        \* the proxy_patterns table by secret and shape
    heard,          \* history: the calls recorded in each row
    answer          \* history: the last answer to a proxied call, numbered 0 or 1 in turn

vars == <<pattern, heard, answer>>

Key == Path \X Shape
Stored == {k \in Key : pattern[k] # None}

\* How a forwarded call can end: with a status below 300, below 400 or above, with no answer or
\* a broken one, or with a body over the cap.
Outcome == {"success", "redirect", "error", "lost", "oversized"}
Answered == {"success", "redirect", "error"}

Init ==
    /\ pattern = [k \in Key |-> None]
    /\ heard = [k \in Key |-> <<>>]
    /\ answer = [number |-> 0, outcome |-> "success", path |-> None, offered |-> {}]
-------------------------------------------------------------------------------
(* Confidence and what is offered by it, in a given table. *)

Successes(outcomes) == Cardinality({i \in DOMAIN outcomes : outcomes[i].success})

\* computeConfidence of one row above that of another, as fractions.
Surer(r, s) ==
    Successes(r.recent) * Len(s.recent) > Successes(s.recent) * Len(r.recent)

Proven(r) == 2 * Successes(r.recent) > Len(r.recent)

RowsOf(table, p) == {k \in Key : k[1] = p /\ table[k] # None}

Candidates(table, p) == {k \in RowsOf(table, p) : table[k].pinned \/ Proven(table[k])}

\* suggest: the surest few, ties in any order.
Suggest(table, p) ==
    LET good == Candidates(table, p)
        few  == IF Cardinality(good) < MaxSuggest THEN Cardinality(good) ELSE MaxSuggest
    IN  {chosen \in SUBSET good :
            /\ Cardinality(chosen) = few
            /\ \A k \in chosen, l \in good \ chosen : ~Surer(table[l], table[k])}

\* summaryByPath: pinned first, then by confidence, then by successes.
Precedes(r, s) ==
    \/ r.pinned /\ ~s.pinned
    \/ r.pinned = s.pinned /\ Surer(r, s)
    \/ r.pinned = s.pinned /\ ~Surer(s, r) /\ r.successes > s.successes

Top(table, p) ==
    {k \in RowsOf(table, p) : \A l \in RowsOf(table, p) : ~Precedes(table[l], table[k])}
-------------------------------------------------------------------------------
(* Recording a call. *)

\* Mutant: the window is one too long.
Pushed_OneMore(outcomes, o) ==
    IF Len(outcomes) > MaxOutcomes THEN Tail(Append(outcomes, o)) ELSE Append(outcomes, o)

Pushed(outcomes, o) ==
    IF Len(outcomes) >= MaxOutcomes THEN Tail(Append(outcomes, o)) ELSE Append(outcomes, o)

\* Mutant: the totals are counted in the window.
Updated_Recount(row, o) ==
    LET recent == Pushed(row.recent, o)
    IN  [row EXCEPT !.recent = recent,
                    !.agents = @ \cup {o.agent},
                    !.successes = Successes(recent),
                    !.failures = Len(recent) - Successes(recent)]

Updated(row, o) ==
    [recent |-> Pushed(row.recent, o),
     agents |-> row.agents \cup {o.agent},
     successes |-> IF o.success THEN row.successes + 1 ELSE row.successes,
     failures |-> IF o.success THEN row.failures ELSE row.failures + 1,
     pinned |-> row.pinned]

Learned(o) ==
    [recent |-> <<o>>, agents |-> {o.agent}, successes |-> 1, failures |-> 0, pinned |-> FALSE]

\* record, for the secrets whose rows could be written: an error ends its loop, and the call
\* is answered all the same.  A call that fails teaches nothing new.
Record(a, paths, shape, success) ==
    LET o == [agent |-> a, success |-> success]
        touched == {k \in paths \X {shape} : k \in Stored \/ success}
    IN  /\ \A k \in touched : Len(heard[k]) < MaxCalls
        /\ pattern' = [k \in Key |->
                        IF k \notin touched THEN pattern[k]
                        ELSE IF pattern[k] = None THEN Learned(o) ELSE Updated(pattern[k], o)]
        /\ heard' = [k \in Key |-> IF k \in touched THEN Append(heard[k], o) ELSE heard[k]]

\* Mutant: what is suggested was looked up before the call was recorded.
Offer_Before(p, outcome) ==
    \E offered \in Suggest(pattern, p) :
        answer' = [number |-> 1 - answer.number, outcome |-> outcome, path |-> p,
                   offered |-> IF outcome \in {"error", "lost"} THEN offered ELSE {}]

\* What POST /v1/proxy answers a call whose first secret is p, by the table as it is then:
\* its own outcome is in it only if it was recorded.
Offer(p, outcome) ==
    \E offered \in Suggest(pattern', p) :
        answer' = [number |-> 1 - answer.number, outcome |-> outcome, path |-> p,
                   offered |-> IF outcome \in {"error", "lost"} THEN offered ELSE {}]

\* A call over HTTP that its upstream answered: it is recorded for those of its secrets whose
\* rows can be written, and is answered as a lost call if the look-up after that fails.
ForwardHttp(a, p, written, shape, outcome) ==
    /\ outcome \in Answered
    /\ Record(a, written, shape, outcome = "success")
    /\ Offer(p, outcome) \/ Offer(p, "lost")

\* A call over HTTP that its upstream did not answer, or that ends in the catch block.
LoseHttp(p, outcome) ==
    /\ outcome \notin Answered
    /\ UNCHANGED <<pattern, heard>>
    /\ Offer(p, outcome)

\* gatehouse_proxy has the same upstream call, and neither records nor suggests.
ForwardMcp(p, outcome) ==
    /\ answer' = [number |-> 1 - answer.number, outcome |-> outcome, path |-> p, offered |-> {}]
    /\ UNCHANGED <<pattern, heard>>

\* DELETE /v1/proxy/patterns/:id
Delete(k) ==
    /\ k \in Stored
    /\ pattern' = [pattern EXCEPT ![k] = None]
    /\ heard' = [heard EXCEPT ![k] = <<>>]
    /\ UNCHANGED answer

\* PUT /v1/proxy/patterns/:id/pin
TogglePin(k) ==
    /\ k \in Stored
    /\ pattern' = [pattern EXCEPT ![k].pinned = ~@]
    /\ UNCHANGED <<heard, answer>>

Next ==
    \/ \E a \in Agent, p \in Path, written \in SUBSET Path, shape \in Shape, outcome \in Outcome :
        ForwardHttp(a, p, written, shape, outcome)
    \/ \E p \in Path, outcome \in Outcome : LoseHttp(p, outcome) \/ ForwardMcp(p, outcome)
    \/ \E k \in Key : Delete(k) \/ TogglePin(k)

Spec == Init /\ [][Next]_vars
-------------------------------------------------------------------------------
(* Properties. *)

\* Every row keeps its shape and its window its length.
TypeOK ==
    /\ pattern \in [Key -> Row \cup {None}]
    /\ \A k \in Stored : Len(pattern[k].recent) \in 1 .. MaxOutcomes
    /\ heard \in [Key -> Seq(Heard)]
    /\ answer \in [number : {0, 1}, outcome : Outcome, path : Path \cup {None},
                  offered : SUBSET Key]

\* A row against the calls recorded in it.
Tally(r, calls) ==
    LET n == Len(calls)
        m == Len(r.recent)
    IN  /\ m = (IF n < MaxOutcomes THEN n ELSE MaxOutcomes)
        /\ \A i \in 1 .. m : r.recent[i] = calls[n - m + i]
        /\ r.successes + r.failures = n
        /\ r.agents = {calls[i].agent : i \in 1 .. n}

\* The window of a row is the last calls that were recorded in it, the totals are those of all
\* its calls, and its agents those who made them, however often the window has slid and
\* whatever recordings failed on the way (engine.ts:172).
Tallied ==
    \A k \in Key : IF k \in Stored THEN Tally(pattern[k], heard[k]) ELSE heard[k] = <<>>

\* A call that worked is among the last of these, as many as half the window, or among all of
\* them if they are fewer.
LatelyWorked(calls) ==
    \E i \in DOMAIN calls : i > Len(calls) - (MaxOutcomes + 1) \div 2 /\ calls[i].success

\* A pattern that has begun to fail is dropped, whatever it was worth before: nobody is offered
\* a pattern whose last recorded calls have all failed, as many as half the window, unless it
\* is pinned.  The call that is being answered counts if it was recorded (proxy.ts:698 comes
\* before proxy.ts:721); one that was lost, or whose recording failed, counts nowhere.
FailingIsDropped ==
    [][answer' # answer =>
        \A k \in answer'.offered :
            pattern'[k] # None /\ (pattern'[k].pinned \/ LatelyWorked(heard'[k]))]_vars

\* Violated.  "Operators can pin patterns (to prevent deletion)" (web-ui.mdx:50): a pinned row
\* stays until it is unpinned.
PinnedStay == [][\A k \in Stored : pattern[k].pinned => pattern'[k] # None]_vars

\* Violated.  "the list of agents that have verified it" (web-ui.mdx:50): an agent of a row has
\* made a call with it that worked.
AgentsVerified ==
    \A k \in Stored : \A a \in pattern[k].agents :
        \E i \in DOMAIN heard[k] : heard[k][i] = [agent |-> a, success |-> TRUE]

\* Violated.  top_pattern is "of the highest-confidence pattern" (agent-api-reference.md:195).
TopIsSurest ==
    \A p \in Path : \A k \in Top(pattern, p), l \in RowsOf(pattern, p) :
        ~Surer(pattern[l], pattern[k])

\* Violated.  "Failed proxy calls include pattern suggestions automatically" (mcp/server.ts:196):
\* a call that failed upstream is answered with suggestions if there are any.
FailuresSuggest ==
    [][answer' # answer /\ answer'.outcome \in {"error", "lost"}
        /\ Candidates(pattern', answer'.path) # {} => answer'.offered # {}]_vars
===============================================================================
