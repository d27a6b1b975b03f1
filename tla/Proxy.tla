--------------------------------- MODULE Proxy ---------------------------------
(***************************************************************************)
(* A proxied call from its request to its answer: POST /v1/proxy and the   *)
(* gatehouse_proxy tool of the server and of the mcp-stdio process, the    *)
(* call limiter in the server's memory, the limits of roles and secrets it *)
(* compares with, and the cached proxy-limits setting.                     *)
(*                                                                         *)
(* Everything between two awaits is one action.  A call over HTTP reads    *)
(* the limits setting, awaits its body, passes the checks and starts the   *)
(* upstream request in one go; then it awaits the upstream's headers and,  *)
(* after those, its body.  The limiter is asked in the step that forwards  *)
(* and told of the call in the steps after an await.                       *)
(*                                                                         *)
(* The approval gate of the same step is Leases!ProxyGate for the route and *)
(* for the server's tool; the tool of mcp-stdio has neither limiter nor    *)
(* gate (Leases!StdioProxy).  What the policy check and the allowlists     *)
(* decide is Reject, which can always happen.  An answer is what it tells  *)
(* of the call: the text itself, and what the scrubber takes out of it,    *)
(* are left out.                                                           *)
(*                                                                         *)
(* Any access to the database after the upstream request can fail, as     *)
(* another process may hold it: the audit rows and the look-up of          *)
(* suggestions, both of them in the catch block too.                       *)
(***************************************************************************)
EXTENDS Integers, FiniteSets

CONSTANTS
    Call,           \* calls that can be in progress at once
    Role,           \* role_ids
    Secret,         \* secrets' paths
    Axis,           \* the windows of a role's limits, "minute" among them
    Length,         \* length of each axis' window in ticks
    Limit,          \* limits an administrator may set
    Timeout,        \* timeouts a call may ask for, in ticks
    Ceiling,        \* max_timeout_ms an administrator may set, in ticks
    DefaultTimeout, \* DEFAULT_PROXY_LIMITS.max_timeout_ms, in ticks
    Horizon,        \* bound on the clock
    MaxSent,        \* bound on the calls charged to a bucket in one window
    MaxLost,        \* bound on those that end in it without being counted
    None,           \* no role, no limit, nothing cached, no settings row
    Missing         \* a field the request body leaves out

ASSUME ConstantsOK ==
    /\ IsFiniteSet(Call)
    /\ "minute" \in Axis
    /\ Length \in [Axis -> Nat \ {0}]
    /\ Limit \subseteq Nat \ {0}
    /\ Timeout \cup Ceiling \cup {DefaultTimeout} \subseteq Nat \ {0}
    /\ {Horizon, MaxSent, MaxLost} \subseteq Nat
    /\ None \notin Nat \cup Role
    /\ Missing \notin Nat \cup {None}

VARIABLES
    now,            \* the clock
    limit,          \* app_roles.rate_limit_* and metadata.rate_limit_per_minute
    counter,        \* the RateLimiter's windows
    setting,        \* the proxy_limits row of `settings`
    cached,         \* each process' cachedLimits
    call,           \* the calls
    sent,           \* history: calls forwarded in each bucket's current window
    lost,           \* history: calls that ended in it without being counted
    answer          \* history: the answer the last step gave, with the rows and counts of its call

vars == <<now, limit, counter, setting, cached, call, sent, lost, answer>>

Process == {"server", "stdio"}
Bucket == (Role \X Axis) \cup (Secret \X {"minute"})

\* Where a call comes in: the route or the tool of the server, or the tool of mcp-stdio.
Door == {"http", "tool", "stdio"}

Home(d) == IF d = "stdio" THEN "stdio" ELSE "server"

\* Only the server builds its handlers with a rate limiter.
Gated(d) == d # "stdio"

NoCall == [stage |-> "idle", door |-> "http", cap |-> 0, deadline |-> 0, charged |-> {},
           counted |-> 0, rows |-> 0]

NoAnswer == [outcome |-> "none", door |-> "http", rows |-> 0, counted |-> 0]

\* A step that answers nobody.
Silent == answer' = NoAnswer

Init ==
    /\ now = 0
    /\ limit = [b \in Bucket |-> None]
    /\ counter = [b \in Bucket |-> [epoch |-> 0, count |-> 0]]
    /\ setting = None
    /\ cached = [p \in Process |-> None]
    /\ call = [c \in Call |-> NoCall]
    /\ sent = [b \in Bucket |-> 0]
    /\ lost = sent
    /\ answer = NoAnswer
-------------------------------------------------------------------------------
(* The limiter's fixed windows, reset when they are next looked at. *)

Epoch(b) == now \div Length[b[2]]

\* checkApprole and checkSecret.
Live(b) == IF counter[b].epoch = Epoch(b) THEN counter[b].count ELSE 0

\* Mutant: one more than the limit.
Exceeded_OneMore(b) == limit[b] # None /\ Live(b) > limit[b]

Exceeded(b) == limit[b] # None /\ Live(b) >= limit[b]

\* Mutant: a window's count starts over with each call.
RecordCall_StartOver(c) ==
    counter' = [b \in Bucket |-> IF b \in call[c].charged
                                 THEN [epoch |-> Epoch(b), count |-> 1] ELSE counter[b]]

RecordCall(c) ==
    counter' = [b \in Bucket |-> IF b \in call[c].charged
                                 THEN [epoch |-> Epoch(b), count |-> Live(b) + 1] ELSE counter[b]]

\* A history with one call more in each of these buckets.
OneMore(history, buckets) ==
    [b \in Bucket |-> IF b \in buckets THEN history[b] + 1 ELSE history[b]]

\* A history when the clock goes on: a window that opens has seen nothing.
Rolled(history) == [b \in Bucket |-> IF Epoch(b)' = Epoch(b) THEN history[b] ELSE 0]

\* root and user tokens have no role and only meet the secrets' limits.
BucketsOf(role, secrets) ==
    {b \in Bucket : b \in {role} \X Axis \/ b \in secrets \X {"minute"}}
-------------------------------------------------------------------------------
(* The proxy-limits setting. *)

\* Mutant: without a row there are no limits.
InForce_RowOnly == setting

InForce == IF setting = None THEN DefaultTimeout ELSE setting

ProxyLimits(p) == IF cached[p] # None THEN cached[p] ELSE InForce

GetProxyLimits(p) == cached' = [cached EXCEPT ![p] = ProxyLimits(p)]

\* Mutant: the cache is kept.
SetProxyLimits_KeepCache(t) ==
    /\ setting' = t
    /\ Silent
    /\ UNCHANGED <<now, limit, counter, cached, call, sent, lost>>

SetProxyLimits(t) ==
    /\ setting' = t
    /\ cached' = [cached EXCEPT !["server"] = None]
    /\ Silent
    /\ UNCHANGED <<now, limit, counter, call, sent, lost>>
-------------------------------------------------------------------------------
(* A call. *)

Begin(c) ==
    /\ call[c].stage = "idle"
    /\ call' = [call EXCEPT ![c] =
                   [NoCall EXCEPT !.stage = "reading", !.cap = ProxyLimits("server")]]
    /\ GetProxyLimits("server")
    /\ Silent
    /\ UNCHANGED <<now, limit, counter, setting, sent, lost>>

\* A body that cannot be read, or any check before the upstream request: 4xx.
Reject(c) ==
    /\ call[c].stage = "reading"
    /\ call' = [call EXCEPT ![c] = NoCall]
    /\ Silent
    /\ UNCHANGED <<now, limit, counter, setting, cached, sent, lost>>

Least(a, b) == IF a <= b THEN a ELSE b

\* The checks pass and the upstream request starts; its timer runs.
Forwarded(c, d, role, secrets, timeout, cap) ==
    LET charged == IF Gated(d) THEN BucketsOf(role, secrets) ELSE {}
    IN  /\ secrets # {}
        /\ \A b \in charged : ~Exceeded(b) /\ sent[b] < MaxSent
        /\ call' = [call EXCEPT ![c] =
                       [NoCall EXCEPT !.stage = "sent", !.door = d, !.charged = charged,
                                      !.deadline = now + Least(timeout, cap)]]
        /\ sent' = OneMore(sent, charged)
        /\ Silent
        /\ UNCHANGED <<now, limit, counter, setting, lost>>

HttpForward(c, role, secrets, timeout) ==
    /\ call[c].stage = "reading"
    /\ Forwarded(c, "http", role, secrets, timeout, call[c].cap)
    /\ UNCHANGED cached

\* The tool, in either process, has its arguments already and reads the limits
\* in the same step.
McpForward(c, d, role, secrets, timeout) ==
    /\ call[c].stage = "idle"
    /\ Forwarded(c, d, role, secrets, timeout, ProxyLimits(Home(d)))
    /\ GetProxyLimits(Home(d))

\* A call once the limiter, where there is one, has been told of it.
CountedOf(c) == IF Gated(call[c].door) THEN call[c].counted + 1 ELSE call[c].counted

\* Mutant: the success row is written before the body is read.
Headers_RowFirst(c) ==
    /\ call[c].stage = "sent"
    /\ call' = [call EXCEPT ![c].stage = "body", ![c].deadline = 0, ![c].counted = CountedOf(c),
                           ![c].rows = @ + 1]
    /\ RecordCall(c)
    /\ Silent
    /\ UNCHANGED <<now, limit, setting, cached, sent, lost>>

\* The upstream's headers are there: its timer is cleared, the call counted.
Headers(c) ==
    /\ call[c].stage = "sent"
    /\ call' = [call EXCEPT ![c].stage = "body", ![c].deadline = 0, ![c].counted = CountedOf(c)]
    /\ RecordCall(c)
    /\ Silent
    /\ UNCHANGED <<now, limit, setting, cached, sent, lost>>

\* The handler is done: what its caller is told, and the audit rows it leaves.
Answer(c, outcome, rows, counted) ==
    /\ call' = [call EXCEPT ![c] = NoCall]
    /\ answer' = [outcome |-> outcome, door |-> call[c].door, rows |-> call[c].rows + rows,
                  counted |-> counted]
    /\ UNCHANGED <<now, limit, setting, cached, sent>>

\* The body is read, the audit row written and the upstream's result handed out.
BodyRead(c) ==
    /\ call[c].stage = "body"
    /\ Answer(c, "result", 1, call[c].counted)
    /\ UNCHANGED <<counter, lost>>

\* The catch block writes its row and then tells the limiter; over HTTP it looks up suggestions
\* after that, and if it cannot the caller is told of an internal error.
Reported(c, rows) ==
    /\ \/ Answer(c, "failure", rows + 1, CountedOf(c))
       \/ call[c].door = "http" /\ Answer(c, "internal", rows + 1, CountedOf(c))
    /\ RecordCall(c)
    /\ UNCHANGED lost

\* The catch block cannot write its row: it ends there, and the limiter is not told.
Unreported(c, rows) ==
    /\ Answer(c, "internal", rows, call[c].counted)
    /\ LET uncounted == IF call[c].stage = "sent" THEN call[c].charged ELSE {}
       IN  /\ \A b \in uncounted : lost[b] < MaxLost
           /\ lost' = OneMore(lost, uncounted)
    /\ UNCHANGED counter

\* The catch block, after so many audit rows.
Fail(c, stage, rows) ==
    /\ call[c].stage = stage
    /\ Reported(c, rows) \/ Unreported(c, rows)

\* No connection, or the timer.
FetchFails(c) == Fail(c, "sent", 0)

\* More than max_body_bytes, a connection that breaks, or a success row that is refused.
BodyFails(c) == Fail(c, "body", 0)

\* The look-up of suggestions after the success row, which only the route has.
LookupFails(c) == call[c].door = "http" /\ Fail(c, "body", 1)
-------------------------------------------------------------------------------
(* Administration, time and restarts. *)

\* The limits a body can bring: a number in range, null, or nothing.
Fields == [Axis -> Limit \cup {None, Missing}]

\* PUT of an AppRole with at least one limit in its body.
SetRoleLimits(r, given) ==
    /\ \E a \in Axis : given[a] # Missing
    /\ limit' = [b \in Bucket |->
                    IF b \in {r} \X Axis
                    THEN IF given[b[2]] = Missing THEN None ELSE given[b[2]]
                    ELSE limit[b]]
    /\ Silent
    /\ UNCHANGED <<now, counter, setting, cached, call, sent, lost>>

SetSecretLimit(s, n) ==
    /\ limit' = [limit EXCEPT ![<<s, "minute">>] = n]
    /\ Silent
    /\ UNCHANGED <<now, counter, setting, cached, call, sent, lost>>

\* A timer that is due runs before the clock goes on.
Tick ==
    /\ now < Horizon
    /\ \A c \in Call : call[c].stage = "sent" => now < call[c].deadline
    /\ now' = now + 1
    /\ sent' = Rolled(sent)
    /\ lost' = Rolled(lost)
    /\ Silent
    /\ UNCHANGED <<limit, counter, setting, cached, call>>

\* A process stops and starts again: its calls, its cache and, with the
\* server, the limiter's counters are gone.
Restart(p) ==
    /\ cached' = [cached EXCEPT ![p] = None]
    /\ call' = [c \in Call |-> IF Home(call[c].door) = p THEN NoCall ELSE call[c]]
    /\ IF p = "server"
       THEN /\ counter' = [b \in Bucket |-> [epoch |-> 0, count |-> 0]]
            /\ sent' = [b \in Bucket |-> 0]
            /\ lost' = sent'
       ELSE UNCHANGED <<counter, sent, lost>>
    /\ Silent
    /\ UNCHANGED <<now, limit, setting>>
-------------------------------------------------------------------------------
Calls ==
    \E c \in Call :
        \/ Begin(c)
        \/ Reject(c)
        \/ \E role \in Role \cup {None}, secrets \in SUBSET Secret, t \in Timeout :
               \/ HttpForward(c, role, secrets, t)
               \/ \E d \in {"tool", "stdio"} : McpForward(c, d, role, secrets, t)
        \/ Headers(c)
        \/ BodyRead(c)
        \/ FetchFails(c)
        \/ BodyFails(c)
        \/ LookupFails(c)

Administration ==
    \/ \E t \in Ceiling : SetProxyLimits(t)
    \/ \E r \in Role, given \in Fields : SetRoleLimits(r, given)
    \/ \E s \in Secret, n \in Limit \cup {None} : SetSecretLimit(s, n)

Next == Calls \/ Administration \/ Tick \/ \E p \in Process : Restart(p)

Spec == Init /\ [][Next]_vars
-------------------------------------------------------------------------------
CallRecord ==
    [stage : {"idle", "reading", "sent", "body"}, door : Door, cap : Nat, deadline : Nat,
     charged : SUBSET Bucket, counted : Nat, rows : Nat]

\* The windows, the limits, the setting's copies and the calls keep the shape
\* the code gives them; no cached ceiling is 0 or outside what can be set.
TypeOK ==
    /\ now \in Nat
    /\ limit \in [Bucket -> Limit \cup {None}]
    /\ counter \in [Bucket -> [epoch : Nat, count : Nat]]
    /\ {sent, lost} \subseteq [Bucket -> Nat]
    /\ setting \in Ceiling \cup {None}
    /\ cached \in [Process -> Ceiling \cup {DefaultTimeout, None}]
    /\ call \in [Call -> CallRecord]
    /\ answer \in [outcome : {"none", "result", "failure", "internal"}, door : Door,
                  rows : Nat, counted : Nat]

\* Calls that were forwarded and whose count the limiter still waits for.
Uncounted(b) == {c \in Call : call[c].stage = "sent" /\ b \in call[c].charged}

\* The limiter loses a call in one way only: whatever was forwarded in a bucket's current
\* window is in its counter, or is a call still waiting for its headers, or one whose failure
\* could not be written to the audit log, which comes before the count (proxy.ts:738, :749).
Covered ==
    \A b \in Bucket :
        sent[b] <= Live(b) + Cardinality(Uncounted(b)) + lost[b]

\* How far parallel calls take a limit, which is checked before the upstream
\* request and counted after it: a call is forwarded only while the window has
\* seen less than the limit in force plus the other calls that can be in progress
\* and those the limiter was not told of.
Throttled ==
    [][\A b \in Bucket :
          sent'[b] > sent[b] /\ limit[b] # None /\ Epoch(b)' = Epoch(b)
              => sent'[b] < limit[b] + Cardinality(Call) + lost[b]]_vars

\* Nobody is handed an upstream's result unless the call has its one audit row and was counted
\* once, or told of a failure that left none: of the awaits, the count, the rows and the
\* look-ups any may fail after the ones before it took effect.  A second row is left by a
\* route's call whose look-up failed after the first, and that one was counted twice.
Accounted ==
    LET Once(d) == IF Gated(d) THEN 1 ELSE 0
        a == answer
    IN  /\ \A c \in Call :
            /\ call[c].stage = "sent" => call[c].rows = 0 /\ call[c].counted = 0
            /\ call[c].stage = "body" => call[c].rows = 0 /\ call[c].counted = Once(call[c].door)
        /\ a.outcome = "result" => a.rows = 1 /\ a.counted = Once(a.door)
        /\ a.outcome = "failure" =>
               a.rows \in {1, 2} /\ a.counted \in {Once(a.door), 2 * Once(a.door)}
        /\ a.rows = 2 => a.door = "http" /\ a.counted = 2
        /\ a.rows = 0 => a.counted <= Once(a.door)

\* The server's cached limits are those of the settings row, in any order of
\* requests and updates.
CacheCoherent == cached["server"] \in {None, InForce}
-------------------------------------------------------------------------------
(* Three statements of the repository that do not hold. *)

\* The limiter tells a caller how many calls it made (limiter.ts:84): a call
\* is counted once.
CountedOnce == answer.counted <= 1

\* "Missing-field semantics are leave unchanged" (auth.ts:687).
MissingLeavesUnchanged ==
    [][\A r \in Role, given \in Fields :
          SetRoleLimits(r, given) =>
              \A a \in Axis : given[a] = Missing => limit'[<<r, a>>] = limit[<<r, a>>]]_vars

\* "Changes take effect on the next proxy request" (web-ui.mdx:64): no process
\* keeps limits that are no longer set.
ChangesTakeEffect == \A p \in Process : cached[p] \in {None, InForce}
===============================================================================
