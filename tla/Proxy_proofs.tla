------------------------------ MODULE Proxy_proofs ------------------------------
(***************************************************************************)
(* What holds of Proxy for every number of calls, roles, secrets and       *)
(* windows: the shape of its state, the limiter's bound on parallel calls, *)
(* the bookkeeping of a call and the cached limits.                        *)
(***************************************************************************)
EXTENDS Proxy, FiniteSetTheorems, TLAPS

\* The window a bucket is in is a number, and it never goes back.
LEMMA EpochNat ==
    ASSUME NEW n \in Nat, NEW size \in Nat \ {0}
    PROVE  n \div size \in Nat
BY SMT

LEMMA EpochGrows ==
    ASSUME NEW n \in Nat, NEW size \in Nat \ {0}
    PROVE  n \div size <= (n + 1) \div size
<1> DEFINE q == n \div size
           r == (n + 1) \div size
<1>1. q \in Nat /\ r \in Nat
  BY SMT
<1>2. size * q <= n
  BY SMT
<1>3. n + 1 < size * (r + 1)
  BY SMT
<1>4. SUFFICES ASSUME r + 1 <= q PROVE FALSE
  BY <1>1
<1>5. size * (r + 1) <= size * q
  BY <1>1, <1>4, SMT
<1>6. size * (r + 1) \in Nat /\ size * q \in Nat
  BY <1>1, SMT
<1> QED
  BY <1>2, <1>3, <1>5, <1>6

LEMMA EpochType == ASSUME now \in Nat, NEW b \in Bucket PROVE Epoch(b) \in Nat
<1>1. b[2] \in Axis
  BY ConstantsOK DEF Bucket
<1>2. Length[b[2]] \in Nat \ {0}
  BY <1>1, ConstantsOK
<1> QED
  BY <1>2, EpochNat DEF Epoch

Windows == [Bucket -> [epoch : Nat, count : Nat]]

LEMMA LiveType ==
    ASSUME counter \in Windows, NEW b \in Bucket
    PROVE  Live(b) \in Nat
BY DEF Windows, Live

\* What telling the limiter of a call does to its windows.
LEMMA RecordedType ==
    ASSUME TypeOK, NEW c \in Call, RecordCall(c)
    PROVE  counter' \in Windows
<1>1. ASSUME NEW b \in Bucket
      PROVE  [epoch |-> Epoch(b), count |-> Live(b) + 1] \in [epoch : Nat, count : Nat]
  <2>1. Epoch(b) \in Nat /\ Live(b) \in Nat
    BY EpochType, LiveType DEF TypeOK, Windows
  <2> QED
    BY <2>1
<1> QED
  BY <1>1 DEF TypeOK, RecordCall, Windows

LEMMA RecordedLive ==
    ASSUME NEW c \in Call, RecordCall(c), now' = now, NEW b \in Bucket
    PROVE  Live(b)' = IF b \in call[c].charged THEN Live(b) + 1 ELSE Live(b)
<1>1. Epoch(b)' = Epoch(b)
  BY DEF Epoch
<1>2. CASE b \in call[c].charged
  <2>1. counter'[b] = [epoch |-> Epoch(b), count |-> Live(b) + 1]
    BY <1>2 DEF RecordCall
  <2> QED
    BY <1>1, <1>2, <2>1 DEF Live
<1>3. CASE b \notin call[c].charged
  BY <1>1, <1>3 DEF RecordCall, Live
<1> QED
  BY <1>2, <1>3

Histories == [Bucket -> Nat]

LEMMA OneMoreType ==
    ASSUME NEW h \in Histories, NEW buckets
    PROVE  OneMore(h, buckets) \in Histories
BY DEF Histories, OneMore

LEMMA RolledType ==
    ASSUME NEW h \in Histories
    PROVE  Rolled(h) \in Histories
BY DEF Histories, Rolled

AnswerType == [outcome : {"none", "result", "failure", "internal"}, door : Door, rows : Nat,
               counted : Nat]
-------------------------------------------------------------------------------
(* The shape of the state.                                                 *)

LEMMA CeilingType ==
    ASSUME TypeOK, NEW p \in Process
    PROVE  /\ ProxyLimits(p) \in Ceiling \cup {DefaultTimeout}
           /\ ProxyLimits(p) \in Nat
<1>1. ProxyLimits(p) \in Ceiling \cup {DefaultTimeout}
  BY DEF TypeOK, ProxyLimits, InForce
<1> QED
  BY <1>1, ConstantsOK

LEMMA NoCallType == NoCall \in CallRecord
BY DEF NoCall, CallRecord, Door

LEMMA SilentType == Silent => answer' \in AnswerType
BY DEF Silent, NoAnswer, AnswerType, Door

LEMMA GetProxyLimitsType ==
    ASSUME TypeOK, NEW p \in Process, GetProxyLimits(p)
    PROVE  cached' \in [Process -> Ceiling \cup {DefaultTimeout, None}]
BY CeilingType DEF TypeOK, GetProxyLimits

LEMMA ForwardedType ==
    ASSUME TypeOK, NEW c \in Call, NEW d \in Door, NEW role \in Role \cup {None},
           NEW secrets \in SUBSET Secret, NEW t \in Timeout, NEW cap \in Nat,
           Forwarded(c, d, role, secrets, t, cap)
    PROVE  /\ call' \in [Call -> CallRecord]
           /\ sent' \in Histories
           /\ answer' \in AnswerType
<1> DEFINE charged == IF Gated(d) THEN BucketsOf(role, secrets) ELSE {}
           record == [NoCall EXCEPT !.stage = "sent", !.door = d, !.charged = charged,
                                    !.deadline = now + Least(t, cap)]
<1>1. charged \subseteq Bucket
  BY DEF BucketsOf
<1>2. now + Least(t, cap) \in Nat
  BY ConstantsOK DEF TypeOK, Least
<1>3. record \in CallRecord
  BY <1>1, <1>2 DEF NoCall, CallRecord
<1>4. call' = [call EXCEPT ![c] = record] /\ sent' = OneMore(sent, charged)
  BY DEF Forwarded
<1>5. sent' \in Histories
  BY <1>4, OneMoreType DEF TypeOK, Histories
<1>6. answer' \in AnswerType
  BY SilentType DEF Forwarded
<1> QED
  BY <1>3, <1>4, <1>5, <1>6 DEF TypeOK

\* A handler that ends leaves no call and an answer of the right shape.
LEMMA AnswerTyped ==
    ASSUME TypeOK, NEW c \in Call, NEW outcome \in {"result", "failure", "internal"},
           NEW rows \in Nat, NEW counted \in Nat, Answer(c, outcome, rows, counted)
    PROVE  call' \in [Call -> CallRecord] /\ answer' \in AnswerType
<1>1. call[c].rows + rows \in Nat /\ call[c].door \in Door
  BY DEF TypeOK, CallRecord
<1>2. answer' = [outcome |-> outcome, door |-> call[c].door, rows |-> call[c].rows + rows,
                 counted |-> counted]
  BY DEF Answer
<1>3. answer' \in AnswerType
  BY <1>1, <1>2 DEF AnswerType
<1> QED
  BY <1>3, NoCallType DEF Answer, TypeOK

LEMMA CountedType == ASSUME TypeOK, NEW c \in Call PROVE call[c].counted \in Nat /\ CountedOf(c) \in Nat
BY DEF TypeOK, CallRecord, CountedOf

LEMMA TypeInit == Init => TypeOK
<1> SUFFICES ASSUME Init PROVE TypeOK
  OBVIOUS
<1>1. call \in [Call -> CallRecord]
  BY NoCallType DEF Init
<1>2. answer \in [outcome : {"none", "result", "failure", "internal"}, door : Door,
                  rows : Nat, counted : Nat]
  BY DEF Init, NoAnswer, Door
<1> QED
  BY <1>1, <1>2 DEF Init, TypeOK

LEMMA TypeStep == TypeOK /\ [Next]_vars => TypeOK'
<1> SUFFICES ASSUME TypeOK, [Next]_vars PROVE TypeOK'
  OBVIOUS
<1>s. ASSUME Silent PROVE answer' \in [outcome : {"none", "result", "failure", "internal"},
                                       door : Door, rows : Nat, counted : Nat]
  BY <1>s, SilentType DEF AnswerType
<1>1. ASSUME NEW c \in Call, Begin(c) PROVE TypeOK'
  <2>1. [NoCall EXCEPT !.stage = "reading", !.cap = ProxyLimits("server")] \in CallRecord
    BY CeilingType DEF NoCall, CallRecord, Process, Door
  <2>2. cached' \in [Process -> Ceiling \cup {DefaultTimeout, None}]
    BY <1>1, GetProxyLimitsType DEF Begin, Process
  <2> QED
    BY <1>1, <1>s, <2>1, <2>2 DEF TypeOK, Begin
<1>2. ASSUME NEW c \in Call, Reject(c) PROVE TypeOK'
  BY <1>2, <1>s, NoCallType DEF TypeOK, Reject
<1>3. ASSUME NEW c \in Call, NEW role \in Role \cup {None}, NEW secrets \in SUBSET Secret,
             NEW t \in Timeout, HttpForward(c, role, secrets, t)
      PROVE  TypeOK'
  <2>1. call[c].cap \in Nat
    BY DEF TypeOK, CallRecord
  <2>2. Forwarded(c, "http", role, secrets, t, call[c].cap)
    BY <1>3 DEF HttpForward
  <2>3. call' \in [Call -> CallRecord] /\ sent' \in Histories /\ answer' \in AnswerType
    BY <2>1, <2>2, ForwardedType DEF Door
  <2> QED
    BY <1>3, <2>2, <2>3 DEF TypeOK, Histories, HttpForward, Forwarded, AnswerType
<1>4. ASSUME NEW c \in Call, NEW d \in {"tool", "stdio"}, NEW role \in Role \cup {None},
             NEW secrets \in SUBSET Secret, NEW t \in Timeout, McpForward(c, d, role, secrets, t)
      PROVE  TypeOK'
  <2>1. d \in Door /\ Home(d) \in Process
    BY DEF Door, Home, Process
  <2>2. Forwarded(c, d, role, secrets, t, ProxyLimits(Home(d))) /\ GetProxyLimits(Home(d))
    BY <1>4 DEF McpForward
  <2>3. call' \in [Call -> CallRecord] /\ sent' \in Histories /\ answer' \in AnswerType
    BY <2>1, <2>2, ForwardedType, CeilingType
  <2>4. cached' \in [Process -> Ceiling \cup {DefaultTimeout, None}]
    BY <2>1, <2>2, GetProxyLimitsType
  <2> QED
    BY <2>2, <2>3, <2>4 DEF TypeOK, Histories, Forwarded, AnswerType
<1>5. ASSUME NEW c \in Call, Headers(c) PROVE TypeOK'
  <2>1. counter' \in Windows
    BY <1>5, RecordedType DEF Headers
  <2>2. call' \in [Call -> CallRecord]
    <3> DEFINE k == [call[c] EXCEPT !.stage = "body", !.deadline = 0, !.counted = CountedOf(c)]
    <3>1. CountedOf(c) \in Nat
      BY CountedType
    <3>2. k \in CallRecord
      BY <3>1 DEF TypeOK, CallRecord
    <3>3. call' = [call EXCEPT ![c] = k]
      BY <1>5 DEF TypeOK, CallRecord, Headers
    <3> HIDE DEF k
    <3> QED
      BY <3>2, <3>3 DEF TypeOK
  <2> QED
    BY <1>5, <1>s, <2>1, <2>2 DEF TypeOK, Headers, Windows
<1>6. ASSUME NEW c \in Call, BodyRead(c) PROVE TypeOK'
  <2>1. call' \in [Call -> CallRecord] /\ answer' \in AnswerType
    BY <1>6, AnswerTyped, CountedType DEF BodyRead
  <2> QED
    BY <1>6, <2>1 DEF TypeOK, BodyRead, Answer, AnswerType
<1>7. ASSUME NEW c \in Call, NEW rows \in Nat, Reported(c, rows) PROVE TypeOK'
  <2>0. rows + 1 \in Nat
    OBVIOUS
  <2>1. call' \in [Call -> CallRecord] /\ answer' \in AnswerType
    BY <1>7, <2>0, AnswerTyped, CountedType DEF Reported
  <2>2. counter' \in Windows
    BY <1>7, RecordedType DEF Reported
  <2> QED
    BY <1>7, <2>1, <2>2 DEF TypeOK, Reported, Answer, AnswerType, Windows
<1>8. ASSUME NEW c \in Call, NEW rows \in Nat, Unreported(c, rows) PROVE TypeOK'
  <2>1. call' \in [Call -> CallRecord] /\ answer' \in AnswerType
    BY <1>8, AnswerTyped, CountedType DEF Unreported
  <2>2. lost' \in Histories
    BY <1>8, OneMoreType DEF TypeOK, Histories, Unreported
  <2> QED
    BY <1>8, <2>1, <2>2 DEF TypeOK, Unreported, Answer, AnswerType, Histories
<1>9. ASSUME NEW t \in Ceiling, SetProxyLimits(t) PROVE TypeOK'
  BY <1>9, <1>s DEF TypeOK, SetProxyLimits
<1>10. ASSUME NEW r \in Role, NEW given \in [Axis -> Limit \cup {None, Missing}],
             SetRoleLimits(r, given)
      PROVE  TypeOK'
  <2>1. ASSUME NEW b \in Bucket, b \in {r} \X Axis
        PROVE  given[b[2]] \in Limit \cup {None, Missing}
    BY <2>1
  <2>2. limit' \in [Bucket -> Limit \cup {None}]
    BY <1>10, <2>1 DEF TypeOK, SetRoleLimits
  <2> QED
    BY <1>10, <1>s, <2>2 DEF TypeOK, SetRoleLimits
<1>11. ASSUME NEW s \in Secret, NEW n \in Limit \cup {None}, SetSecretLimit(s, n) PROVE TypeOK'
  BY <1>11, <1>s DEF TypeOK, SetSecretLimit
<1>12. ASSUME Tick PROVE TypeOK'
  <2>1. sent' \in Histories /\ lost' \in Histories
    BY <1>12, RolledType DEF TypeOK, Tick, Histories
  <2> QED
    BY <1>12, <1>s, <2>1 DEF TypeOK, Tick, Histories
<1>13. ASSUME NEW p \in Process, Restart(p) PROVE TypeOK'
  <2>1. call' \in [Call -> CallRecord]
    BY <1>13, NoCallType DEF TypeOK, Restart
  <2>2. counter' \in Windows /\ sent' \in Histories /\ lost' \in Histories
    BY <1>13 DEF TypeOK, Restart, Windows, Histories
  <2> QED
    BY <1>13, <1>s, <2>1, <2>2 DEF TypeOK, Restart, Windows, Histories
<1>14. CASE UNCHANGED vars
  BY <1>14 DEF TypeOK, vars
<1>15. ASSUME NEW c \in Call, FetchFails(c) \/ BodyFails(c) \/ LookupFails(c) PROVE TypeOK'
  <2>1. \E rows \in Nat : Reported(c, rows) \/ Unreported(c, rows)
    BY <1>15 DEF FetchFails, BodyFails, LookupFails, Fail
  <2> QED
    BY <2>1, <1>7, <1>8
<1>16. CASE Calls
  BY <1>1, <1>2, <1>3, <1>4, <1>5, <1>6, <1>15, <1>16 DEF Calls
<1>17. CASE Administration
  BY <1>9, <1>10, <1>11, <1>17 DEF Administration, Fields
<1> QED
  BY <1>12, <1>13, <1>14, <1>16, <1>17 DEF Next

\* The limiter's windows, the limits, the setting and its copies and the calls
\* always have the shape the code gives them.
THEOREM TypeCorrect == Spec => []TypeOK
<1>1. Init => TypeOK
  BY TypeInit
<1>2. TypeOK /\ [Next]_vars => TypeOK'
  BY TypeStep
<1> QED
  BY <1>1, <1>2, PTL DEF Spec
-------------------------------------------------------------------------------
(* The limiter: whatever was forwarded is counted, waits for its headers or  *)
(* is known to be lost.                                                      *)

\* The stdio process has no limiter: its calls are charged to no bucket.
StdioFree == \A c \in Call : call[c].door = "stdio" => call[c].charged = {}

CoverInv == Covered /\ StdioFree

LEMMA UncountedFinite ==
    ASSUME NEW b
    PROVE  /\ IsFiniteSet(Uncounted(b))
           /\ Cardinality(Uncounted(b)) \in Nat
           /\ Cardinality(Call) \in Nat
BY ConstantsOK, FS_Subset, FS_CardinalityType DEF Uncounted

LEMMA Counts ==
    ASSUME TypeOK, NEW b \in Bucket
    PROVE  Live(b) \in Nat /\ sent[b] \in Nat /\ lost[b] \in Nat
BY LiveType DEF TypeOK, Windows

\* A step of one call that does not forward it: if it waited for its headers, it is counted or
\* known to be lost in the same step.
LEMMA SettledStep ==
    ASSUME TypeOK, TypeOK', CoverInv, NEW c \in Call, sent' = sent,
           call'[c].stage # "sent", call'[c].door = "stdio" => call'[c].charged = {},
           \A d \in Call \ {c} : call'[d] = call[d],
           \A b \in Bucket : Live(b)' + lost'[b] >= Live(b) + lost[b],
           \A b \in Bucket : call[c].stage = "sent" /\ b \in call[c].charged
                                 => Live(b)' + lost'[b] >= Live(b) + lost[b] + 1
    PROVE  CoverInv'
<1>1. StdioFree'
  BY DEF CoverInv, StdioFree
<1>2. ASSUME NEW b \in Bucket
      PROVE  sent'[b] <= Live(b)' + Cardinality(Uncounted(b)') + lost'[b]
  <2> DEFINE u == Cardinality(Uncounted(b))
             v == Cardinality(Uncounted(b)')
             x == Live(b)
             y == Live(b)'
  <2> SUFFICES sent'[b] <= y + v + lost'[b]
    OBVIOUS
  <2>1. Uncounted(b)' = Uncounted(b) \ {c}
    BY DEF Uncounted
  <2>2. sent[b] <= x + u + lost[b]
    BY DEF CoverInv, Covered
  <2>3. x \in Nat /\ sent[b] \in Nat /\ lost[b] \in Nat /\ u \in Nat
    BY Counts, UncountedFinite
  <2>4. y \in Nat /\ lost'[b] \in Nat
    BY LiveType DEF TypeOK, Live, Windows
  <2>5. CASE c \in Uncounted(b)
    <3>1. IsFiniteSet(Uncounted(b))
      BY UncountedFinite
    <3>2. v = u - 1
      BY <2>1, <2>5, <3>1, FS_RemoveElement
    <3>3. y + lost'[b] >= x + lost[b] + 1
      BY <2>5 DEF Uncounted
    <3> HIDE DEF u, v, x, y
    <3> QED
      BY <2>2, <2>3, <2>4, <3>2, <3>3
  <2>6. CASE c \notin Uncounted(b)
    <3>1. v = u
      BY <2>1, <2>6
    <3>2. y + lost'[b] >= x + lost[b]
      OBVIOUS
    <3> HIDE DEF u, v, x, y
    <3> QED
      BY <2>2, <2>3, <2>4, <3>1, <3>2
  <2> QED
    BY <2>5, <2>6
<1> QED
  BY <1>1, <1>2 DEF CoverInv, Covered

\* A step that leaves the limiter, its history and every call's wait alone.
LEMMA SameWindows ==
    ASSUME CoverInv, UNCHANGED <<now, counter, sent, lost>>,
           \A b \in Bucket : Uncounted(b)' = Uncounted(b)
    PROVE  Covered'
BY DEF CoverInv, Covered, Live, Epoch

LEMMA SameLive ==
    ASSUME UNCHANGED <<now, counter>>, NEW b
    PROVE  Live(b)' = Live(b)
BY DEF Live, Epoch

\* A call that is forwarded joins those that wait, in each of its buckets.
LEMMA ForwardedStep ==
    ASSUME TypeOK, CoverInv, NEW c \in Call, NEW d \in Door, NEW role, NEW secrets, NEW t,
           NEW cap, call[c].stage # "sent", Forwarded(c, d, role, secrets, t, cap)
    PROVE  /\ CoverInv'
           /\ \A b \in Bucket :
                 sent'[b] > sent[b] /\ limit[b] # None
                     => sent'[b] < limit[b] + Cardinality(Call) + lost[b]
<1> DEFINE charged == IF Gated(d) THEN BucketsOf(role, secrets) ELSE {}
<1>1. /\ call'[c].stage = "sent" /\ call'[c].charged = charged /\ call'[c].door = d
      /\ \A e \in Call \ {c} : call'[e] = call[e]
      /\ sent' = OneMore(sent, charged)
      /\ UNCHANGED <<now, limit, counter, lost>>
      /\ \A b \in charged : ~Exceeded(b)
  BY DEF Forwarded, NoCall, TypeOK
<1>2. d = "stdio" => charged = {}
  BY DEF Gated
<1> HIDE DEF charged
<1>3. StdioFree'
  BY <1>1, <1>2 DEF CoverInv, StdioFree
<1>4. ASSUME NEW b \in Bucket
      PROVE  /\ sent'[b] <= Live(b)' + Cardinality(Uncounted(b)') + lost'[b]
             /\ sent'[b] > sent[b] /\ limit[b] # None
                   => sent'[b] < limit[b] + Cardinality(Call) + lost[b]
  <2>1. sent'[b] = IF b \in charged THEN sent[b] + 1 ELSE sent[b]
    BY <1>1 DEF OneMore
  <2>2. Live(b)' = Live(b)
    BY <1>1, SameLive
  <2>3. Live(b) \in Nat /\ sent[b] \in Nat /\ lost[b] \in Nat
    BY Counts
  <2>4. c \notin Uncounted(b)
    BY DEF Uncounted
  <2>5. sent[b] <= Live(b) + Cardinality(Uncounted(b)) + lost[b]
    BY DEF CoverInv, Covered
  <2>6. CASE b \in charged
    <3>1. Uncounted(b)' = Uncounted(b) \cup {c}
      BY <1>1, <2>6 DEF Uncounted
    <3>2. Cardinality(Uncounted(b)') = Cardinality(Uncounted(b)) + 1
      BY <2>4, <3>1, UncountedFinite, FS_AddElement
    <3>3. Cardinality(Uncounted(b)') <= Cardinality(Call)
      BY <3>1, ConstantsOK, FS_Subset DEF Uncounted
    <3>4. limit[b] # None => limit[b] \in Nat /\ Live(b) < limit[b]
      <4>1. limit[b] # None => limit[b] \in Nat
        BY ConstantsOK DEF TypeOK
      <4> QED
        BY <1>1, <2>3, <2>6, <4>1 DEF Exceeded
    <3> QED
      BY <1>1, <2>1, <2>2, <2>3, <2>5, <2>6, <3>2, <3>3, <3>4, UncountedFinite
  <2>7. CASE b \notin charged
    <3>1. Uncounted(b)' = Uncounted(b)
      BY <1>1, <2>4, <2>7 DEF Uncounted
    <3> QED
      BY <1>1, <2>1, <2>2, <2>3, <2>5, <2>7, <3>1
  <2> QED
    BY <2>6, <2>7
<1> QED
  BY <1>3, <1>4 DEF CoverInv, Covered

LEMMA CoverInit == Init => CoverInv
<1> SUFFICES ASSUME Init PROVE CoverInv
  OBVIOUS
<1>1. \A b \in Bucket : sent[b] = 0 /\ lost[b] = 0 /\ Live(b) = 0
  BY DEF Init, Live
<1>2. \A b \in Bucket : Cardinality(Uncounted(b)) \in Nat
  BY UncountedFinite
<1> QED
  BY <1>1, <1>2 DEF Init, CoverInv, Covered, StdioFree, NoCall

\* The bound a step that forwards a call stays below.
Bounded(b) ==
    sent'[b] > sent[b] /\ limit[b] # None /\ Epoch(b)' = Epoch(b)
        => sent'[b] < limit[b] + Cardinality(Call) + lost[b]

\* One step keeps the bound on what is uncounted, and forwards only below the limit.
LEMMA CoverStep ==
    ASSUME TypeOK, TypeOK', CoverInv, [Next]_vars
    PROVE  CoverInv' /\ \A b \in Bucket : Bounded(b)
<1> DEFINE Bound == \A b \in Bucket : Bounded(b)
<1>a. ASSUME \A b \in Bucket : sent'[b] \in {0, sent[b]} PROVE Bound
  BY <1>a, Counts DEF Bounded
<1>b. sent' = sent => Bound
  BY <1>a
<1> SUFFICES CoverInv' /\ Bound
  OBVIOUS
<1> HIDE DEF Bound
<1>1. ASSUME NEW c \in Call, Begin(c) PROVE CoverInv' /\ Bound
  <2>1. /\ call'[c].charged = {} /\ call'[c].stage # "sent" /\ call[c].stage # "sent"
        /\ \A d \in Call \ {c} : call'[d] = call[d]
    BY <1>1 DEF TypeOK, Begin, NoCall
  <2>2. \A b \in Bucket : Uncounted(b)' = Uncounted(b)
    BY <2>1 DEF Uncounted
  <2>3. StdioFree'
    BY <2>1 DEF CoverInv, StdioFree
  <2> QED
    BY <1>1, <1>b, <2>2, <2>3, SameWindows DEF CoverInv, Begin
<1>2. ASSUME NEW c \in Call, Reject(c) PROVE CoverInv' /\ Bound
  <2>1. /\ call'[c].charged = {} /\ call'[c].stage # "sent" /\ call[c].stage # "sent"
        /\ \A d \in Call \ {c} : call'[d] = call[d]
    BY <1>2 DEF TypeOK, Reject, NoCall
  <2>2. \A b \in Bucket : Uncounted(b)' = Uncounted(b)
    BY <2>1 DEF Uncounted
  <2>3. StdioFree'
    BY <2>1 DEF CoverInv, StdioFree
  <2> QED
    BY <1>2, <1>b, <2>2, <2>3, SameWindows DEF CoverInv, Reject
<1>3. ASSUME NEW c \in Call, NEW d \in Door, NEW role, NEW secrets, NEW t, NEW cap,
             call[c].stage # "sent", Forwarded(c, d, role, secrets, t, cap)
      PROVE  CoverInv' /\ Bound
  BY <1>3, ForwardedStep DEF Bound, Bounded
<1>4. ASSUME NEW c \in Call, NEW role \in Role \cup {None}, NEW secrets \in SUBSET Secret,
             NEW t \in Timeout, HttpForward(c, role, secrets, t)
      PROVE  CoverInv' /\ Bound
  BY <1>3, <1>4 DEF HttpForward, Door
<1>5. ASSUME NEW c \in Call, NEW d \in {"tool", "stdio"}, NEW role \in Role \cup {None},
             NEW secrets \in SUBSET Secret, NEW t \in Timeout, McpForward(c, d, role, secrets, t)
      PROVE  CoverInv' /\ Bound
  BY <1>3, <1>5 DEF McpForward, Door
<1>6. ASSUME NEW c \in Call, RecordCall(c), UNCHANGED <<now, sent, lost>>,
             call'[c].stage # "sent", call'[c].door = "stdio" => call'[c].charged = {},
             \A d \in Call \ {c} : call'[d] = call[d]
      PROVE  CoverInv' /\ Bound
  <2>1. \A b \in Bucket : Live(b)' = IF b \in call[c].charged THEN Live(b) + 1 ELSE Live(b)
    BY <1>6, RecordedLive
  <2>2. \A b \in Bucket : Live(b) \in Nat /\ lost[b] \in Nat
    BY Counts
  <2>3. \A b \in Bucket : /\ Live(b)' + lost'[b] >= Live(b) + lost[b]
                          /\ b \in call[c].charged => Live(b)' + lost'[b] >= Live(b) + lost[b] + 1
    BY <1>6, <2>1, <2>2
  <2> QED
    BY <1>6, <1>b, <2>3, SettledStep
<1>7. ASSUME NEW c \in Call, Headers(c) PROVE CoverInv' /\ Bound
  <2>1. /\ call'[c].stage = "body" /\ call'[c].door = call[c].door
        /\ call'[c].charged = call[c].charged
        /\ \A d \in Call \ {c} : call'[d] = call[d]
    BY <1>7 DEF TypeOK, CallRecord, Headers
  <2>2. call[c].door = "stdio" => call[c].charged = {}
    BY DEF CoverInv, StdioFree
  <2> QED
    BY <1>6, <1>7, <2>1, <2>2 DEF Headers
<1>8. ASSUME NEW c \in Call, call' = [call EXCEPT ![c] = NoCall]
      PROVE  /\ call'[c].stage # "sent" /\ call'[c].charged = {}
             /\ \A d \in Call \ {c} : call'[d] = call[d]
  BY <1>8 DEF TypeOK, NoCall
<1>9. ASSUME NEW c \in Call, BodyRead(c) PROVE CoverInv' /\ Bound
  <2>1. /\ call' = [call EXCEPT ![c] = NoCall] /\ call[c].stage # "sent"
        /\ UNCHANGED <<now, counter, sent, lost>>
    BY <1>9 DEF BodyRead, Answer
  <2>2. /\ call'[c].stage # "sent" /\ call'[c].charged = {}
        /\ \A d \in Call \ {c} : call'[d] = call[d]
    BY <2>1, <1>8
  <2>3. \A b \in Bucket : Uncounted(b)' = Uncounted(b)
    BY <2>1, <2>2 DEF Uncounted
  <2>4. StdioFree'
    BY <2>2 DEF CoverInv, StdioFree
  <2> QED
    BY <1>b, <2>1, <2>3, <2>4, SameWindows DEF CoverInv
<1>10. ASSUME NEW c \in Call, NEW rows, Reported(c, rows) PROVE CoverInv' /\ Bound
  BY <1>6, <1>8, <1>10 DEF Reported, Answer
<1>11. ASSUME NEW c \in Call, NEW rows, Unreported(c, rows) PROVE CoverInv' /\ Bound
  <2> DEFINE uncounted == IF call[c].stage = "sent" THEN call[c].charged ELSE {}
  <2>1. /\ call' = [call EXCEPT ![c] = NoCall] /\ UNCHANGED <<now, counter, sent>>
        /\ lost' = OneMore(lost, uncounted)
    BY <1>11 DEF Unreported, Answer
  <2>2. \A b \in Bucket : Live(b)' = Live(b) /\ Live(b) \in Nat /\ lost[b] \in Nat
    BY <2>1, SameLive, Counts
  <2>3. \A b \in Bucket : lost'[b] = IF b \in uncounted THEN lost[b] + 1 ELSE lost[b]
    BY <2>1 DEF OneMore
  <2>4. \A b \in Bucket : /\ Live(b)' + lost'[b] >= Live(b) + lost[b]
                          /\ call[c].stage = "sent" /\ b \in call[c].charged
                                => Live(b)' + lost'[b] >= Live(b) + lost[b] + 1
    BY <2>2, <2>3
  <2> QED
    BY <1>8, <1>b, <2>1, <2>4, SettledStep
<1>12. ASSUME UNCHANGED <<now, counter, call, sent, lost>> PROVE CoverInv' /\ Bound
  <2>1. \A b \in Bucket : Uncounted(b)' = Uncounted(b)
    BY <1>12 DEF Uncounted
  <2> QED
    BY <1>12, <1>b, <2>1, SameWindows DEF CoverInv, StdioFree
<1>13. ASSUME Tick PROVE CoverInv' /\ Bound
  <2>1. UNCHANGED <<counter, call>> /\ sent' = Rolled(sent) /\ lost' = Rolled(lost)
    BY <1>13 DEF Tick
  <2>2. \A b \in Bucket : sent'[b] \in {0, sent[b]}
    BY <2>1 DEF Rolled
  <2>3. ASSUME NEW b \in Bucket
        PROVE  sent'[b] <= Live(b)' + Cardinality(Uncounted(b)') + lost'[b]
    <3>1. Uncounted(b)' = Uncounted(b) /\ Cardinality(Uncounted(b)) \in Nat
      BY <2>1, UncountedFinite DEF Uncounted
    <3>2. Live(b)' \in Nat /\ lost'[b] \in Nat
      BY LiveType DEF TypeOK, Live, Windows
    <3>3. CASE Epoch(b)' = Epoch(b)
      <4>1. sent'[b] = sent[b] /\ Live(b)' = Live(b) /\ lost'[b] = lost[b]
        BY <2>1, <3>3 DEF Rolled, Live
      <4> QED
        BY <3>1, <4>1 DEF CoverInv, Covered
    <3>4. CASE Epoch(b)' # Epoch(b)
      <4>1. sent'[b] = 0
        BY <2>1, <3>4 DEF Rolled
      <4> QED
        BY <3>1, <3>2, <4>1
    <3> QED
      BY <3>3, <3>4
  <2> QED
    BY <1>a, <2>1, <2>2, <2>3 DEF CoverInv, Covered, StdioFree
<1>14. ASSUME Restart("server") PROVE CoverInv' /\ Bound
  <2>1. /\ sent' = [b \in Bucket |-> 0]
        /\ \A c \in Call : call'[c] \in {NoCall, call[c]}
    BY <1>14 DEF Restart
  <2>2. \A b \in Bucket : sent'[b] = 0 /\ Live(b)' \in Nat /\ lost'[b] \in Nat
    BY <2>1, LiveType DEF TypeOK, Live, Windows
  <2>3. \A b \in Bucket : Cardinality(Uncounted(b)') \in Nat
    <3>1. \A b \in Bucket : Uncounted(b)' \subseteq Call
      BY DEF Uncounted
    <3> QED
      BY <3>1, ConstantsOK, FS_Subset, FS_CardinalityType
  <2>4. StdioFree'
    BY <2>1 DEF CoverInv, StdioFree, NoCall
  <2>5. Bound
    BY <1>a, <2>2
  <2> QED
    BY <2>2, <2>3, <2>4, <2>5 DEF CoverInv, Covered
<1>15. ASSUME Restart("stdio") PROVE CoverInv' /\ Bound
  <2>1. /\ UNCHANGED <<now, counter, sent, lost>>
        /\ call' = [c \in Call |-> IF Home(call[c].door) = "stdio" THEN NoCall ELSE call[c]]
    BY <1>15 DEF Restart
  <2>2. ASSUME NEW c \in Call
        PROVE  call'[c] = call[c] \/ (call'[c] = NoCall /\ call[c].charged = {})
    <3>1. CASE call[c].door = "stdio"
      <4>1. call[c].charged = {}
        BY <3>1 DEF CoverInv, StdioFree
      <4> QED
        BY <2>1, <3>1, <4>1 DEF Home
    <3>2. CASE call[c].door # "stdio"
      BY <2>1, <3>2 DEF Home
    <3> QED
      BY <3>1, <3>2
  <2>3. \A b \in Bucket : Uncounted(b)' = Uncounted(b)
    BY <2>2 DEF Uncounted, NoCall
  <2>4. StdioFree'
    BY <2>2 DEF CoverInv, StdioFree, NoCall
  <2> QED
    BY <1>b, <2>1, <2>3, <2>4, SameWindows DEF CoverInv
<1>16. ASSUME NEW c \in Call, FetchFails(c) \/ BodyFails(c) \/ LookupFails(c)
       PROVE  CoverInv' /\ Bound
  BY <1>10, <1>11, <1>16 DEF FetchFails, BodyFails, LookupFails, Fail
<1>17. CASE Administration
  BY <1>12, <1>17 DEF Administration, SetProxyLimits, SetRoleLimits, SetSecretLimit
<1>18. CASE Calls
  BY <1>1, <1>2, <1>4, <1>5, <1>7, <1>9, <1>16, <1>18 DEF Calls
<1>19. CASE \E p \in Process : Restart(p)
  BY <1>14, <1>15, <1>19 DEF Process
<1>20. CASE UNCHANGED vars
  BY <1>12, <1>20 DEF vars
<1> QED
  BY <1>13, <1>17, <1>18, <1>19, <1>20 DEF Next

LEMMA CoverAlways == Spec => [](TypeOK /\ CoverInv)
<1>1. Init => TypeOK /\ CoverInv
  BY TypeInit, CoverInit
<1>2. TypeOK /\ CoverInv /\ [Next]_vars => TypeOK' /\ CoverInv'
  BY TypeStep, CoverStep
<1> QED
  BY <1>1, <1>2, PTL DEF Spec

\* Whatever is forwarded in a bucket's window is in its counter, still waits for its headers or
\* failed with its audit row, for every number of calls, roles, secrets and windows.
THEOREM CoveredHolds == Spec => []Covered
<1>1. TypeOK /\ CoverInv => Covered
  BY DEF CoverInv
<1> QED
  BY <1>1, CoverAlways, PTL

\* Parallel calls exceed a limit by less than the number of calls that can be in progress and
\* of those whose count was lost, whatever the limit, the windows and the changes of either.
THEOREM ThrottledHolds == Spec => Throttled
<1>1. TypeOK /\ CoverInv /\ TypeOK' /\ [Next]_vars =>
          [\A b \in Bucket :
              sent'[b] > sent[b] /\ limit[b] # None /\ Epoch(b)' = Epoch(b)
                  => sent'[b] < limit[b] + Cardinality(Call) + lost[b]]_vars
  BY CoverStep DEF Bounded
<1> QED
  BY <1>1, CoverAlways, PTL DEF Spec, Throttled

\* A bucket's calls in its current window are within what its limit allows.
WithinLimit(b, n) == sent[b] < n + Cardinality(Call) + lost[b]

LimitIs(b, n) == limit[b] = n

\* What a window has lost is forgotten only with what was forwarded in it.
LEMMA LostStays ==
    ASSUME TypeOK, [Next]_vars, NEW b \in Bucket
    PROVE  sent'[b] = 0 \/ (Epoch(b)' = Epoch(b) /\ lost'[b] >= lost[b])
<1>a. lost[b] \in Nat
  BY Counts
<1>b. ASSUME UNCHANGED <<now, lost>>
      PROVE  sent'[b] = 0 \/ (Epoch(b)' = Epoch(b) /\ lost'[b] >= lost[b])
  BY <1>a, <1>b DEF Epoch
<1>1. CASE Administration \/ UNCHANGED vars
  BY <1>b, <1>1 DEF Administration, SetProxyLimits, SetRoleLimits, SetSecretLimit, vars
<1>2. CASE Tick
  BY <1>a, <1>2 DEF Tick, Rolled
<1>3. ASSUME NEW p \in Process, Restart(p)
      PROVE  sent'[b] = 0 \/ (Epoch(b)' = Epoch(b) /\ lost'[b] >= lost[b])
  BY <1>a, <1>3 DEF Restart, Epoch
<1>4. ASSUME NEW c \in Call, Begin(c) \/ Reject(c) \/ Headers(c) \/ BodyRead(c)
      PROVE  UNCHANGED <<now, lost>>
  BY <1>4 DEF Begin, Reject, Headers, BodyRead, Answer
<1>5. ASSUME NEW c \in Call, NEW d, NEW role, NEW secrets, NEW t,
             HttpForward(c, role, secrets, t) \/ McpForward(c, d, role, secrets, t)
      PROVE  UNCHANGED <<now, lost>>
  BY <1>5 DEF HttpForward, McpForward, Forwarded
<1>6. ASSUME NEW c \in Call, NEW rows, Reported(c, rows) PROVE UNCHANGED <<now, lost>>
  BY <1>6 DEF Reported, Answer
<1>7. ASSUME NEW c \in Call, NEW rows, Unreported(c, rows)
      PROVE  Epoch(b)' = Epoch(b) /\ lost'[b] >= lost[b]
  BY <1>a, <1>7 DEF Unreported, Answer, Epoch, OneMore
<1>8. ASSUME NEW c \in Call, FetchFails(c) \/ BodyFails(c) \/ LookupFails(c)
      PROVE  sent'[b] = 0 \/ (Epoch(b)' = Epoch(b) /\ lost'[b] >= lost[b])
  BY <1>b, <1>6, <1>7, <1>8 DEF FetchFails, BodyFails, LookupFails, Fail
<1>9. CASE Calls
  BY <1>b, <1>4, <1>5, <1>8, <1>9 DEF Calls
<1> QED
  BY <1>1, <1>2, <1>3, <1>9 DEF Next

LEMMA WithinLimitStep ==
    ASSUME TypeOK, TypeOK', CoverInv, [Next]_vars, NEW b \in Bucket, NEW n \in Limit,
           LimitIs(b, n), WithinLimit(b, n)
    PROVE  WithinLimit(b, n)'
<1>1. Cardinality(Call) \in Nat /\ n \in Nat \ {0} /\ n # None
  BY ConstantsOK, FS_CardinalityType
<1>2. sent[b] \in Nat /\ sent'[b] \in Nat /\ lost[b] \in Nat /\ lost'[b] \in Nat
  BY DEF TypeOK
<1>3. CASE sent'[b] = 0
  BY <1>1, <1>2, <1>3 DEF WithinLimit
<1>4. CASE Epoch(b)' = Epoch(b) /\ lost'[b] >= lost[b]
  <2>1. CASE sent'[b] > sent[b]
    <3>1. sent'[b] < n + Cardinality(Call) + lost[b]
      BY <1>1, <1>4, <2>1, CoverStep DEF LimitIs, Bounded
    <3> QED
      BY <1>1, <1>2, <1>4, <3>1 DEF WithinLimit
  <2>2. CASE ~(sent'[b] > sent[b])
    BY <1>1, <1>2, <1>4, <2>2 DEF WithinLimit
  <2> QED
    BY <2>1, <2>2
<1> QED
  BY <1>3, <1>4, LostStays

\* The limit an administrator relies on: a bucket whose limit is left at n never has n plus the
\* calls that can be in progress, or more, forwarded in one of its windows, those the limiter
\* was not told of apart, whatever happens to other limits, to processes and to the clock.
THEOREM RateBounded ==
    ASSUME NEW b \in Bucket, NEW n \in Limit
    PROVE  Spec /\ [](limit[b] = n) => [](sent[b] < n + Cardinality(Call) + lost[b])
<1>1. Init => TypeOK /\ CoverInv /\ WithinLimit(b, n)
  <2> SUFFICES ASSUME Init PROVE WithinLimit(b, n)
    BY TypeInit, CoverInit
  <2>1. sent[b] = 0 /\ lost[b] = 0
    BY DEF Init
  <2> QED
    BY <2>1, ConstantsOK, FS_CardinalityType DEF WithinLimit
<1>2. TypeOK /\ CoverInv /\ WithinLimit(b, n) /\ LimitIs(b, n) /\ [Next]_vars
      => TypeOK' /\ CoverInv' /\ WithinLimit(b, n)'
  BY TypeStep, CoverStep, WithinLimitStep
<1>3. LimitIs(b, n) <=> limit[b] = n
  BY DEF LimitIs
<1>4. WithinLimit(b, n) <=> sent[b] < n + Cardinality(Call) + lost[b]
  BY DEF WithinLimit
<1> QED
  BY <1>1, <1>2, <1>3, <1>4, PTL DEF Spec
-------------------------------------------------------------------------------
(* The bookkeeping of a call, its answer, and the cached limits.            *)

Once(d) == IF Gated(d) THEN 1 ELSE 0

\* A call in progress has left no row, and is counted when its headers are there.
InProgress(k) ==
    /\ k.rows = 0
    /\ k.stage = "sent" => k.counted = 0
    /\ k.stage = "body" => k.counted = Once(k.door)

\* What an answer says of its call's rows and counts.
Balanced(a) ==
    /\ a.outcome = "result" => a.rows = 1 /\ a.counted = Once(a.door)
    /\ a.outcome = "failure" => a.rows \in {1, 2} /\ a.counted \in {Once(a.door), 2 * Once(a.door)}
    /\ a.rows = 2 => a.door = "http" /\ a.counted = 2
    /\ a.rows = 0 => a.counted <= Once(a.door)

CallInv == (\A c \in Call : InProgress(call[c])) /\ Balanced(answer) /\ CacheCoherent

LEMMA CallInvAccounted == CallInv => Accounted
BY DEF CallInv, InProgress, Balanced, Accounted, Once

LEMMA NothingInProgress == InProgress(NoCall)
BY DEF InProgress, NoCall

LEMMA SilentBalanced == Silent => Balanced(answer)'
<1>1. Balanced(NoAnswer)
  BY DEF Balanced, NoAnswer, Once, Gated
<1> QED
  BY <1>1 DEF Silent, Balanced

\* The handler ends: what it was counted and the rows it wrote must balance.
LEMMA AnswerBalanced ==
    ASSUME TypeOK, NEW c \in Call, InProgress(call[c]), NEW outcome, NEW rows \in Nat,
           NEW counted, Answer(c, outcome, rows, counted),
           Balanced([outcome |-> outcome, door |-> call[c].door, rows |-> rows,
                     counted |-> counted])
    PROVE  Balanced(answer)'
<1>1. call[c].rows + rows = rows
  BY DEF InProgress
<1>2. answer' = [outcome |-> outcome, door |-> call[c].door, rows |-> rows, counted |-> counted]
  BY <1>1 DEF Answer
<1> QED
  BY <1>2 DEF Balanced

\* Reading through the cache leaves it coherent.
LEMMA ReadThrough ==
    ASSUME TypeOK, CacheCoherent, NEW p \in Process, GetProxyLimits(p), UNCHANGED setting
    PROVE  CacheCoherent'
BY DEF TypeOK, CacheCoherent, GetProxyLimits, ProxyLimits, InForce, Process

LEMMA CallStep ==
    ASSUME TypeOK, CallInv, [Next]_vars
    PROVE  CallInv'
<1> DEFINE Progress == \A c \in Call : InProgress(call[c])
<1>a. Progress /\ Balanced(answer) /\ CacheCoherent
  BY DEF CallInv
<1>b. ASSUME Progress', Balanced(answer)', CacheCoherent' PROVE CallInv'
  BY <1>b DEF CallInv
<1>c. ASSUME UNCHANGED <<setting, cached>> PROVE CacheCoherent'
  BY <1>a, <1>c DEF CacheCoherent, InForce
<1>d. ASSUME NEW c \in Call, NEW k, InProgress(k), call' = [call EXCEPT ![c] = k] PROVE Progress'
  <2>1. \A d \in Call : call'[d] = IF d = c THEN k ELSE call[d]
    BY <1>d DEF TypeOK
  <2> QED
    BY <1>a, <1>d, <2>1 DEF InProgress
<1>1. ASSUME NEW c \in Call, Begin(c) PROVE CallInv'
  <2> DEFINE k == [NoCall EXCEPT !.stage = "reading", !.cap = ProxyLimits("server")]
  <2>1. InProgress(k)
    BY DEF InProgress, NoCall
  <2>2. call' = [call EXCEPT ![c] = k]
    BY <1>1 DEF Begin
  <2> HIDE DEF k
  <2>3. Progress'
    BY <1>d, <2>1, <2>2
  <2>4. CacheCoherent'
    BY <1>1, <1>a, ReadThrough DEF Begin, Process
  <2> QED
    BY <1>1, <1>b, <2>3, <2>4, SilentBalanced DEF Begin
<1>2. ASSUME NEW c \in Call, Reject(c) PROVE CallInv'
  <2>1. Progress'
    BY <1>2, <1>d, NothingInProgress DEF Reject
  <2> QED
    BY <1>2, <1>b, <1>c, <2>1, SilentBalanced DEF Reject
<1>3. ASSUME NEW c \in Call, NEW d, NEW role, NEW secrets, NEW t, NEW cap,
             Forwarded(c, d, role, secrets, t, cap)
      PROVE  Progress' /\ Balanced(answer)' /\ UNCHANGED setting
  <2>1. PICK k : InProgress(k) /\ call' = [call EXCEPT ![c] = k]
    BY <1>3 DEF Forwarded, NoCall, InProgress
  <2> QED
    BY <1>3, <1>d, <2>1, SilentBalanced DEF Forwarded
<1>4. ASSUME NEW c \in Call, NEW role \in Role \cup {None}, NEW secrets \in SUBSET Secret,
             NEW t \in Timeout, HttpForward(c, role, secrets, t)
      PROVE  CallInv'
  BY <1>3, <1>4, <1>b, <1>c DEF HttpForward
<1>5. ASSUME NEW c \in Call, NEW d \in {"tool", "stdio"}, NEW role \in Role \cup {None},
             NEW secrets \in SUBSET Secret, NEW t \in Timeout, McpForward(c, d, role, secrets, t)
      PROVE  CallInv'
  <2>1. Progress' /\ Balanced(answer)' /\ UNCHANGED setting
    BY <1>3, <1>5 DEF McpForward
  <2>2. Home(d) \in Process
    BY DEF Home, Process
  <2>3. CacheCoherent'
    BY <1>5, <1>a, <2>1, <2>2, ReadThrough DEF McpForward
  <2> QED
    BY <1>b, <2>1, <2>3
<1>6. ASSUME NEW c \in Call, Headers(c) PROVE CallInv'
  <2>1. /\ call'[c].stage = "body" /\ call'[c].rows = call[c].rows
        /\ call'[c].counted = CountedOf(c) /\ call'[c].door = call[c].door
        /\ call[c].stage = "sent"
        /\ \A d \in Call \ {c} : call'[d] = call[d]
    BY <1>6 DEF TypeOK, CallRecord, Headers
  <2>2. CountedOf(c) = Once(call[c].door)
    BY <1>a, <2>1 DEF InProgress, CountedOf, Once
  <2>3. Progress'
    BY <1>a, <2>1, <2>2 DEF InProgress
  <2> QED
    BY <1>6, <1>b, <1>c, <2>3, SilentBalanced DEF Headers
<1>7. ASSUME NEW c \in Call, NEW outcome, NEW rows \in {0, 1, 2}, NEW counted,
             Answer(c, outcome, rows, counted),
             Balanced([outcome |-> outcome, door |-> call[c].door, rows |-> rows,
                       counted |-> counted])
      PROVE  CallInv'
  <2>1. Progress' /\ UNCHANGED <<setting, cached>>
    BY <1>7, <1>d, NothingInProgress DEF Answer
  <2>2. Balanced(answer)'
    BY <1>7, <1>a, AnswerBalanced
  <2> QED
    BY <1>b, <1>c, <2>1, <2>2
<1>8. ASSUME NEW c \in Call, BodyRead(c) PROVE CallInv'
  <2>1. call[c].counted = Once(call[c].door)
    BY <1>8, <1>a DEF BodyRead, InProgress
  <2>2. Balanced([outcome |-> "result", door |-> call[c].door, rows |-> 1,
                  counted |-> call[c].counted])
    BY <2>1 DEF Balanced
  <2> QED
    BY <1>7, <1>8, <2>2 DEF BodyRead
<1>9. ASSUME NEW c \in Call, NEW rows \in {0, 1}, call[c].stage \in {"sent", "body"},
             rows = 1 => call[c].door = "http" /\ call[c].stage = "body", Reported(c, rows)
      PROVE  CallInv'
  <2>1. CountedOf(c) \in {Once(call[c].door), 2 * Once(call[c].door)}
    BY <1>9, <1>a DEF InProgress, CountedOf, Once
  <2>2. rows = 1 => call[c].door = "http" /\ CountedOf(c) = 2
    BY <1>9, <1>a DEF InProgress, CountedOf, Once, Gated
  <2>3. \A outcome \in {"failure", "internal"} :
            Balanced([outcome |-> outcome, door |-> call[c].door, rows |-> rows + 1,
                      counted |-> CountedOf(c)])
    BY <2>1, <2>2 DEF Balanced
  <2>4. rows + 1 \in {0, 1, 2}
    OBVIOUS
  <2> QED
    BY <1>7, <1>9, <2>3, <2>4 DEF Reported
<1>10. ASSUME NEW c \in Call, NEW rows \in {0, 1}, call[c].stage \in {"sent", "body"},
              Unreported(c, rows)
       PROVE  CallInv'
  <2>1. call[c].counted \in {0, Once(call[c].door)}
    BY <1>10, <1>a DEF InProgress
  <2>2. Balanced([outcome |-> "internal", door |-> call[c].door, rows |-> rows,
                  counted |-> call[c].counted])
    BY <2>1 DEF Balanced, Once
  <2> QED
    BY <1>7, <1>10, <2>2 DEF Unreported
<1>11. ASSUME NEW c \in Call, FetchFails(c) \/ BodyFails(c) \/ LookupFails(c) PROVE CallInv'
  BY <1>9, <1>10, <1>11 DEF FetchFails, BodyFails, LookupFails, Fail
<1>12. ASSUME call' = call, Balanced(answer)', UNCHANGED <<setting, cached>> PROVE CallInv'
  <2>1. Progress'
    BY <1>12, <1>a DEF InProgress
  <2> QED
    BY <1>12, <1>b, <1>c, <2>1
<1>13. CASE UNCHANGED vars
  <2>1. Balanced(answer)'
    BY <1>13, <1>a DEF vars, Balanced
  <2> QED
    BY <1>12, <1>13, <2>1 DEF vars
<1>14. CASE Tick
  BY <1>12, <1>14, SilentBalanced DEF Tick
<1>15. ASSUME NEW t \in Ceiling, SetProxyLimits(t) PROVE CallInv'
  <2>1. cached'["server"] = None
    BY <1>15 DEF TypeOK, SetProxyLimits, Process
  <2>2. CacheCoherent' /\ Progress'
    BY <1>15, <1>a, <2>1 DEF CacheCoherent, InProgress, SetProxyLimits
  <2> QED
    BY <1>15, <1>b, <2>2, SilentBalanced DEF SetProxyLimits
<1>16. CASE Administration
  BY <1>12, <1>15, <1>16, SilentBalanced DEF Administration, SetRoleLimits, SetSecretLimit
<1>17. ASSUME NEW p \in Process, Restart(p) PROVE CallInv'
  <2>1. \A c \in Call : call'[c] \in {NoCall, call[c]}
    BY <1>17 DEF Restart
  <2>2. Progress'
    BY <1>a, <2>1, NothingInProgress DEF InProgress
  <2>3. cached'["server"] \in {None, cached["server"]} /\ setting' = setting
    BY <1>17 DEF TypeOK, Restart, Process
  <2>4. CacheCoherent'
    BY <1>a, <2>3 DEF CacheCoherent, InForce
  <2> QED
    BY <1>17, <1>b, <2>2, <2>4, SilentBalanced DEF Restart
<1>18. CASE Calls
  BY <1>1, <1>2, <1>4, <1>5, <1>6, <1>8, <1>11, <1>18 DEF Calls
<1> QED
  BY <1>13, <1>14, <1>16, <1>17, <1>18 DEF Next

LEMMA CallsHold == Spec => []CallInv
<1>1. Init => TypeOK /\ CallInv
  <2> SUFFICES ASSUME Init PROVE CallInv
    BY TypeInit
  <2>1. Balanced(answer)
    BY DEF Init, Balanced, NoAnswer, Once, Gated
  <2> QED
    BY <2>1, NothingInProgress DEF Init, CallInv, CacheCoherent, Process
<1>2. TypeOK /\ CallInv /\ [Next]_vars => TypeOK' /\ CallInv'
  BY TypeStep, CallStep
<1> QED
  BY <1>1, <1>2, PTL DEF Spec

\* Nobody is handed an upstream's result without its one row and its count, and a failure is
\* told with a row, or with two if a look-up failed after the first.
THEOREM AccountedHolds == Spec => []Accounted
BY CallsHold, CallInvAccounted, PTL

\* The server never uses limits other than those of the settings row.
THEOREM CacheCoherentHolds == Spec => []CacheCoherent
BY CallsHold, PTL DEF CallInv
===============================================================================
