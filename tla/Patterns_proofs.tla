---------------------------- MODULE Patterns_proofs ----------------------------
(***************************************************************************)
(* What holds of Patterns for any agents, secrets and shapes and any       *)
(* length of the window.                                                   *)
(***************************************************************************)
EXTENDS Patterns, FiniteSetTheorems, TLAPS

\* Pushing on a window that is not empty: its length and its elements.
LEMMA PushedIs ==
    ASSUME NEW s \in Seq(Heard), Len(s) \in 1 .. MaxOutcomes, NEW o \in Heard
    PROVE  /\ Pushed(s, o) \in Seq(Heard)
           /\ Len(s) < MaxOutcomes =>
                /\ Len(Pushed(s, o)) = Len(s) + 1
                /\ \A i \in 1 .. Len(s) : Pushed(s, o)[i] = s[i]
                /\ Pushed(s, o)[Len(s) + 1] = o
           /\ Len(s) = MaxOutcomes =>
                /\ Len(Pushed(s, o)) = Len(s)
                /\ \A i \in 1 .. (Len(s) - 1) : Pushed(s, o)[i] = s[i + 1]
                /\ Pushed(s, o)[Len(s)] = o
<1>1. /\ Append(s, o) \in Seq(Heard)
      /\ Len(Append(s, o)) = Len(s) + 1
      /\ \A i \in 1 .. Len(s) : Append(s, o)[i] = s[i]
      /\ Append(s, o)[Len(s) + 1] = o
  OBVIOUS
<1>2. CASE Len(s) < MaxOutcomes
  BY <1>1, <1>2, ConstantsOK DEF Pushed
<1>3. CASE Len(s) = MaxOutcomes
  <2> DEFINE t == Append(s, o)
  <2>1. t # <<>> /\ t \in Seq(Heard) /\ Len(t) = Len(s) + 1
    BY <1>1
  <2> HIDE DEF t
  <2>2. /\ Tail(t) \in Seq(Heard)
        /\ Len(Tail(t)) = Len(t) - 1
        /\ \A i \in 1 .. Len(t) - 1 : Tail(t)[i] = t[i + 1]
    BY <2>1
  <2>3. Pushed(s, o) = Tail(t)
    BY <1>3, ConstantsOK DEF Pushed, t
  <2>4. \A i \in 1 .. Len(s) : Tail(t)[i] = t[i + 1]
    BY <2>1, <2>2
  <2>5. \A i \in 1 .. (Len(s) - 1) : t[i + 1] = s[i + 1]
    BY <1>1 DEF t
  <2>6. t[Len(s) + 1] = o
    BY <1>1 DEF t
  <2> QED
    BY <1>3, <2>1, <2>2, <2>3, <2>4, <2>5, <2>6, ConstantsOK
<1> QED
  BY <1>2, <1>3, ConstantsOK

WindowOK(r) == Len(r.recent) \in 1 .. MaxOutcomes

LEMMA UpdatedType ==
    ASSUME NEW r \in Row, WindowOK(r), NEW o \in Heard
    PROVE  Updated(r, o) \in Row /\ WindowOK(Updated(r, o))
<1> DEFINE w == r.recent
<1>1. w \in Seq(Heard) /\ Len(w) \in 1 .. MaxOutcomes
  BY DEF Row, WindowOK
<1>2. Pushed(w, o) \in Seq(Heard) /\ Len(Pushed(w, o)) \in 1 .. MaxOutcomes
  <2> HIDE DEF w
  <2>1. Pushed(w, o) \in Seq(Heard)
    BY <1>1, PushedIs
  <2>2. CASE Len(w) < MaxOutcomes
    <3>1. Len(Pushed(w, o)) = Len(w) + 1
      BY <1>1, <2>2, PushedIs
    <3> QED
      BY <1>1, <2>1, <2>2, <3>1, ConstantsOK
  <2>3. CASE Len(w) = MaxOutcomes
    <3>1. Len(Pushed(w, o)) = Len(w)
      BY <1>1, <2>3, PushedIs
    <3> QED
      BY <1>1, <2>1, <3>1
  <2> QED
    BY <1>1, <2>2, <2>3, ConstantsOK
<1>3. o.agent \in Agent
  BY DEF Heard
<1>4. /\ r.agents \in SUBSET Agent /\ r.pinned \in BOOLEAN
      /\ r.successes \in Nat \ {0} /\ r.failures \in Nat
  BY DEF Row
<1>5. /\ r.agents \cup {o.agent} \in SUBSET Agent
      /\ (IF o.success THEN r.successes + 1 ELSE r.successes) \in Nat \ {0}
      /\ (IF o.success THEN r.failures ELSE r.failures + 1) \in Nat
  BY <1>3, <1>4
<1> QED
  BY <1>2, <1>4, <1>5 DEF Updated, Row, WindowOK

LEMMA LearnedType ==
    ASSUME NEW o \in Heard
    PROVE  Learned(o) \in Row /\ WindowOK(Learned(o))
<1>1. <<o>> \in Seq(Heard) /\ Len(<<o>>) = 1
  OBVIOUS
<1>2. o.agent \in Agent
  BY DEF Heard
<1> QED
  BY <1>1, <1>2, ConstantsOK DEF Learned, Row, WindowOK

\* A new row has heard the call that made it.
LEMMA LearnedTally ==
    ASSUME NEW o \in Heard
    PROVE  Tally(Learned(o), Append(<<>>, o))
BY ConstantsOK DEF Tally, Learned

\* A row that is updated has heard one call more, and its window slides.
LEMMA UpdatedTally ==
    ASSUME NEW r \in Row, WindowOK(r), NEW h \in Seq(Heard), Tally(r, h), NEW o \in Heard
    PROVE  Tally(Updated(r, o), Append(h, o))
<1> DEFINE n == Len(h)
           m == Len(r.recent)
           g == Append(h, o)
           u == Updated(r, o)
<1>1. /\ m = (IF n < MaxOutcomes THEN n ELSE MaxOutcomes)
      /\ \A i \in 1 .. m : r.recent[i] = h[n - m + i]
      /\ r.successes + r.failures = n
      /\ r.agents = {h[i].agent : i \in 1 .. n}
  BY DEF Tally
<1>2. n \in Nat /\ m \in 1 .. MaxOutcomes /\ r.recent \in Seq(Heard) /\ MaxOutcomes \in Nat \ {0}
  BY ConstantsOK DEF WindowOK, Row
<1>3. Len(g) = n + 1 /\ g[n + 1] = o /\ \A i \in 1 .. n : g[i] = h[i]
  OBVIOUS
<1>4. /\ u.recent = Pushed(r.recent, o)
      /\ u.agents = r.agents \cup {o.agent}
      /\ u.successes = (IF o.success THEN r.successes + 1 ELSE r.successes)
      /\ u.failures = (IF o.success THEN r.failures ELSE r.failures + 1)
  BY DEF Updated
<1>5. u.successes + u.failures = n + 1
  <2>1. r.successes \in Nat /\ r.failures \in Nat
    BY DEF Row
  <2> QED
    BY <2>1, <1>1, <1>4
<1>6. u.agents = {g[i].agent : i \in 1 .. (n + 1)}
  <2>1. ASSUME NEW i \in 1 .. (n + 1) PROVE g[i].agent \in u.agents
    <3>1. CASE i = n + 1
      BY <3>1, <1>3, <1>4
    <3>2. CASE i # n + 1
      <4>1. i \in 1 .. n
        BY <3>2, <1>2
      <4> QED
        BY <4>1, <1>1, <1>3, <1>4
    <3> QED
      BY <3>1, <3>2
  <2>2. ASSUME NEW a \in u.agents PROVE \E i \in 1 .. (n + 1) : a = g[i].agent
    <3>1. CASE a = o.agent
      <4>1. n + 1 \in 1 .. (n + 1)
        BY <1>2
      <4> QED
        BY <4>1, <3>1, <1>3
    <3>2. CASE a \in r.agents
      <4>1. PICK i \in 1 .. n : a = h[i].agent
        BY <3>2, <1>1
      <4>2. i \in 1 .. (n + 1)
        BY <1>2
      <4> QED
        BY <4>1, <4>2, <1>3
    <3> QED
      BY <3>1, <3>2, <1>4
  <2> QED
    BY <2>1, <2>2
<1>7. CASE n < MaxOutcomes
  <2>1. m = n
    BY <1>1, <1>7
  <2>2. /\ Len(u.recent) = n + 1
        /\ \A i \in 1 .. n : u.recent[i] = r.recent[i]
        /\ u.recent[n + 1] = o
    <3> DEFINE w == r.recent
    <3>1. w \in Seq(Heard) /\ Len(w) \in 1 .. MaxOutcomes /\ Len(w) = n /\ Len(w) < MaxOutcomes
      BY <2>1, <1>2, <1>7
    <3>2. /\ Len(Pushed(w, o)) = Len(w) + 1
          /\ \A i \in 1 .. Len(w) : Pushed(w, o)[i] = w[i]
          /\ Pushed(w, o)[Len(w) + 1] = o
      <4> HIDE DEF w
      <4> QED
        BY <3>1, PushedIs
    <3> QED
      BY <3>1, <3>2, <1>4
  <2>3. \A i \in 1 .. n : r.recent[i] = h[i]
    BY <2>1, <1>1, <1>2
  <2>4. \A i \in 1 .. (n + 1) : u.recent[i] = g[i]
    BY <2>2, <2>3, <1>2, <1>3
  <2>5. \A i \in 1 .. (n + 1) : u.recent[i] = g[(n + 1) - (n + 1) + i]
    <3>1. \A i \in 1 .. (n + 1) : (n + 1) - (n + 1) + i = i
      BY <1>2
    <3> QED
      BY <2>4, <3>1
  <2>6. n + 1 = (IF n + 1 < MaxOutcomes THEN n + 1 ELSE MaxOutcomes)
    BY <1>2, <1>7
  <2>7. Len(u.recent) = n + 1 /\ Len(g) = n + 1
    BY <2>2, <1>3
  <2> HIDE DEF u, g, n, m
  <2>8. Tally(u, g)
    BY <2>5, <2>6, <2>7, <1>5, <1>6 DEF Tally
  <2> QED
    BY <2>8 DEF u, g
<1>8. CASE n >= MaxOutcomes
  <2>1. m = MaxOutcomes
    BY <1>1, <1>2, <1>8
  <2>2. /\ Len(u.recent) = m
        /\ \A i \in 1 .. (m - 1) : u.recent[i] = r.recent[i + 1]
        /\ u.recent[m] = o
    <3> DEFINE w == r.recent
    <3>1. w \in Seq(Heard) /\ Len(w) \in 1 .. MaxOutcomes /\ Len(w) = MaxOutcomes
      BY <2>1, <1>2
    <3>2. /\ Len(Pushed(w, o)) = Len(w)
          /\ \A i \in 1 .. (Len(w) - 1) : Pushed(w, o)[i] = w[i + 1]
          /\ Pushed(w, o)[Len(w)] = o
      <4> HIDE DEF w
      <4> QED
        BY <3>1, PushedIs
    <3> QED
      BY <3>2, <1>4
  <2>3. ASSUME NEW i \in 1 .. m PROVE u.recent[i] = g[(n + 1) - m + i]
    <3>1. CASE i = m
      <4>1. (n + 1) - m + i = n + 1
        BY <3>1, <1>2
      <4> QED
        BY <4>1, <3>1, <2>2, <1>3
    <3>2. CASE i # m
      <4>1. i \in 1 .. (m - 1) /\ i + 1 \in 1 .. m
        BY <3>2, <1>2
      <4>2. n - m + (i + 1) \in 1 .. n /\ (n + 1) - m + i = n - m + (i + 1)
        BY <4>1, <1>2, <1>8, <2>1
      <4>3. u.recent[i] = h[n - m + (i + 1)]
        BY <4>1, <2>2, <1>1
      <4> QED
        BY <4>2, <4>3, <1>3
    <3> QED
      BY <3>1, <3>2
  <2>4. m = (IF n + 1 < MaxOutcomes THEN n + 1 ELSE MaxOutcomes)
    BY <2>1, <1>2, <1>8
  <2>5. Len(u.recent) = m /\ Len(g) = n + 1
    BY <2>2, <1>3
  <2> HIDE DEF u, g, n, m
  <2>6. Tally(u, g)
    BY <2>3, <2>4, <2>5, <1>5, <1>6 DEF Tally
  <2> QED
    BY <2>6 DEF u, g
<1> QED
  BY <1>2, <1>7, <1>8

-------------------------------------------------------------------------------
(* The table. *)

\* A row and what it has heard, or no row.
KeyOK(r, h) ==
    /\ h \in Seq(Heard)
    /\ r \in Row \cup {None}
    /\ r = None => h = <<>>
    /\ r # None => WindowOK(r) /\ Tally(r, h)

TableOK ==
    /\ pattern = [k \in Key |-> pattern[k]]
    /\ heard = [k \in Key |-> heard[k]]
    /\ \A k \in Key : KeyOK(pattern[k], heard[k])

AnswerOK ==
    answer \in [number : {0, 1}, outcome : Outcome, path : Path \cup {None}, offered : SUBSET Key]

LEMMA TableIs == TableOK /\ AnswerOK <=> TypeOK /\ Tallied
<1>1. TableOK /\ AnswerOK => TypeOK /\ Tallied
  BY DEF TableOK, AnswerOK, KeyOK, TypeOK, Tallied, Stored, WindowOK
<1>2. TypeOK /\ Tallied => TableOK /\ AnswerOK
  <2> SUFFICES ASSUME TypeOK, Tallied PROVE TableOK
    BY DEF TypeOK, AnswerOK
  <2>1. pattern \in [Key -> Row \cup {None}] /\ heard \in [Key -> Seq(Heard)]
    BY DEF TypeOK
  <2>2. ASSUME NEW k \in Key PROVE KeyOK(pattern[k], heard[k])
    BY <2>1 DEF KeyOK, TypeOK, Tallied, Stored, WindowOK
  <2> QED
    BY <2>1, <2>2 DEF TableOK
<1> QED
  BY <1>1, <1>2

LEMMA HeardOne ==
    ASSUME NEW r, NEW h, KeyOK(r, h), NEW o \in Heard, o.success \/ r # None
    PROVE  KeyOK(IF r = None THEN Learned(o) ELSE Updated(r, o), Append(h, o))
<1>1. Append(h, o) \in Seq(Heard)
  BY DEF KeyOK
<1>2. CASE r = None
  <2>1. Tally(Learned(o), Append(h, o))
    BY <1>2, LearnedTally DEF KeyOK
  <2>2. Learned(o) # None
    BY LearnedType, ConstantsOK
  <2> QED
    BY <1>1, <1>2, <2>1, <2>2, LearnedType DEF KeyOK
<1>3. CASE r # None
  <2>1. r \in Row /\ WindowOK(r) /\ h \in Seq(Heard) /\ Tally(r, h)
    BY <1>3 DEF KeyOK
  <2>2. Updated(r, o) \in Row /\ WindowOK(Updated(r, o)) /\ Tally(Updated(r, o), Append(h, o))
    BY <2>1, UpdatedType, UpdatedTally
  <2>3. Updated(r, o) # None
    BY <2>2, ConstantsOK
  <2> QED
    BY <1>1, <1>3, <2>2, <2>3 DEF KeyOK
<1> QED
  BY <1>2, <1>3

\* Recording a call leaves each row it touches with one call more, and no other.
LEMMA RecordKeeps ==
    ASSUME TableOK, NEW a \in Agent, NEW paths \in SUBSET Path, NEW shape \in Shape,
           NEW success \in BOOLEAN, Record(a, paths, shape, success)
    PROVE  TableOK'
<1> DEFINE o == [agent |-> a, success |-> success]
           touched == {k \in paths \X {shape} : k \in Stored \/ success}
<1>1. /\ pattern' = [k \in Key |->
                        IF k \notin touched THEN pattern[k]
                        ELSE IF pattern[k] = None THEN Learned(o) ELSE Updated(pattern[k], o)]
      /\ heard' = [k \in Key |-> IF k \in touched THEN Append(heard[k], o) ELSE heard[k]]
  BY DEF Record
<1>2. o \in Heard /\ o.success = success
  BY DEF Heard
<1>3. ASSUME NEW k \in touched PROVE success \/ pattern[k] # None
  BY DEF Stored
<1> HIDE DEF o, touched
<1>4. ASSUME NEW k \in Key PROVE KeyOK(pattern'[k], heard'[k])
  <2>1. KeyOK(pattern[k], heard[k])
    BY DEF TableOK
  <2>2. CASE k \in touched
    BY <1>1, <1>2, <1>3, <2>1, <2>2, HeardOne
  <2>3. CASE k \notin touched
    BY <1>1, <2>1, <2>3
  <2> QED
    BY <2>2, <2>3
<1>5. pattern' = [k \in Key |-> pattern'[k]] /\ heard' = [k \in Key |-> heard'[k]]
  BY <1>1
<1> QED
  BY <1>4, <1>5 DEF TableOK, KeyOK

LEMMA OfferKeeps ==
    ASSUME AnswerOK, NEW p \in Path, NEW outcome \in Outcome, Offer(p, outcome)
    PROVE  AnswerOK'
<1>1. PICK offered \in Suggest(pattern', p) :
        answer' = [number |-> 1 - answer.number, outcome |-> outcome, path |-> p,
                   offered |-> IF outcome \in {"error", "lost"} THEN offered ELSE {}]
  BY DEF Offer
<1>2. offered \in SUBSET Key
  BY DEF Suggest, Candidates, RowsOf
<1>3. 1 - answer.number \in {0, 1}
  BY DEF AnswerOK
<1> QED
  BY <1>1, <1>2, <1>3 DEF AnswerOK

LEMMA TableInit == Init => TableOK /\ AnswerOK
<1> SUFFICES ASSUME Init PROVE TableOK /\ AnswerOK
  OBVIOUS
<1>1. \A k \in Key : pattern[k] = None /\ heard[k] = <<>>
  BY DEF Init
<1>2. KeyOK(None, <<>>)
  <2>1. <<>> \in Seq(Heard)
    OBVIOUS
  <2> QED
    BY <2>1 DEF KeyOK
<1>3. \A k \in Key : KeyOK(pattern[k], heard[k])
  BY <1>1, <1>2
<1> QED
  BY <1>3 DEF Init, TableOK, AnswerOK, Outcome

LEMMA TableStep == TableOK /\ AnswerOK /\ [Next]_vars => (TableOK /\ AnswerOK)'
<1> SUFFICES ASSUME TableOK, AnswerOK, [Next]_vars PROVE TableOK' /\ AnswerOK'
  OBVIOUS
<1>1. ASSUME NEW a \in Agent, NEW p \in Path, NEW written \in SUBSET Path, NEW shape \in Shape,
             NEW outcome \in Outcome, ForwardHttp(a, p, written, shape, outcome)
      PROVE  TableOK' /\ AnswerOK'
  <2>1. AnswerOK'
    BY <1>1, OfferKeeps DEF ForwardHttp, Outcome
  <2>2. Record(a, written, shape, outcome = "success") /\ (outcome = "success") \in BOOLEAN
    BY <1>1 DEF ForwardHttp
  <2> QED
    BY <2>1, <2>2, RecordKeeps
<1>6. ASSUME NEW p \in Path, NEW outcome \in Outcome, LoseHttp(p, outcome)
      PROVE  TableOK' /\ AnswerOK'
  BY <1>6, OfferKeeps DEF LoseHttp, TableOK
<1>2. ASSUME NEW p \in Path, NEW outcome \in Outcome, ForwardMcp(p, outcome)
      PROVE  TableOK' /\ AnswerOK'
  <2>1. 1 - answer.number \in {0, 1}
    BY DEF AnswerOK
  <2> QED
    BY <1>2, <2>1 DEF ForwardMcp, TableOK, AnswerOK
<1>3. ASSUME NEW k \in Key, Delete(k) PROVE TableOK' /\ AnswerOK'
  <2>1. KeyOK(None, <<>>)
    BY DEF KeyOK
  <2>2. \A l \in Key : KeyOK(pattern'[l], heard'[l])
    BY <1>3, <2>1 DEF Delete, TableOK
  <2> QED
    BY <1>3, <2>2 DEF Delete, TableOK, AnswerOK
<1>4. ASSUME NEW k \in Key, TogglePin(k) PROVE TableOK' /\ AnswerOK'
  <2> DEFINE r == pattern[k]
             pinned == [r EXCEPT !.pinned = ~@]
  <2>1. r \in Row /\ WindowOK(r) /\ Tally(r, heard[k]) /\ heard[k] \in Seq(Heard)
    BY <1>4 DEF TogglePin, Stored, TableOK, KeyOK
  <2>2. /\ pinned \in Row /\ pinned.recent = r.recent /\ pinned.agents = r.agents
        /\ pinned.successes = r.successes /\ pinned.failures = r.failures
    BY <2>1 DEF Row
  <2>3. pattern' = [pattern EXCEPT ![k] = pinned] /\ heard' = heard /\ answer' = answer
    BY <1>4 DEF TogglePin
  <2>4. KeyOK(pinned, heard[k])
    <3> HIDE DEF pinned, r
    <3> QED
      BY <2>1, <2>2, ConstantsOK DEF KeyOK, WindowOK, Tally
  <2> HIDE DEF pinned
  <2>5. \A l \in Key : KeyOK(pattern'[l], heard'[l])
    BY <2>3, <2>4 DEF TableOK
  <2> QED
    BY <2>3, <2>5 DEF TableOK, AnswerOK
<1>5. CASE UNCHANGED vars
  BY <1>5 DEF vars, TableOK, AnswerOK
<1> QED
  BY <1>1, <1>2, <1>3, <1>4, <1>5, <1>6 DEF Next

LEMMA TableHolds == Spec => [](TypeOK /\ Tallied)
<1>1. Init => TableOK /\ AnswerOK
  BY TableInit
<1>2. TableOK /\ AnswerOK /\ [Next]_vars => (TableOK /\ AnswerOK)'
  BY TableStep
<1>3. TableOK /\ AnswerOK => TypeOK /\ Tallied
  BY TableIs
<1> QED
  BY <1>1, <1>2, <1>3, PTL DEF Spec

\* Rows, histories and answers keep their shape, and no window outgrows its length.
THEOREM TypeCorrect == Spec => []TypeOK
<1>1. TypeOK /\ Tallied => TypeOK
  OBVIOUS
<1> QED
  BY <1>1, TableHolds, PTL

\* A row's window, totals and agents are those of the calls recorded in it.
THEOREM TalliedHolds == Spec => []Tallied
<1>1. TypeOK /\ Tallied => Tallied
  OBVIOUS
<1> QED
  BY <1>1, TableHolds, PTL

\* A window of which more than half succeeded has a success in its later half.
LEMMA ProvenLately ==
    ASSUME NEW r \in Row, WindowOK(r), NEW h \in Seq(Heard), Tally(r, h), Proven(r)
    PROVE  LatelyWorked(h)
<1> DEFINE n == Len(h)
           m == Len(r.recent)
           half == (MaxOutcomes + 1) \div 2
           good == {i \in DOMAIN r.recent : r.recent[i].success}
<1>1. /\ m = (IF n < MaxOutcomes THEN n ELSE MaxOutcomes)
      /\ \A i \in 1 .. m : r.recent[i] = h[n - m + i]
  BY DEF Tally
<1>2. n \in Nat /\ m \in Nat /\ m <= n /\ m <= MaxOutcomes /\ DOMAIN r.recent = 1 .. m
  <2>1. r.recent \in Seq(Heard) /\ MaxOutcomes \in Nat
    BY ConstantsOK DEF Row
  <2> QED
    BY <2>1, <1>1
<1>3. half \in Nat /\ MaxOutcomes <= 2 * half
  BY ConstantsOK
<1>4. DOMAIN h = 1 .. n
  OBVIOUS
<1>5. 2 * Cardinality(good) > m
  BY DEF Proven, Successes
<1>6. \A i \in good : i \in 1 .. m /\ h[n - m + i].success
  BY <1>1, <1>2
<1> HIDE DEF half, n, m, good
<1>7. SUFFICES ASSUME \A i \in 1 .. n : i > n - half => ~h[i].success
               PROVE  FALSE
  BY <1>4 DEF LatelyWorked, n, half
<1>8. m - half \in Int /\ 2 * (m - half) <= m
  BY <1>2, <1>3, ConstantsOK
<1>9. good \subseteq 1 .. (m - half)
  <2> SUFFICES ASSUME NEW i \in good PROVE i \in 1 .. (m - half)
    OBVIOUS
  <2>1. i \in 1 .. m /\ n - m + i \in 1 .. n /\ h[n - m + i].success
    BY <1>2, <1>6
  <2>2. ~(n - m + i > n - half)
    BY <2>1, <1>7
  <2> QED
    BY <2>1, <2>2, <1>2, <1>3
<1>10. /\ IsFiniteSet(1 .. (m - half))
       /\ Cardinality(1 .. (m - half)) = IF 1 > m - half THEN 0 ELSE (m - half) - 1 + 1
  BY <1>8, FS_Interval
<1>11. Cardinality(good) \in Nat /\ Cardinality(good) <= Cardinality(1 .. (m - half))
  BY <1>9, <1>10, FS_Subset, FS_CardinalityType
<1> QED
  BY <1>2, <1>5, <1>10, <1>11, <1>8

LEMMA OfferStep ==
    ASSUME [Next]_vars, answer' # answer, NEW k \in answer'.offered
    PROVE  pattern'[k] # None /\ (pattern'[k].pinned \/ Proven(pattern'[k]))
<1>1. ASSUME NEW p, NEW outcome, Offer(p, outcome)
      PROVE  pattern'[k] # None /\ (pattern'[k].pinned \/ Proven(pattern'[k]))
  <2>1. PICK offered \in Suggest(pattern', p) :
        answer' = [number |-> 1 - answer.number, outcome |-> outcome, path |-> p,
                   offered |-> IF outcome \in {"error", "lost"} THEN offered ELSE {}]
    BY <1>1 DEF Offer
  <2>2. k \in offered
    BY <2>1
  <2> QED
    BY <2>2 DEF Suggest, Candidates, RowsOf
<1>2. ASSUME NEW p, NEW outcome, ForwardMcp(p, outcome) PROVE FALSE
  BY <1>2 DEF ForwardMcp
<1>3. ASSUME NEW l, Delete(l) \/ TogglePin(l) PROVE FALSE
  BY <1>3 DEF Delete, TogglePin
<1>4. ~UNCHANGED vars
  BY DEF vars
<1> QED
  BY <1>1, <1>2, <1>3, <1>4 DEF Next, ForwardHttp, LoseHttp

LEMMA DroppedStep ==
    ASSUME [Next]_vars, TableOK', AnswerOK', answer' # answer, NEW k \in answer'.offered
    PROVE  pattern'[k] # None /\ (pattern'[k].pinned \/ LatelyWorked(heard'[k]))
<1>1. pattern'[k] # None /\ (pattern'[k].pinned \/ Proven(pattern'[k]))
  BY OfferStep
<1>2. KeyOK(pattern'[k], heard'[k])
  BY DEF AnswerOK, TableOK
<1>3. /\ pattern'[k] \in Row /\ WindowOK(pattern'[k])
      /\ heard'[k] \in Seq(Heard) /\ Tally(pattern'[k], heard'[k])
  BY <1>1, <1>2 DEF KeyOK
<1> QED
  BY <1>1, <1>3, ProvenLately

\* Nobody is offered a pattern that is not pinned and whose last recorded calls, as many as
\* half the window, have all failed.
THEOREM FailingDropped == Spec => FailingIsDropped
<1>1. Init => TableOK /\ AnswerOK
  BY TableInit
<1>2. TableOK /\ AnswerOK /\ [Next]_vars => (TableOK /\ AnswerOK)'
  BY TableStep
<1>3. TableOK /\ AnswerOK /\ TableOK' /\ AnswerOK' /\ [Next]_vars =>
        [answer' # answer =>
            \A k \in answer'.offered :
                pattern'[k] # None /\ (pattern'[k].pinned \/ LatelyWorked(heard'[k]))]_vars
  BY DroppedStep
<1> QED
  BY <1>1, <1>2, <1>3, PTL DEF Spec, FailingIsDropped
===============================================================================
