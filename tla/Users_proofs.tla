------------------------------ MODULE Users_proofs ------------------------------
(***************************************************************************)
(* Proofs about Users, for every set of users, addresses and SSO states,   *)
(* every number of concurrent requests and every lifetime and limit.       *)
(***************************************************************************)
EXTENDS Users, FiniteSetTheorems, TLAPS

\* What a request in progress refers to, by how far it has come.
Refers(s) ==
    /\ s.kind = "idle" => s.ip = None
    /\ s.kind \in {"entered", "login", "recovery", "sso"} => s.ip \in Ip
    /\ s.kind \in {"session", "login", "recovery", "verify", "regenerate", "disable",
                   "create", "update"} => s.user \in User
    /\ s.kind = "sso" => s.state \in State

References == \A c \in Call : Refers(call[c])

\* A secret that is being verified has been shown a code for.
Activation ==
    /\ ActiveWasVerified
    /\ \A c \in Call : call[c].kind = "verify" => call[c].secret \in verified \ {0}

\* The codes of the sets drawn so far.
DrawnCodes(n) == (1..n) \X (1..CodesPerSet)

\* No code is known before its set was drawn; a user's list holds none that
\* was used, unless a login overtook another; a login has its code in its list.
Recovery ==
    /\ \A u \in User :
          /\ user[u].codes \subseteq DrawnCodes(sets)
          /\ used[u] \subseteq DrawnCodes(sets)
          /\ u \notin overtaken => user[u].codes \cap used[u] = {}
    /\ \A c \in Call : call[c].kind = "recovery" =>
          /\ call[c].codes \subseteq DrawnCodes(sets)
          /\ call[c].code # None => call[c].code \in call[c].codes

\* While a window is open, its count and the requests that can still fail
\* stay within the bound together.
InFlight(i) == {c \in Call : call[c].ip = i}

Limited ==
    \A i \in Ip :
        /\ failed[i].left = 0 => failed[i].count = 0
        /\ failed[i].left > 0 =>
              failed[i].count + Cardinality(InFlight(i)) <= MaxFailed + Cardinality(Call)

\* A callback in progress is the only one of its state, which is gone and has
\* signed nobody in.
OneCallback ==
    /\ \A s \in State : signedIn[s] # 0 => state[s].status = "gone" /\ signedIn[s] = 1
    /\ \A c \in Call : call[c].kind = "sso" =>
          state[call[c].state].status = "gone" /\ signedIn[call[c].state] = 0
    /\ \A c, d \in Call : call[c].kind = "sso" /\ call[d].kind = "sso"
                            /\ call[c].state = call[d].state => c = d

IInv == TypeOK /\ References /\ Activation /\ Recovery /\ Limited /\ OneCallback

-------------------------------------------------------------------------------
(* Records.                                                                *)

LEMMA IdleOK == Idle \in CallState /\ Refers(Idle)
BY ConstantsOK DEF Idle, CallState, Kind, Secret, Refers

LEMMA RowsOK ==
    /\ NoUser \in UserRow
    /\ NoState \in [status : {"absent", "live", "gone"}, left : 0..StateTtl]
    /\ NoFailure \in [count : Nat, left : 0..Window]
<1>1. NoUser \in UserRow
  BY ConstantsOK DEF NoUser, UserRow, Secret
<1>2. NoState \in [status : {"absent", "live", "gone"}, left : 0..StateTtl]
  BY ConstantsOK DEF NoState
<1>3. NoFailure \in [count : Nat, left : 0..Window]
  BY ConstantsOK DEF NoFailure
<1> QED
  BY <1>1, <1>2, <1>3

LEMMA InitOK == Init => IInv
<1> SUFFICES ASSUME Init PROVE IInv
  OBVIOUS
<1>1. TypeOK
  BY IdleOK, RowsOK, ConstantsOK DEF Init, TypeOK, Secret
<1>2. References
  BY IdleOK DEF Init, References
<1>3. Activation
  BY DEF Init, Activation, ActiveWasVerified, NoUser, Idle
<1>4. Recovery
  BY DEF Init, Recovery, NoUser, Idle
<1>5. Limited
  BY DEF Init, Limited, NoFailure
<1>6. OneCallback
  BY DEF Init, OneCallback, Idle
<1> QED
  BY <1>1, <1>2, <1>3, <1>4, <1>5, <1>6 DEF IInv

-------------------------------------------------------------------------------
(* Types and references.                                                   *)

\* A request comes to a state it is fit to be in; nothing else changes.
LEMMA CallTypes ==
    ASSUME TypeOK, References, NEW c \in Call, NEW s \in CallState, Refers(s),
           call' = [call EXCEPT ![c] = s],
           UNCHANGED <<account, recovery, session, sso, failed>>
    PROVE  TypeOK' /\ References'
<1>1. TypeOK'
  BY DEF TypeOK, account, recovery, session, sso
<1>2. References'
  BY DEF TypeOK, References
<1> QED
  BY <1>1, <1>2

LEMMA ArriveTypes ==
    ASSUME TypeOK, References, NEW c \in Call, Arrive(c)
    PROVE  TypeOK' /\ References'
<1>1. ASSUME NEW i \in Ip, Enter(c, i) PROVE TypeOK' /\ References'
  <2> DEFINE s == [Idle EXCEPT !.kind = "entered", !.ip = i]
  <2>1. s \in CallState /\ Refers(s)
    BY IdleOK DEF Idle, CallState, Kind, Refers
  <2> QED
    BY <1>1, <2>1, CallTypes DEF Enter
<1>2. ASSUME NEW i \in Ip, NEW s \in State, SsoCallback(c, i, s)
      PROVE  TypeOK' /\ References'
  <2> DEFINE r == [Idle EXCEPT !.kind = "sso", !.ip = i, !.state = s]
  <2>1. r \in CallState /\ Refers(r)
    BY IdleOK DEF Idle, CallState, Kind, Refers
  <2>2. call' \in [Call -> CallState] /\ References'
    BY <1>2, <2>1 DEF TypeOK, References, SsoCallback
  <2>3. state' \in [State -> [status : {"absent", "live", "gone"}, left : 0..StateTtl]]
    BY <1>2, ConstantsOK DEF TypeOK, SsoCallback
  <2> QED
    BY <1>2, <2>2, <2>3 DEF TypeOK, SsoCallback, account, recovery, session
<1>3. ASSUME NEW u \in User, NEW kind \in {"session", "create", "update"},
             call[c].kind = "idle", Becomes(c, kind, u),
             UNCHANGED <<account, recovery, session, sso, failed>>
      PROVE  TypeOK' /\ References'
  <2> DEFINE s == [call[c] EXCEPT !.kind = kind, !.user = u]
  <2>1. call[c] \in CallState
    BY DEF TypeOK
  <2>2. s \in CallState /\ Refers(s)
    BY <2>1, <1>3 DEF CallState, Kind, Refers
  <2> QED
    BY <1>3, <2>2, CallTypes DEF Becomes
<1>4. ASSUME NEW u \in User, Begin(c, u) \/ CreateStart(c, u) \/ UpdateStart(c, u)
      PROVE  TypeOK' /\ References'
  <2>1. CASE Begin(c, u)
    BY <2>1, <1>3 DEF Begin
  <2>2. CASE CreateStart(c, u)
    BY <2>2, <1>3 DEF CreateStart
  <2>3. CASE UpdateStart(c, u)
    BY <2>3, <1>3 DEF UpdateStart
  <2> QED
    BY <1>4, <2>1, <2>2, <2>3
<1> QED
  BY <1>1, <1>2, <1>4 DEF Arrive

LEMMA NewSessionOK ==
    ASSUME TypeOK, NEW u \in User
    PROVE  /\ jwt \cup {[user |-> u, left |-> JwtTtl]} \subseteq Held(JwtTtl)
           /\ pre \cup {[user |-> u, left |-> PreTtl]} \subseteq Held(PreTtl)
BY ConstantsOK DEF TypeOK, Held

\* A request is answered, having written what is well-formed.
LEMMA DoneTypes ==
    ASSUME References, TypeOK, NEW c \in Call, Done(c)
    PROVE  call' \in [Call -> CallState] /\ References'
BY IdleOK DEF Done, TypeOK, References

LEMMA RecordFailureOK ==
    ASSUME TypeOK, NEW i \in Ip, RecordFailure(i)
    PROVE  failed' \in [Ip -> [count : Nat, left : 0..Window]]
<1>1. failed[i].count \in Nat /\ failed[i].left \in 0..Window /\ Window \in 0..Window
  BY ConstantsOK DEF TypeOK
<1>2. [count |-> 1, left |-> Window] \in [count : Nat, left : 0..Window]
  BY <1>1
<1>3. [count |-> failed[i].count + 1, left |-> failed[i].left] \in [count : Nat, left : 0..Window]
  BY <1>1 DEF TypeOK
<1> QED
  BY <1>2, <1>3 DEF RecordFailure, TypeOK

LEMMA FailTypes ==
    ASSUME TypeOK, References, NEW c \in Call,
           call[c].kind \in {"entered", "login", "recovery", "sso"}, Fail(c)
    PROVE  TypeOK' /\ References'
<1>1. call[c].ip \in Ip
  BY DEF References, Refers
<1>2. failed' \in [Ip -> [count : Nat, left : 0..Window]]
  BY <1>1, RecordFailureOK DEF Fail
<1> QED
  BY <1>2, DoneTypes DEF Fail, TypeOK, account, recovery, session, sso

LEMMA ProceedTypes ==
    ASSUME TypeOK, References, NEW c \in Call, Proceed(c)
    PROVE  TypeOK' /\ References'
<1> USE DEF Kind
<1>0. call[c] \in CallState /\ Refers(call[c])
  BY DEF TypeOK, References
<1>1. ASSUME NEW u \in User, LoginRead(c, u) PROVE TypeOK' /\ References'
  <2> DEFINE s == [call[c] EXCEPT !.kind = "login", !.user = u, !.factor = Factor(u)]
  <2>1. Factor(u) \in BOOLEAN
    BY DEF TypeOK, UserRow, Factor
  <2>2. s \in CallState
    BY <1>0, <2>1 DEF CallState
  <2>3. Refers(s)
    BY <1>0, <1>1 DEF CallState, Refers, LoginRead
  <2> HIDE DEF s
  <2>4. call' = [call EXCEPT ![c] = s]
    BY <1>1 DEF LoginRead, s
  <2> QED
    BY <1>1, <2>2, <2>3, <2>4, CallTypes DEF LoginRead
<1>2. ASSUME NEW p \in pre, CodeLogin(c, p) PROVE TypeOK' /\ References'
  <2>1. p.user \in User
    BY DEF TypeOK, Held
  <2>2. jwt' \subseteq Held(JwtTtl)
    BY <1>2, <2>1, NewSessionOK DEF CodeLogin, NewSession
  <2> QED
    BY <1>2, <2>2, DoneTypes DEF CodeLogin, TypeOK, account, recovery, sso
<1>3. ASSUME NEW p \in pre, NEW code \in Code \cup {None}, RecoveryRead(c, p, code)
      PROVE  TypeOK' /\ References'
  <2> DEFINE s == [call[c] EXCEPT !.kind = "recovery", !.user = p.user,
                                  !.codes = user[p.user].codes, !.code = code]
  <2>1. p.user \in User
    BY DEF TypeOK, Held
  <2>2. user[p.user].codes \in SUBSET Code
    BY <2>1 DEF TypeOK, UserRow
  <2>3. s \in CallState
    BY <1>0, <2>1, <2>2 DEF CallState
  <2>4. Refers(s)
    BY <1>0, <1>3, <2>1 DEF CallState, Refers, RecoveryRead
  <2> HIDE DEF s
  <2>5. call' = [call EXCEPT ![c] = s]
    BY <1>3 DEF RecoveryRead, s
  <2> QED
    BY <1>3, <2>3, <2>4, <2>5, CallTypes DEF RecoveryRead
<1>4. ASSUME NEW j \in jwt, Refresh(c, j) PROVE TypeOK' /\ References'
  <2>1. j.user \in User
    BY DEF TypeOK, Held
  <2>2. jwt' \subseteq Held(JwtTtl)
    BY <1>4, <2>1, NewSessionOK DEF Refresh, NewSession
  <2> QED
    BY <1>4, <2>2, DoneTypes DEF Refresh, TypeOK, account, recovery, sso
<1>5. ASSUME VerifyRead(c) PROVE TypeOK' /\ References'
  <2> DEFINE u == call[c].user
             s == [call[c] EXCEPT !.kind = "verify", !.secret = user[u].secret]
  <2>1. u \in User
    BY <1>0, <1>5 DEF Refers, VerifyRead
  <2>2. user[u].secret \in Secret
    BY <2>1 DEF TypeOK, UserRow
  <2>3. s \in CallState
    BY <1>0, <2>2 DEF CallState
  <2>4. Refers(s)
    BY <1>0, <1>5 DEF CallState, Refers, VerifyRead
  <2> HIDE DEF s
  <2>5. call' = [call EXCEPT ![c] = s]
    BY <1>5 DEF VerifyRead, s
  <2>6. call' \in [Call -> CallState] /\ References'
    BY <2>3, <2>4, <2>5 DEF TypeOK, References
  <2>7. verified' \subseteq Secret
    BY <1>5, <2>2 DEF VerifyRead, TypeOK
  <2> QED
    BY <1>5, <2>6, <2>7 DEF VerifyRead, TypeOK, recovery, session, sso
<1>6. ASSUME NEW kind \in {"regenerate", "disable"}, call[c].kind = "session",
             Becomes(c, kind, call[c].user),
             UNCHANGED <<account, recovery, session, sso, failed>>
      PROVE  TypeOK' /\ References'
  <2> DEFINE s == [call[c] EXCEPT !.kind = kind, !.user = call[c].user]
  <2>1. s \in CallState /\ Refers(s)
    BY <1>0, <1>6 DEF CallState, Refers
  <2> QED
    BY <1>6, <2>1, CallTypes DEF Becomes
<1>7. ASSUME RegenerateRead(c) \/ DisableRead(c) PROVE TypeOK' /\ References'
  BY <1>6, <1>7 DEF RegenerateRead, DisableRead
<1> QED
  BY <1>1, <1>2, <1>3, <1>4, <1>5, <1>7 DEF Proceed

\* The rows a request may write.
LEMMA PatchedOK ==
    ASSUME TypeOK, NEW u \in User, NEW row \in UserRow
    PROVE  Patched(u, row) \in [User -> UserRow]
BY DEF Patched, TypeOK

LEMMA RowsWritten ==
    ASSUME NEW row \in UserRow, NEW codes \in SUBSET Code, NEW enabled \in BOOLEAN
    PROVE  /\ [row EXCEPT !.codes = codes] \in UserRow
           /\ [row EXCEPT !.totp = TRUE, !.codes = codes] \in UserRow
           /\ [row EXCEPT !.enabled = enabled] \in UserRow
           /\ NoTotp(row) \in UserRow
<1>1. 0 \in Secret
  BY ConstantsOK DEF Secret
<1> QED
  BY <1>1 DEF UserRow, NoTotp

LEMMA CodesOfOK ==
    ASSUME TypeOK, sets < MaxDraw
    PROVE  sets + 1 \in Secret /\ CodesOf(sets + 1) \subseteq Code
<1>1. sets + 1 \in 1..MaxDraw /\ sets + 1 \in Secret
  BY ConstantsOK DEF TypeOK, Secret
<1> QED
  BY <1>1 DEF CodesOf, Code

LEMMA ResumeTypes ==
    ASSUME TypeOK, References, NEW c \in Call, Resume(c)
    PROVE  TypeOK' /\ References'
<1>0. call[c] \in CallState /\ Refers(call[c])
  BY DEF TypeOK, References
<1>1. ASSUME LoginFinish(c) PROVE TypeOK' /\ References'
  <2>1. call[c].user \in User
    BY <1>0, <1>1 DEF Refers, LoginFinish
  <2>2. jwt' \subseteq Held(JwtTtl) /\ pre' \subseteq Held(PreTtl)
    BY <1>1, <2>1, NewSessionOK DEF LoginFinish, NewSession, TypeOK
  <2> QED
    BY <1>1, <2>2, DoneTypes DEF LoginFinish, TypeOK, account, recovery, sso
<1>2. ASSUME RecoveryFinish(c) PROVE TypeOK' /\ References'
  <2> DEFINE u == call[c].user
  <2>1. u \in User /\ call[c].codes \in SUBSET Code /\ call[c].code \in Code
    BY <1>0, <1>2 DEF Refers, RecoveryFinish, CallState
  <2>2. [user[u] EXCEPT !.codes = call[c].codes \ {call[c].code}] \in UserRow
    BY <2>1, RowsWritten DEF TypeOK
  <2>3. user' \in [User -> UserRow]
    BY <1>2, <2>1, <2>2, PatchedOK DEF RecoveryFinish
  <2>4. used' \in [User -> SUBSET Code] /\ overtaken' \subseteq User
    BY <1>2, <2>1 DEF RecoveryFinish, TypeOK
  <2>5. jwt' \subseteq Held(JwtTtl)
    BY <1>2, <2>1, NewSessionOK DEF RecoveryFinish, NewSession
  <2> QED
    BY <1>2, <2>3, <2>4, <2>5, DoneTypes DEF RecoveryFinish, TypeOK, sso
<1>3. ASSUME VerifyFinish(c) PROVE TypeOK' /\ References'
  <2> DEFINE u == call[c].user
  <2>1. u \in User /\ sets < MaxDraw
    BY <1>0, <1>3 DEF Refers, VerifyFinish
  <2>2. [user[u] EXCEPT !.totp = TRUE, !.codes = CodesOf(sets + 1)] \in UserRow
    BY <2>1, RowsWritten, CodesOfOK DEF TypeOK
  <2>3. user' \in [User -> UserRow]
    BY <1>3, <2>1, <2>2, PatchedOK DEF VerifyFinish
  <2>4. sets' \in Secret /\ raced' \subseteq User
    BY <1>3, <2>1, CodesOfOK DEF VerifyFinish, TypeOK
  <2> QED
    BY <1>3, <2>3, <2>4, DoneTypes DEF VerifyFinish, TypeOK, recovery, session, sso
<1>4. ASSUME RegenerateFinish(c) PROVE TypeOK' /\ References'
  <2> DEFINE u == call[c].user
  <2>1. u \in User /\ sets < MaxDraw
    BY <1>0, <1>4 DEF Refers, RegenerateFinish
  <2>2. [user[u] EXCEPT !.codes = CodesOf(sets + 1)] \in UserRow
    BY <2>1, RowsWritten, CodesOfOK DEF TypeOK
  <2>3. user' \in [User -> UserRow]
    BY <1>4, <2>1, <2>2, PatchedOK DEF RegenerateFinish
  <2>4. sets' \in Secret
    BY <1>4, <2>1, CodesOfOK DEF RegenerateFinish
  <2> QED
    BY <1>4, <2>3, <2>4, DoneTypes DEF RegenerateFinish, TypeOK, recovery, session, sso
<1>5. ASSUME DisableFinish(c) PROVE TypeOK' /\ References'
  <2>1. call[c].user \in User
    BY <1>0, <1>5 DEF Refers, DisableFinish
  <2>2. NoTotp(user[call[c].user]) \in UserRow
    BY <2>1, RowsWritten DEF TypeOK
  <2>3. user' \in [User -> UserRow]
    BY <1>5, <2>1, <2>2, PatchedOK DEF DisableFinish
  <2> QED
    BY <1>5, <2>3, DoneTypes DEF DisableFinish, TypeOK, recovery, session, sso
<1>6. ASSUME CreateFinish(c) PROVE TypeOK' /\ References'
  <2>1. [NoUser EXCEPT !.present = TRUE, !.enabled = TRUE] \in UserRow
    BY RowsOK DEF UserRow
  <2>2. user' \in [User -> UserRow]
    BY <1>6, <2>1 DEF CreateFinish, TypeOK
  <2> QED
    BY <1>6, <2>2, DoneTypes DEF CreateFinish, TypeOK, recovery, session, sso
<1>7. ASSUME NEW enabled \in BOOLEAN, NEW reset \in BOOLEAN,
             UpdateFinish(c, enabled, reset)
      PROVE  TypeOK' /\ References'
  <2> DEFINE u == call[c].user
             row == [user[u] EXCEPT !.enabled = enabled]
             new == IF reset THEN NoTotp(row) ELSE row
  <2>1. u \in User
    BY <1>0, <1>7 DEF Refers, UpdateFinish
  <2>2. row \in UserRow
    BY <2>1, RowsWritten DEF TypeOK
  <2>3. new \in UserRow
    BY <2>2, RowsWritten
  <2> HIDE DEF row, new
  <2>4. user' = Patched(u, new)
    BY <1>7 DEF UpdateFinish, row, new
  <2>5. user' \in [User -> UserRow]
    BY <2>1, <2>3, <2>4, PatchedOK
  <2> QED
    BY <1>7, <2>5, DoneTypes DEF UpdateFinish, TypeOK, recovery, session, sso
<1>8. ASSUME NEW u \in User, SsoFinish(c, u) PROVE TypeOK' /\ References'
  <2>1. jwt' \subseteq Held(JwtTtl)
    BY <1>8, NewSessionOK DEF SsoFinish, NewSession
  <2>2. signedIn' \in [State -> Nat]
    BY <1>8, <1>0 DEF SsoFinish, TypeOK, Refers
  <2> QED
    BY <1>8, <2>1, <2>2, DoneTypes DEF SsoFinish, TypeOK, account, recovery
<1>9. ASSUME LoginFail(c) \/ RecoveryFail(c) \/ SsoFail(c) \/ Refused(c)
      PROVE  TypeOK' /\ References'
  BY <1>9, FailTypes DEF LoginFail, RecoveryFail, SsoFail, Refused
<1>10. ASSUME GiveUp(c) PROVE TypeOK' /\ References'
  BY <1>10, IdleOK, CallTypes DEF GiveUp, Done
<1> QED
  BY <1>1, <1>2, <1>3, <1>4, <1>5, <1>6, <1>7, <1>8, <1>9, <1>10 DEF Resume

LEMMA OtherTypes ==
    ASSUME TypeOK, References,
           \/ \E u \in User : Setup(u) \/ DeleteUser(u)
           \/ \E i \in Ip : SsoInvalid(i) \/ \E s \in State : SsoStart(i, s)
           \/ SsoReap \/ Tick \/ Crash
    PROVE  TypeOK' /\ References'
<1>1. ASSUME NEW u \in User, Setup(u) PROVE TypeOK' /\ References'
  <2>1. drawn + 1 \in Secret
    BY <1>1, ConstantsOK DEF Setup, TypeOK, Secret
  <2> DEFINE row == [user[u] EXCEPT !.secret = drawn + 1, !.totp = FALSE]
  <2>0. row \in UserRow
    <3>1. user[u] \in UserRow
      BY DEF TypeOK
    <3> QED
      BY <2>1, <3>1 DEF UserRow
  <2>2. user' \in [User -> UserRow]
    <3>1. user' = [user EXCEPT ![u] = row]
      BY <1>1 DEF Setup
    <3> QED
      BY <2>0, <3>1 DEF TypeOK
  <2>3. TypeOK'
    BY <1>1, <2>1, <2>2, SMTT(30) DEF Setup, TypeOK, recovery, session, sso
  <2>4. References'
    BY <1>1, SMTT(30) DEF Setup, References, TypeOK, recovery, session, sso
  <2> QED
    BY <2>3, <2>4
<1>2. ASSUME NEW u \in User, DeleteUser(u) PROVE TypeOK' /\ References'
  <2>1. user' \in [User -> UserRow]
    BY <1>2, RowsOK DEF DeleteUser, TypeOK
  <2> QED
    BY <1>2, <2>1 DEF DeleteUser, TypeOK, References, recovery, session, sso
<1>3. ASSUME NEW i \in Ip, SsoInvalid(i) PROVE TypeOK' /\ References'
  <2>1. failed' \in [Ip -> [count : Nat, left : 0..Window]]
    BY <1>3, RecordFailureOK DEF SsoInvalid
  <2> QED
    BY <1>3, <2>1 DEF SsoInvalid, TypeOK, References, account, recovery, session, sso
<1>4. ASSUME NEW i \in Ip, NEW s \in State, SsoStart(i, s) PROVE TypeOK' /\ References'
  <2>1. state' \in [State -> [status : {"absent", "live", "gone"}, left : 0..StateTtl]]
    BY <1>4, ConstantsOK DEF SsoStart, TypeOK
  <2> QED
    BY <1>4, <2>1 DEF SsoStart, TypeOK, References, account, recovery, session
<1>5. ASSUME SsoReap PROVE TypeOK' /\ References'
  <2>1. state' \in [State -> [status : {"absent", "live", "gone"}, left : 0..StateTtl]]
    BY <1>5, ConstantsOK DEF SsoReap, TypeOK
  <2> QED
    BY <1>5, <2>1 DEF SsoReap, TypeOK, References, account, recovery, session
<1>6. ASSUME Tick PROVE TypeOK' /\ References'
  <2>1. Older(jwt) \subseteq Held(JwtTtl) /\ Older(pre) \subseteq Held(PreTtl)
    BY ConstantsOK DEF TypeOK, Older, Held
  <2>2. state' \in [State -> [status : {"absent", "live", "gone"}, left : 0..StateTtl]]
    <3> SUFFICES ASSUME NEW s \in State
                 PROVE  [state[s] EXCEPT !.left = IF state[s].left = 0 THEN 0
                                                  ELSE state[s].left - 1]
                          \in [status : {"absent", "live", "gone"}, left : 0..StateTtl]
      BY <1>6 DEF Tick
    <3>1. state[s] \in [status : {"absent", "live", "gone"}, left : 0..StateTtl]
      BY DEF TypeOK
    <3>2. (IF state[s].left = 0 THEN 0 ELSE state[s].left - 1) \in 0..StateTtl
      BY <3>1, ConstantsOK
    <3> QED
      BY <3>1, <3>2
  <2>3. failed' \in [Ip -> [count : Nat, left : 0..Window]]
    <3> SUFFICES ASSUME NEW i \in Ip, ~(failed[i].left <= 1)
                 PROVE  [failed[i] EXCEPT !.left = failed[i].left - 1]
                          \in [count : Nat, left : 0..Window]
      BY <1>6, RowsOK DEF Tick
    <3>1. failed[i] \in [count : Nat, left : 0..Window]
      BY DEF TypeOK
    <3>2. failed[i].left \in 0..Window
      BY <3>1
    <3>3. failed[i].left - 1 \in 0..Window
      BY <3>2, ConstantsOK
    <3> QED
      BY <3>1, <3>3
  <2> QED
    BY <1>6, <2>1, <2>2, <2>3 DEF Tick, TypeOK, References, account, recovery
<1>7. ASSUME Crash PROVE TypeOK' /\ References'
  BY <1>7, IdleOK, RowsOK DEF Crash, TypeOK, References, account, recovery, session, sso
<1> QED
  BY <1>1, <1>2, <1>3, <1>4, <1>5, <1>6, <1>7

LEMMA TypesStep == TypeOK /\ References /\ [Next]_vars => TypeOK' /\ References'
<1> SUFFICES ASSUME TypeOK, References, [Next]_vars PROVE TypeOK' /\ References'
  OBVIOUS
<1>1. CASE Next
  BY <1>1, ArriveTypes, ProceedTypes, ResumeTypes, OtherTypes DEF Next
<1>2. CASE UNCHANGED vars
  BY <1>2 DEF vars, account, recovery, session, sso, TypeOK, References
<1> QED
  BY <1>1, <1>2

\* Rows, tokens, requests and the limiter keep their shape: what a request
\* read before an await is fit to be written after it.
THEOREM TypeCorrect == Spec => []TypeOK
<1>1. Init => TypeOK /\ References
  BY InitOK DEF IInv
<1> QED
  BY <1>1, TypesStep, PTL DEF Spec

-------------------------------------------------------------------------------
(* What a step does to the functions it updates.                           *)

LEMMA CallChange ==
    ASSUME TypeOK, NEW c \in Call, NEW s, call' = [call EXCEPT ![c] = s]
    PROVE  call'[c] = s /\ \A d \in Call : d # c => call'[d] = call[d]
BY DEF TypeOK

LEMMA CallDone ==
    ASSUME TypeOK, NEW c \in Call, Done(c)
    PROVE  call'[c] = Idle /\ call'[c].kind = "idle"
           /\ \A d \in Call : d # c => call'[d] = call[d]
<1>1. call'[c] = Idle /\ \A d \in Call : d # c => call'[d] = call[d]
  BY DEF Done, TypeOK
<1> QED
  BY <1>1 DEF Idle

LEMMA RowChange ==
    ASSUME TypeOK, NEW u \in User, NEW row, user' = Patched(u, row)
    PROVE  /\ user'[u] = IF user[u].present THEN row ELSE user[u]
           /\ \A v \in User : v # u => user'[v] = user[v]
BY DEF TypeOK, Patched

LEMMA RowShape == ASSUME TypeOK, NEW u \in User PROVE user[u] \in UserRow
BY DEF TypeOK

\* The codes of a row as it may be written.
LEMMA RowCodes ==
    ASSUME NEW row \in UserRow, NEW codes, NEW enabled
    PROVE  /\ [row EXCEPT !.codes = codes].codes = codes
           /\ [row EXCEPT !.totp = TRUE, !.codes = codes].codes = codes
           /\ [row EXCEPT !.enabled = enabled].codes = row.codes
           /\ [row EXCEPT !.secret = enabled, !.totp = FALSE].codes = row.codes
           /\ NoTotp(row).codes = {}
           /\ NoTotp([row EXCEPT !.enabled = enabled]).codes = {}
<1>1. [row EXCEPT !.codes = codes].codes = codes
  BY DEF UserRow
<1>2. [row EXCEPT !.totp = TRUE, !.codes = codes].codes = codes
  BY DEF UserRow
<1>3. [row EXCEPT !.enabled = enabled].codes = row.codes
  BY DEF UserRow
<1>4. [row EXCEPT !.secret = enabled, !.totp = FALSE].codes = row.codes
  BY DEF UserRow
<1>5. NoTotp(row).codes = {}
  BY DEF UserRow, NoTotp
<1>6. NoTotp([row EXCEPT !.enabled = enabled]).codes = {}
  BY DEF UserRow, NoTotp
<1> QED
  BY <1>1, <1>2, <1>3, <1>4, <1>5, <1>6

-------------------------------------------------------------------------------
(* Most steps leave the rows and the codes alone, and no request comes to  *)
(* hold a secret or codes by them.                                         *)

QuietAccounts ==
    /\ UNCHANGED <<account, recovery>>
    /\ \A d \in Call : call'[d] = call[d] \/ call'[d].kind \notin {"verify", "recovery"}

\* The steps that do touch them.
AccountStep ==
    \/ \E c \in Call :
          \/ \E p \in pre, code \in Code \cup {None} : RecoveryRead(c, p, code)
          \/ RecoveryFinish(c)
          \/ VerifyRead(c) \/ VerifyFinish(c)
          \/ RegenerateFinish(c) \/ DisableFinish(c) \/ CreateFinish(c)
          \/ \E enabled, reset \in BOOLEAN : UpdateFinish(c, enabled, reset)
    \/ \E u \in User : Setup(u) \/ DeleteUser(u)

LEMMA AccountCases ==
    ASSUME TypeOK, [Next]_vars
    PROVE  QuietAccounts \/ AccountStep
<1> USE DEF account, recovery
<1>1. ASSUME NEW c \in Call, Arrive(c) PROVE QuietAccounts
  <2>1. ASSUME NEW i \in Ip, Enter(c, i) \/ \E s \in State : SsoCallback(c, i, s)
        PROVE  QuietAccounts
    <3>1. CASE Enter(c, i)
      BY <3>1 DEF Enter, QuietAccounts, TypeOK, Idle
    <3>2. ASSUME NEW s \in State, SsoCallback(c, i, s) PROVE QuietAccounts
      BY <3>2 DEF SsoCallback, QuietAccounts, TypeOK, Idle
    <3> QED
      BY <2>1, <3>1, <3>2
  <2>2. ASSUME NEW u \in User, Begin(c, u) \/ CreateStart(c, u) \/ UpdateStart(c, u)
        PROVE  QuietAccounts
    <3>1. PICK kind \in {"session", "create", "update"} : Becomes(c, kind, u)
      BY <2>2 DEF Begin, CreateStart, UpdateStart
    <3>2. /\ \A d \in Call : d # c => call'[d] = call[d]
          /\ call'[c].kind = kind
      BY <3>1 DEF Becomes, TypeOK, CallState
    <3> QED
      BY <2>2, <3>2, SMTT(30) DEF Begin, CreateStart, UpdateStart, QuietAccounts
  <2> QED
    BY <1>1, <2>1, <2>2 DEF Arrive
<1>2. ASSUME NEW c \in Call, Proceed(c) PROVE QuietAccounts \/ AccountStep
  <2>1. ASSUME NEW u \in User, LoginRead(c, u) PROVE QuietAccounts
    BY <2>1 DEF LoginRead, QuietAccounts, TypeOK, CallState
  <2>2. ASSUME NEW p \in pre, CodeLogin(c, p) PROVE QuietAccounts
    BY <2>2 DEF CodeLogin, Done, Idle, QuietAccounts, TypeOK
  <2>3. ASSUME NEW j \in jwt, Refresh(c, j) PROVE QuietAccounts
    BY <2>3 DEF Refresh, Done, Idle, QuietAccounts, TypeOK
  <2>4. ASSUME RegenerateRead(c) \/ DisableRead(c) PROVE QuietAccounts
    <3>1. CASE RegenerateRead(c)
      BY <3>1, SMTT(30) DEF RegenerateRead, Becomes, QuietAccounts, TypeOK, CallState
    <3>2. CASE DisableRead(c)
      BY <3>2, SMTT(30) DEF DisableRead, Becomes, QuietAccounts, TypeOK, CallState
    <3> QED
      BY <2>4, <3>1, <3>2
  <2> QED
    BY <1>2, <2>1, <2>2, <2>3, <2>4 DEF Proceed, AccountStep
<1>3. ASSUME NEW c \in Call, Resume(c) PROVE QuietAccounts \/ AccountStep
  <2>1. ASSUME LoginFinish(c) \/ LoginFail(c) \/ RecoveryFail(c) \/ SsoFail(c)
               \/ GiveUp(c) \/ Refused(c) \/ \E u \in User : SsoFinish(c, u)
        PROVE  QuietAccounts
    BY <2>1 DEF LoginFinish, LoginFail, RecoveryFail, SsoFail, GiveUp, Refused, SsoFinish,
                Fail, Done, Idle, QuietAccounts, TypeOK
  <2> QED
    BY <1>3, <2>1 DEF Resume, AccountStep
<1>4. ASSUME NEW i \in Ip, SsoInvalid(i) \/ \E s \in State : SsoStart(i, s)
      PROVE  QuietAccounts
  BY <1>4 DEF SsoInvalid, SsoStart, QuietAccounts
<1>5. SsoReap \/ Tick \/ Crash => QuietAccounts
  BY DEF SsoReap, Tick, Crash, Idle, QuietAccounts
<1>6. CASE UNCHANGED vars
  BY <1>6 DEF vars, QuietAccounts
<1> QED
  BY <1>1, <1>2, <1>3, <1>4, <1>5, <1>6 DEF Next, AccountStep

LEMMA ActivationStep ==
    ASSUME TypeOK, References, Activation, [Next]_vars
    PROVE  Activation'
<1> USE DEF Activation, ActiveWasVerified
<1>1. CASE QuietAccounts
  BY <1>1 DEF QuietAccounts, account
<1>2. ASSUME NEW c \in Call, NEW p \in pre, NEW code \in Code \cup {None},
             RecoveryRead(c, p, code)
      PROVE  Activation'
  BY <1>2 DEF RecoveryRead, TypeOK, CallState, account
<1>3. ASSUME NEW c \in Call, RecoveryFinish(c) PROVE Activation'
  BY <1>3 DEF RecoveryFinish, Patched, Done, Idle, TypeOK, UserRow
<1>4. ASSUME NEW c \in Call, VerifyRead(c) PROVE Activation'
  BY <1>4 DEF VerifyRead, TypeOK, CallState
<1>5. ASSUME NEW c \in Call, VerifyFinish(c) PROVE Activation'
  BY <1>5 DEF VerifyFinish, Patched, Done, Idle, TypeOK, UserRow
<1>6. ASSUME NEW c \in Call, RegenerateFinish(c) PROVE Activation'
  BY <1>6 DEF RegenerateFinish, Patched, Done, Idle, TypeOK, UserRow
<1>7. ASSUME NEW c \in Call, DisableFinish(c) PROVE Activation'
  BY <1>7 DEF DisableFinish, NoTotp, Patched, Done, Idle, TypeOK, UserRow
<1>8. ASSUME NEW c \in Call, CreateFinish(c) PROVE Activation'
  BY <1>8 DEF CreateFinish, NoUser, Done, Idle, TypeOK, UserRow
<1>9. ASSUME NEW c \in Call, NEW enabled \in BOOLEAN, NEW reset \in BOOLEAN,
             UpdateFinish(c, enabled, reset)
      PROVE  Activation'
  BY <1>9 DEF UpdateFinish, NoTotp, Patched, Done, Idle, TypeOK, UserRow
<1>10. ASSUME NEW u \in User, Setup(u) PROVE Activation'
  BY <1>10 DEF Setup, TypeOK, UserRow
<1>11. ASSUME NEW u \in User, DeleteUser(u) PROVE Activation'
  BY <1>11 DEF DeleteUser, NoUser, TypeOK
<1> HIDE DEF Activation, ActiveWasVerified
<1> QED
  BY <1>1, <1>2, <1>3, <1>4, <1>5, <1>6, <1>7, <1>8, <1>9, <1>10, <1>11, AccountCases
  DEF AccountStep

\* A second factor that is on was shown a code for, unless something came
\* between the check and the activation.
THEOREM ActiveIsVerified == Spec => []ActiveWasVerified
<1>1. Init => TypeOK /\ References /\ Activation
  BY InitOK DEF IInv
<1>2. Activation => ActiveWasVerified
  BY DEF Activation
<1>3. TypeOK /\ References /\ Activation /\ [Next]_vars => (TypeOK /\ References /\ Activation)'
  BY TypesStep, ActivationStep
<1> QED
  BY <1>1, <1>2, <1>3, PTL DEF Spec

-------------------------------------------------------------------------------
(* Recovery codes.                                                         *)

\* A new set is disjoint from those drawn before.
LEMMA NewCodes ==
    ASSUME TypeOK, sets < MaxDraw
    PROVE  /\ DrawnCodes(sets) \subseteq DrawnCodes(sets + 1)
           /\ CodesOf(sets + 1) \subseteq DrawnCodes(sets + 1)
           /\ CodesOf(sets + 1) \cap DrawnCodes(sets) = {}
<1>1. sets \in Nat
  BY ConstantsOK DEF TypeOK, Secret
<1> QED
  BY <1>1 DEF DrawnCodes, CodesOf

LEMMA RecoveryStep ==
    ASSUME TypeOK, References, Recovery, [Next]_vars
    PROVE  Recovery'
<1> USE DEF Recovery
<1>0. None \notin Code
  BY ConstantsOK DEF Code
<1>1. CASE QuietAccounts
  BY <1>1 DEF QuietAccounts, account, recovery, DrawnCodes
<1>2. ASSUME NEW c \in Call, NEW p \in pre, NEW code \in Code \cup {None},
             RecoveryRead(c, p, code)
      PROVE  Recovery'
  <2>1. p.user \in User
    BY DEF TypeOK, Held
  <2>2. \A d \in Call : d # c => call'[d] = call[d]
    BY <1>2 DEF RecoveryRead, TypeOK
  <2>3. call'[c].codes = user[p.user].codes /\ call'[c].code = code
    BY <1>2 DEF RecoveryRead, TypeOK, CallState
  <2>4. code \in user[p.user].codes \cup {None}
    BY <1>2 DEF RecoveryRead
  <2>5. user' = user /\ used' = used /\ overtaken' = overtaken /\ sets' = sets
    BY <1>2 DEF RecoveryRead, account, recovery
  <2> QED
    BY <2>1, <2>2, <2>3, <2>4, <2>5 DEF DrawnCodes
<1>3. ASSUME NEW c \in Call, RecoveryFinish(c) PROVE Recovery'
  <2> DEFINE u == call[c].user
  <2>1. u \in User /\ call[c].code \in call[c].codes
        /\ call[c].codes \subseteq DrawnCodes(sets)
    BY <1>3 DEF RecoveryFinish, References, Refers
  <2>2. sets' = sets /\ used' = [used EXCEPT ![u] = @ \cup {call[c].code}]
        /\ overtaken' = (IF user[u].present /\ user[u].codes = call[c].codes
                         THEN overtaken ELSE overtaken \cup {u})
        /\ user' = Patched(u, [user[u] EXCEPT !.codes = call[c].codes \ {call[c].code}])
        /\ Done(c)
    BY <1>3, Zenon DEF RecoveryFinish
  <2>3. \A v \in User : v # u =>
           user'[v] = user[v] /\ used'[v] = used[v] /\ (v \in overtaken' <=> v \in overtaken)
    <3>1. \A v \in User : v # u => user'[v] = user[v]
      BY <2>1, <2>2, RowChange DEF TypeOK
    <3>2. \A v \in User : v # u => used'[v] = used[v]
      BY <2>1, <2>2 DEF TypeOK
    <3>3. \A v \in User : v # u => (v \in overtaken' <=> v \in overtaken)
      BY <2>2
    <3> QED
      BY <3>1, <3>2, <3>3
  <2>4. used'[u] = used[u] \cup {call[c].code}
    BY <2>1, <2>2 DEF TypeOK
  <2>5. user'[u].codes = IF user[u].present THEN call[c].codes \ {call[c].code}
                         ELSE user[u].codes
    <3> DEFINE left == call[c].codes \ {call[c].code}
               row == [user[u] EXCEPT !.codes = left]
    <3>1. row.codes = left
      BY <2>1, RowShape, RowCodes
    <3>2. user' = Patched(u, row)
      BY <2>2
    <3> HIDE DEF row
    <3>3. user'[u].codes = IF user[u].present THEN left ELSE user[u].codes
      BY <2>1, <3>1, <3>2, RowChange
    <3> QED
      BY <3>3
  <2>6. u \notin overtaken' => /\ u \notin overtaken /\ user[u].present
                              /\ user[u].codes = call[c].codes
    BY <2>1, <2>2
  <2>7. \A d \in Call : call'[d] = call[d] \/ call'[d].kind = "idle"
    BY <2>2, CallDone
  <2>8. \A v \in User : /\ user'[v].codes \subseteq DrawnCodes(sets)
                        /\ used'[v] \subseteq DrawnCodes(sets)
                        /\ v \notin overtaken' => user'[v].codes \cap used'[v] = {}
    BY <2>1, <2>3, <2>4, <2>5, <2>6
  <2> QED
    BY <2>2, <2>7, <2>8 DEF DrawnCodes
<1>4. ASSUME NEW c \in Call, VerifyRead(c) PROVE Recovery'
  <2>1. user' = user /\ used' = used /\ overtaken' = overtaken /\ sets' = sets
    BY <1>4 DEF VerifyRead, recovery
  <2>2. \A d \in Call : call'[d] = call[d] \/ call'[d].kind = "verify"
    BY <1>4 DEF VerifyRead, TypeOK, CallState
  <2> QED
    BY <2>1, <2>2 DEF DrawnCodes
\* A row's codes are new or none, and no request takes up any.
<1>5. ASSUME NEW u \in User, sets' \in {sets, sets + 1}, sets' # sets => sets < MaxDraw,
             UNCHANGED recovery,
             \A v \in User : v # u => user'[v] = user[v],
             user'[u].codes = user[u].codes \/ user'[u].codes = {}
               \/ (sets' = sets + 1 /\ user'[u].codes = CodesOf(sets + 1)),
             \A d \in Call : call'[d] = call[d] \/ call'[d].kind = "idle"
      PROVE  Recovery'
  <2>1. DrawnCodes(sets) \subseteq DrawnCodes(sets')
    BY <1>5, NewCodes
  <2>2. \A v \in User : /\ user'[v].codes \subseteq DrawnCodes(sets')
                        /\ used'[v] \subseteq DrawnCodes(sets')
                        /\ v \notin overtaken' => user'[v].codes \cap used'[v] = {}
    <3>1. used' = used /\ overtaken' = overtaken
      BY <1>5 DEF recovery
    <3>2. user'[u].codes \subseteq DrawnCodes(sets')
          /\ (u \notin overtaken => user'[u].codes \cap used[u] = {})
      <4>1. used[u] \subseteq DrawnCodes(sets) /\ user[u].codes \subseteq DrawnCodes(sets)
            /\ (u \notin overtaken => user[u].codes \cap used[u] = {})
        OBVIOUS
      <4>2. CASE user'[u].codes = user[u].codes
        BY <2>1, <4>1, <4>2
      <4>3. CASE user'[u].codes = {}
        BY <4>3
      <4>4. CASE sets' = sets + 1 /\ user'[u].codes = CodesOf(sets + 1)
        <5>1. sets < MaxDraw
          <6>1. sets + 1 # sets
            BY ConstantsOK DEF TypeOK, Secret
          <6> QED
            BY <1>5, <4>4, <6>1
        <5> QED
          BY <4>1, <4>4, <5>1, NewCodes
      <4> QED
        BY <1>5, <4>2, <4>3, <4>4
    <3> QED
      BY <1>5, <2>1, <3>1, <3>2
  <2>3. \A d \in Call : call'[d].kind = "recovery" =>
          /\ call'[d].codes \subseteq DrawnCodes(sets')
          /\ call'[d].code # None => call'[d].code \in call'[d].codes
    BY <1>5, <2>1
  <2> QED
    BY <2>2, <2>3 DEF DrawnCodes
<1>6. ASSUME NEW c \in Call, VerifyFinish(c) \/ RegenerateFinish(c) PROVE Recovery'
  <2>1. call[c].user \in User
    BY <1>6 DEF VerifyFinish, RegenerateFinish, References, Refers
  <2>2. sets' = sets + 1 /\ sets < MaxDraw /\ UNCHANGED recovery
    BY <1>6 DEF VerifyFinish, RegenerateFinish
  <2>3. \A d \in Call : call'[d] = call[d] \/ call'[d].kind = "idle"
    BY <1>6 DEF VerifyFinish, RegenerateFinish, Done, Idle, TypeOK
  <2>4. /\ \A v \in User : v # call[c].user => user'[v] = user[v]
        /\ user'[call[c].user].codes \in {user[call[c].user].codes, CodesOf(sets + 1)}
    <3> DEFINE u == call[c].user
               codes == CodesOf(sets + 1)
               on == [user[u] EXCEPT !.totp = TRUE, !.codes = codes]
               again == [user[u] EXCEPT !.codes = codes]
    <3>1. on.codes = codes /\ again.codes = codes
      BY <2>1, RowShape, RowCodes
    <3>2. user' = Patched(u, on) \/ user' = Patched(u, again)
      BY <1>6 DEF VerifyFinish, RegenerateFinish
    <3> HIDE DEF on, again
    <3>3. u \in User
      BY <2>1
    <3> HIDE DEF u, codes
    <3>4. user'[u].codes \in {user[u].codes, codes} /\ \A v \in User : v # u => user'[v] = user[v]
      BY <3>1, <3>2, <3>3, RowChange
    <3> QED
      BY <3>4 DEF u, codes
  <2> QED
    BY <1>5, <2>1, <2>2, <2>3, <2>4
<1>7. ASSUME NEW c \in Call,
             DisableFinish(c) \/ CreateFinish(c)
             \/ \E enabled, reset \in BOOLEAN : UpdateFinish(c, enabled, reset)
      PROVE  Recovery'
  <2>1. call[c].user \in User
    BY <1>7 DEF DisableFinish, CreateFinish, UpdateFinish, References, Refers
  <2>2. sets' = sets /\ UNCHANGED recovery
    BY <1>7 DEF DisableFinish, CreateFinish, UpdateFinish
  <2>3. \A d \in Call : call'[d] = call[d] \/ call'[d].kind = "idle"
    BY <1>7, CallDone DEF DisableFinish, CreateFinish, UpdateFinish
  <2>4. /\ \A v \in User : v # call[c].user => user'[v] = user[v]
        /\ user'[call[c].user].codes \in {user[call[c].user].codes, {}}
    <3> DEFINE u == call[c].user
    <3>1. CASE CreateFinish(c)
      BY <2>1, <3>1 DEF CreateFinish, NoUser, TypeOK
    <3>2. CASE DisableFinish(c)
      <4>1. user' = Patched(u, NoTotp(user[u])) /\ NoTotp(user[u]).codes = {}
        BY <2>1, <3>2, RowShape, RowCodes DEF DisableFinish
      <4>2. u \in User
        BY <2>1
      <4> HIDE DEF u
      <4>3. /\ \A v \in User : v # u => user'[v] = user[v]
            /\ user'[u].codes \in {user[u].codes, {}}
        BY <4>1, <4>2, RowChange
      <4> QED
        BY <4>3 DEF u
    <3>3. ASSUME NEW enabled \in BOOLEAN, NEW reset \in BOOLEAN,
                 UpdateFinish(c, enabled, reset)
          PROVE  <2>4!1 /\ <2>4!2
      <4> DEFINE row == [user[u] EXCEPT !.enabled = enabled]
      <4>1. row.codes = user[u].codes /\ NoTotp(row).codes = {}
        BY <2>1, RowShape, RowCodes
      <4>2. user' = Patched(u, row) \/ user' = Patched(u, NoTotp(row))
        BY <3>3 DEF UpdateFinish
      <4>3. u \in User
        BY <2>1
      <4> HIDE DEF row, u
      <4>4. /\ \A v \in User : v # u => user'[v] = user[v]
            /\ user'[u].codes \in {user[u].codes, {}}
        BY <4>1, <4>2, <4>3, RowChange
      <4> QED
        BY <4>4 DEF u
    <3> QED
      BY <1>7, <3>1, <3>2, <3>3
  <2> QED
    BY <1>5, <2>1, <2>2, <2>3, <2>4
<1>8. ASSUME NEW u \in User, Setup(u) \/ DeleteUser(u) PROVE Recovery'
  <2>1. sets' = sets /\ call' = call /\ UNCHANGED recovery
    BY <1>8 DEF Setup, DeleteUser
  <2>2. /\ \A v \in User : v # u => user'[v] = user[v]
        /\ user'[u].codes \in {user[u].codes, {}}
    BY <1>8 DEF Setup, DeleteUser, NoUser, TypeOK, UserRow
  <2> QED
    BY <1>5, <2>1, <2>2
<1> HIDE DEF Recovery
<1> QED
  BY <1>1, <1>2, <1>3, <1>4, <1>6, <1>7, <1>8, AccountCases DEF AccountStep

\* A recovery code logs in twice only if a login wrote back an outdated list.
THEOREM RecoveryConsumed == Spec => ConsumedUnlessOvertaken
<1>1. Init => TypeOK /\ References /\ Recovery
  BY InitOK DEF IInv
<1>2. TypeOK /\ References /\ Recovery /\ [Next]_vars => (TypeOK /\ References /\ Recovery)'
  BY TypesStep, RecoveryStep
<1>3. TypeOK /\ References /\ Recovery /\ [Next]_vars
         => [\A c \in Call : RecoveryFinish(c) /\ call[c].user \notin overtaken'
               => call[c].code \notin used[call[c].user]]_vars
  <2> SUFFICES ASSUME TypeOK, References, Recovery, NEW c \in Call, RecoveryFinish(c),
                      call[c].user \notin overtaken'
               PROVE  call[c].code \notin used[call[c].user]
    OBVIOUS
  <2>1. call[c].user \in User /\ call[c].code \in call[c].codes
    BY DEF RecoveryFinish, References, Refers, Recovery
  <2>2. call[c].user \notin overtaken /\ user[call[c].user].codes = call[c].codes
    BY DEF RecoveryFinish
  <2> QED
    BY <2>1, <2>2 DEF Recovery
<1> QED
  BY <1>1, <1>2, <1>3, PTL DEF Spec, ConsumedUnlessOvertaken

-------------------------------------------------------------------------------
(* The limiter and single sign-on.  Most steps leave the limiter alone and *)
(* start no request from an address; most leave what was signed in.        *)

QuietLimiter ==
    /\ failed' = failed
    /\ \A d \in Call : call'[d].ip \in {call[d].ip, None}

LimiterStep ==
    \/ \E c \in Call, i \in Ip :
          /\ Allowed(i) /\ failed' = failed
          /\ call[c].ip = None /\ call'[c].ip = i
          /\ \A d \in Call : d # c => call'[d] = call[d]
    \/ \E c \in Call : call[c].ip \in Ip /\ Fail(c)
    \/ \E i \in Ip : SsoInvalid(i)
    \/ Tick \/ Crash

QuietSso ==
    /\ signedIn' = signedIn
    /\ \A s \in State : state[s].status = "gone" => state'[s].status = "gone"
    /\ \A d \in Call : call'[d] = call[d] \/ call'[d].kind # "sso"

SsoStep ==
    \/ \E c \in Call, i \in Ip, s \in State : SsoCallback(c, i, s)
    \/ \E c \in Call, u \in User : SsoFinish(c, u)

LEMMA LimiterCases ==
    ASSUME TypeOK, References, [Next]_vars
    PROVE  (QuietLimiter \/ LimiterStep) /\ (QuietSso \/ SsoStep)
<1> DEFINE Quiet == QuietLimiter /\ QuietSso
<1> USE DEF account, recovery, session, sso
\* A step that leaves both alone and moves one request along, or ends it.
<1>0. ASSUME NEW c \in Call, UNCHANGED <<failed, signedIn, state>>,
             \A d \in Call : d # c => call'[d] = call[d],
             call'[c].ip \in {call[c].ip, None}, call'[c].kind # "sso"
      PROVE  Quiet
  BY <1>0 DEF QuietLimiter, QuietSso
<1>1. ASSUME NEW c \in Call, Arrive(c)
      PROVE  (QuietLimiter \/ LimiterStep) /\ (QuietSso \/ SsoStep)
  <2>1. ASSUME NEW i \in Ip, Enter(c, i) PROVE LimiterStep /\ QuietSso
    <3>1. call[c].ip = None /\ call'[c].ip = i /\ call'[c].kind = "entered"
          /\ \A d \in Call : d # c => call'[d] = call[d]
      BY <2>1 DEF Enter, Idle, References, Refers, TypeOK
    <3> QED
      BY <2>1, <3>1 DEF Enter, LimiterStep, QuietSso
  <2>2. ASSUME NEW i \in Ip, NEW s \in State, SsoCallback(c, i, s) PROVE LimiterStep /\ SsoStep
    <3>1. call[c].ip = None /\ call'[c].ip = i
          /\ \A d \in Call : d # c => call'[d] = call[d]
      BY <2>2 DEF SsoCallback, Idle, References, Refers, TypeOK
    <3> QED
      BY <2>2, <3>1 DEF SsoCallback, LimiterStep, SsoStep
  <2>3. ASSUME NEW u \in User, Begin(c, u) \/ CreateStart(c, u) \/ UpdateStart(c, u) PROVE Quiet
    <3>1. /\ UNCHANGED <<failed, signedIn, state>>
          /\ \A d \in Call : d # c => call'[d] = call[d]
          /\ call'[c].ip \in {call[c].ip, None} /\ call'[c].kind # "sso"
      <4>1. PICK kind \in {"session", "create", "update"} : Becomes(c, kind, u)
        BY <2>3 DEF Begin, CreateStart, UpdateStart
      <4>2. /\ \A d \in Call : d # c => call'[d] = call[d]
            /\ call'[c].ip = call[c].ip /\ call'[c].kind = kind
        BY <4>1 DEF Becomes, TypeOK, CallState
      <4>3. UNCHANGED <<failed, signedIn, state>>
        BY <2>3 DEF Begin, CreateStart, UpdateStart
      <4> QED
        BY <4>2, <4>3
    <3> QED
      BY <1>0, <3>1
  <2> QED
    BY <1>1, <2>1, <2>2, <2>3 DEF Arrive
<1>2. ASSUME NEW c \in Call, Proceed(c) PROVE Quiet
  <2>1. /\ UNCHANGED <<failed, signedIn, state>>
        /\ \A d \in Call : d # c => call'[d] = call[d]
        /\ call'[c].ip \in {call[c].ip, None} /\ call'[c].kind # "sso"
    <3>1. ASSUME NEW u \in User, LoginRead(c, u) PROVE <2>1!1 /\ <2>1!2 /\ <2>1!3
      BY <3>1 DEF LoginRead, TypeOK, CallState
    <3>2. ASSUME NEW p \in pre, CodeLogin(c, p) PROVE <2>1!1 /\ <2>1!2 /\ <2>1!3
      BY <3>2 DEF CodeLogin, Done, Idle, TypeOK
    <3>3. ASSUME NEW p \in pre, NEW code \in Code \cup {None}, RecoveryRead(c, p, code)
          PROVE  <2>1!1 /\ <2>1!2 /\ <2>1!3
      BY <3>3 DEF RecoveryRead, TypeOK, CallState
    <3>4. ASSUME NEW j \in jwt, Refresh(c, j) PROVE <2>1!1 /\ <2>1!2 /\ <2>1!3
      BY <3>4 DEF Refresh, Done, Idle, TypeOK
    <3>5. ASSUME VerifyRead(c) \/ RegenerateRead(c) \/ DisableRead(c)
          PROVE  <2>1!1 /\ <2>1!2 /\ <2>1!3
      <4>1. CASE VerifyRead(c)
        BY <4>1, SMTT(30) DEF VerifyRead, Becomes, TypeOK, CallState
      <4>2. CASE RegenerateRead(c)
        BY <4>2, SMTT(30) DEF RegenerateRead, Becomes, TypeOK, CallState
      <4>3. CASE DisableRead(c)
        BY <4>3, SMTT(30) DEF DisableRead, Becomes, TypeOK, CallState
      <4> QED
        BY <3>5, <4>1, <4>2, <4>3
    <3> QED
      BY <1>2, <3>1, <3>2, <3>3, <3>4, <3>5 DEF Proceed
  <2> QED
    BY <1>0, <2>1
<1>3. ASSUME NEW c \in Call, Resume(c)
      PROVE  (QuietLimiter \/ LimiterStep) /\ (QuietSso \/ SsoStep)
  <2>1. ASSUME Done(c)
        PROVE  /\ \A d \in Call : d # c => call'[d] = call[d]
               /\ call'[c].ip = None /\ call'[c].kind # "sso"
    BY <2>1 DEF Done, Idle, TypeOK
  <2>2. ASSUME \/ LoginFinish(c) \/ RecoveryFinish(c) \/ VerifyFinish(c) \/ RegenerateFinish(c)
               \/ DisableFinish(c) \/ CreateFinish(c) \/ GiveUp(c)
               \/ \E enabled, reset \in BOOLEAN : UpdateFinish(c, enabled, reset)
        PROVE  Quiet
    <3>1. Done(c) /\ UNCHANGED <<failed, signedIn, state>>
      BY <2>2 DEF LoginFinish, RecoveryFinish, VerifyFinish, RegenerateFinish, DisableFinish,
                  CreateFinish, GiveUp, UpdateFinish
    <3> QED
      BY <1>0, <2>1, <3>1
  <2>3. ASSUME LoginFail(c) \/ RecoveryFail(c) \/ SsoFail(c) \/ Refused(c)
        PROVE  LimiterStep /\ QuietSso
    <3>1. call[c].ip \in Ip /\ Fail(c)
      BY <2>3 DEF LoginFail, RecoveryFail, SsoFail, Refused, References, Refers
    <3>2. Done(c) /\ UNCHANGED <<signedIn, state>>
      BY <3>1 DEF Fail
    <3> QED
      BY <2>1, <3>1, <3>2 DEF LimiterStep, QuietSso
  <2>4. ASSUME NEW u \in User, SsoFinish(c, u) PROVE QuietLimiter /\ SsoStep
    <3>1. Done(c) /\ failed' = failed
      BY <2>4 DEF SsoFinish
    <3> QED
      BY <2>1, <2>4, <3>1 DEF QuietLimiter, SsoStep
  <2> QED
    BY <1>3, <2>2, <2>3, <2>4 DEF Resume
<1>4. ASSUME NEW u \in User, Setup(u) \/ DeleteUser(u) PROVE Quiet
  BY <1>4 DEF Setup, DeleteUser, QuietLimiter, QuietSso
<1>5. ASSUME NEW i \in Ip, SsoInvalid(i) PROVE LimiterStep /\ QuietSso
  BY <1>5 DEF SsoInvalid, LimiterStep, QuietSso
<1>6. ASSUME NEW i \in Ip, NEW s \in State, SsoStart(i, s) PROVE Quiet
  BY <1>6 DEF SsoStart, TypeOK, QuietLimiter, QuietSso
<1>7. CASE SsoReap
  BY <1>7 DEF SsoReap, TypeOK, QuietLimiter, QuietSso
<1>8. CASE Tick
  <2>1. \A s \in State : state'[s].status = state[s].status
    BY <1>8 DEF Tick, TypeOK
  <2> QED
    BY <1>8, <2>1 DEF Tick, LimiterStep, QuietSso
<1>9. CASE Crash
  BY <1>9 DEF Crash, Idle, LimiterStep, QuietSso
<1>10. CASE UNCHANGED vars
  BY <1>10 DEF vars, QuietLimiter, QuietSso
<1> QED
  BY <1>1, <1>2, <1>3, <1>4, <1>5, <1>6, <1>7, <1>8, <1>9, <1>10 DEF Next

\* The requests in progress from an address are finitely many.
LEMMA InFlightBound ==
    ASSUME NEW i \in Ip
    PROVE  /\ IsFiniteSet(InFlight(i)) /\ IsFiniteSet(InFlight(i)')
           /\ Cardinality(Call) \in Nat
           /\ Cardinality(InFlight(i)) \in Nat /\ Cardinality(InFlight(i)') \in Nat
           /\ Cardinality(InFlight(i)) <= Cardinality(Call)
           /\ Cardinality(InFlight(i)') <= Cardinality(Call)
<1>1. IsFiniteSet(Call)
  BY ConstantsOK
<1>2. InFlight(i) \in SUBSET Call /\ InFlight(i)' \in SUBSET Call
  BY DEF InFlight
<1>3. \A T \in SUBSET Call : IsFiniteSet(T) /\ Cardinality(T) <= Cardinality(Call)
  BY <1>1, FS_Subset
<1> QED
  BY <1>1, <1>2, <1>3, FS_CardinalityType

LEMMA LimitedStep ==
    ASSUME TypeOK, References, Limited, [Next]_vars
    PROVE  Limited'
<1>0. /\ Window \in Nat \ {0} /\ MaxFailed \in Nat \ {0} /\ None \notin Ip
      /\ \A i \in Ip : failed[i].count \in Nat /\ failed[i].left \in Nat
  BY ConstantsOK DEF TypeOK
<1> SUFFICES ASSUME NEW i \in Ip
             PROVE  /\ failed'[i].left = 0 => failed'[i].count = 0
                    /\ failed'[i].left > 0 =>
                         failed'[i].count + Cardinality(InFlight(i)')
                           <= MaxFailed + Cardinality(Call)
  BY DEF Limited
<1>1. CASE QuietLimiter
  <2>1. InFlight(i)' \in SUBSET InFlight(i)
    BY <1>0, <1>1 DEF QuietLimiter, InFlight
  <2>2. Cardinality(InFlight(i)') <= Cardinality(InFlight(i))
    BY <2>1, InFlightBound, FS_Subset
  <2> QED
    BY <1>0, <1>1, <2>2, InFlightBound DEF QuietLimiter, Limited
\* One more in progress: the limiter let it in.
<1>2. ASSUME NEW c \in Call, NEW j \in Ip, Allowed(j), failed' = failed,
             \A d \in Call : d # c => call'[d] = call[d],
             call[c].ip = None, call'[c].ip = j
      PROVE  /\ failed'[i].left = 0 => failed'[i].count = 0
             /\ failed'[i].left > 0 =>
                  failed'[i].count + Cardinality(InFlight(i)') <= MaxFailed + Cardinality(Call)
  <2>1. CASE i = j
    BY <1>0, <1>2, <2>1, InFlightBound DEF Allowed, Limited
  <2>2. CASE i # j
    <3>1. InFlight(i)' = InFlight(i)
      BY <1>0, <1>2, <2>2 DEF InFlight
    <3> QED
      BY <1>2, <3>1 DEF Limited
  <2> QED
    BY <2>1, <2>2
\* One less in progress, and one more counted.
<1>3. ASSUME NEW c \in Call, call[c].ip \in Ip, Fail(c)
      PROVE  /\ failed'[i].left = 0 => failed'[i].count = 0
             /\ failed'[i].left > 0 =>
                  failed'[i].count + Cardinality(InFlight(i)') <= MaxFailed + Cardinality(Call)
  <2>1. call'[c].ip = None /\ \A d \in Call : d # c => call'[d] = call[d]
    BY <1>3 DEF Fail, Done, Idle, TypeOK
  <2>2. CASE i = call[c].ip
    <3>1. InFlight(i)' = InFlight(i) \ {c} /\ c \in InFlight(i)
      BY <1>0, <2>1, <2>2 DEF InFlight
    <3>2. Cardinality(InFlight(i)') = Cardinality(InFlight(i)) - 1
      BY <3>1, InFlightBound, FS_RemoveElement
    <3>3. failed'[i] = IF failed[i].left = 0 THEN [count |-> 1, left |-> Window]
                       ELSE [count |-> failed[i].count + 1, left |-> failed[i].left]
      BY <1>3, <2>2 DEF Fail, RecordFailure, TypeOK
    <3> QED
      BY <1>0, <3>2, <3>3, InFlightBound DEF Limited
  <2>3. CASE i # call[c].ip
    <3>1. InFlight(i)' = InFlight(i)
      BY <1>0, <2>1, <2>3 DEF InFlight
    <3>2. failed'[i] = failed[i]
      BY <1>3, <2>3 DEF Fail, RecordFailure, TypeOK
    <3> QED
      BY <3>1, <3>2 DEF Limited
  <2> QED
    BY <2>2, <2>3
<1>4. ASSUME NEW j \in Ip, SsoInvalid(j)
      PROVE  /\ failed'[i].left = 0 => failed'[i].count = 0
             /\ failed'[i].left > 0 =>
                  failed'[i].count + Cardinality(InFlight(i)') <= MaxFailed + Cardinality(Call)
  <2>1. InFlight(i)' = InFlight(i)
    BY <1>4 DEF SsoInvalid, InFlight
  <2>2. CASE i = j
    <3>1. failed'[i] = IF failed[i].left = 0 THEN [count |-> 1, left |-> Window]
                       ELSE [count |-> failed[i].count + 1, left |-> failed[i].left]
      BY <1>4, <2>2 DEF SsoInvalid, RecordFailure, TypeOK
    <3>2. Allowed(i)
      BY <1>4, <2>2 DEF SsoInvalid
    <3> QED
      BY <1>0, <2>1, <3>1, <3>2, InFlightBound DEF Allowed, Limited
  <2>3. CASE i # j
    <3>1. failed'[i] = failed[i]
      BY <1>4, <2>3 DEF SsoInvalid, RecordFailure, TypeOK
    <3> QED
      BY <2>1, <3>1 DEF Limited
  <2> QED
    BY <2>2, <2>3
<1>5. CASE Tick
  <2>1. InFlight(i)' = InFlight(i)
    BY <1>5 DEF Tick, InFlight
  <2>2. CASE failed[i].left <= 1
    BY <1>5, <2>2 DEF Tick, NoFailure
  <2>3. CASE ~(failed[i].left <= 1)
    <3>1. failed'[i].count = failed[i].count /\ failed'[i].left = failed[i].left - 1
      BY <1>5, <2>3 DEF Tick, TypeOK
    <3> QED
      BY <1>0, <2>1, <2>3, <3>1 DEF Limited
  <2> QED
    BY <2>2, <2>3
<1>6. CASE Crash
  BY <1>6 DEF Crash, NoFailure
<1> QED
  BY <1>1, <1>2, <1>3, <1>4, <1>5, <1>6, LimiterCases DEF LimiterStep

\* An address fails no more often than its limit and the requests that can be
\* in progress when it is reached.
THEOREM FailuresAreBounded == Spec => []FailuresBounded
<1>1. Init => TypeOK /\ References /\ Limited
  BY InitOK DEF IInv
<1>2. TypeOK /\ References /\ Limited /\ [Next]_vars => (TypeOK /\ References /\ Limited)'
  BY TypesStep, LimitedStep
<1>3. TypeOK /\ Limited => FailuresBounded
  <2> SUFFICES ASSUME TypeOK, Limited, NEW i \in Ip
               PROVE  failed[i].count <= MaxFailed + Cardinality(Call)
    BY DEF FailuresBounded
  <2>1. failed[i].count \in Nat /\ failed[i].left \in Nat /\ MaxFailed \in Nat
    BY ConstantsOK DEF TypeOK
  <2> QED
    BY <2>1, InFlightBound DEF Limited
<1> QED
  BY <1>1, <1>2, <1>3, PTL DEF Spec

LEMMA OneCallbackStep ==
    ASSUME TypeOK, References, OneCallback, [Next]_vars
    PROVE  OneCallback'
<1> USE DEF OneCallback
<1>1. CASE QuietSso
  <2>1. \A d \in Call : call'[d].kind = "sso" => call'[d] = call[d] /\ call[d].state \in State
    BY <1>1 DEF QuietSso, References, Refers
  <2> QED
    BY <1>1, <2>1 DEF QuietSso
<1>2. ASSUME NEW c \in Call, NEW i \in Ip, NEW s \in State, SsoCallback(c, i, s)
      PROVE  OneCallback'
  <2>1. /\ signedIn' = signedIn /\ state[s].status = "live" /\ state'[s].status = "gone"
        /\ \A t \in State : t # s => state'[t] = state[t]
    BY <1>2 DEF SsoCallback, sso, TypeOK
  <2>2. /\ call'[c].kind = "sso" /\ call'[c].state = s
        /\ \A d \in Call : d # c => call'[d] = call[d]
    BY <1>2 DEF SsoCallback, Idle, TypeOK
  <2>3. signedIn[s] = 0
    BY <2>1 DEF TypeOK
  <2>4. \A d \in Call : d # c /\ call'[d].kind = "sso" => call'[d].state # s
    BY <2>1, <2>2
  <2>5. \A d \in Call : call'[d].kind = "sso" => call'[d].state \in State
    BY <2>2 DEF References, Refers
  <2> QED
    BY <2>1, <2>2, <2>3, <2>4, <2>5
<1>3. ASSUME NEW c \in Call, NEW u \in User, SsoFinish(c, u) PROVE OneCallback'
  <2> DEFINE s == call[c].state
  <2>1. s \in State /\ call[c].kind = "sso"
    BY <1>3 DEF SsoFinish, References, Refers
  <2>2. state' = state /\ signedIn' = [signedIn EXCEPT ![s] = @ + 1]
    BY <1>3 DEF SsoFinish
  <2>3. call'[c].kind = "idle" /\ \A d \in Call : d # c => call'[d] = call[d]
    BY <1>3, CallDone DEF SsoFinish
  <2>4. signedIn'[s] = 1 /\ state[s].status = "gone"
        /\ \A t \in State : t # s => signedIn'[t] = signedIn[t]
    BY <2>1, <2>2 DEF TypeOK
  <2>5. \A d \in Call : call'[d].kind = "sso" =>
           d # c /\ call'[d] = call[d] /\ call[d].state \in State /\ call[d].state # s
    BY <2>1, <2>3 DEF References, Refers
  <2> QED
    BY <2>2, <2>4, <2>5
<1> HIDE DEF OneCallback
<1> QED
  BY <1>1, <1>2, <1>3, LimiterCases DEF SsoStep

\* An SSO state signs in at most once.
THEOREM SsoSignsInOnce == Spec => []SsoOnce
<1>1. Init => TypeOK /\ References /\ OneCallback
  BY InitOK DEF IInv
<1>2. TypeOK /\ References /\ OneCallback /\ [Next]_vars
         => (TypeOK /\ References /\ OneCallback)'
  BY TypesStep, OneCallbackStep
<1>3. TypeOK /\ OneCallback => SsoOnce
  BY DEF TypeOK, OneCallback, SsoOnce
<1> QED
  BY <1>1, <1>2, <1>3, PTL DEF Spec

-------------------------------------------------------------------------------
(* Sessions of disabled users.                                             *)

\* A token is signed for an enabled user or by a login that has read the row.
Grants(v) ==
    \/ NewSession(v) /\ UNCHANGED pre
    \/ pre' = pre \cup {[user |-> v, left |-> PreTtl]} /\ UNCHANGED jwt

Signed ==
    \E v \in User :
        /\ Grants(v)
        /\ Enabled(v) \/ \E c \in Signing(v) : call'[c] = Idle

LEMMA SessionCases ==
    ASSUME TypeOK, References, [Next]_vars
    PROVE  UNCHANGED session \/ Signed \/ Tick
<1> USE DEF session
<1>1. ASSUME NEW c \in Call, Arrive(c) PROVE UNCHANGED session
  BY <1>1 DEF Arrive, Enter, SsoCallback, Begin, CreateStart, UpdateStart
<1>2. ASSUME NEW c \in Call, Proceed(c) PROVE UNCHANGED session \/ Signed
  <2>1. ASSUME NEW p \in pre, CodeLogin(c, p) PROVE Signed
    <3>1. p.user \in User
      BY DEF TypeOK, Held
    <3> QED
      BY <2>1, <3>1 DEF CodeLogin, Signed, Grants
  <2>2. ASSUME NEW j \in jwt, Refresh(c, j) PROVE Signed
    <3>1. j.user \in User
      BY DEF TypeOK, Held
    <3> QED
      BY <2>2, <3>1 DEF Refresh, Signed, Grants
  <2>3. ASSUME \/ \E u \in User : LoginRead(c, u)
               \/ \E p \in pre, code \in Code \cup {None} : RecoveryRead(c, p, code)
               \/ VerifyRead(c) \/ RegenerateRead(c) \/ DisableRead(c)
        PROVE  UNCHANGED session
    BY <2>3 DEF LoginRead, RecoveryRead, VerifyRead, RegenerateRead, DisableRead
  <2> QED
    BY <1>2, <2>1, <2>2, <2>3 DEF Proceed
<1>3. ASSUME NEW c \in Call, Resume(c) PROVE UNCHANGED session \/ Signed
  <2>1. CASE LoginFinish(c)
    <3>1. call[c].user \in User /\ call'[c] = Idle /\ c \in Signing(call[c].user)
      BY <2>1, CallDone DEF LoginFinish, References, Refers, Signing
    <3>2. Grants(call[c].user)
      BY <2>1 DEF LoginFinish, Grants
    <3> QED
      BY <3>1, <3>2 DEF Signed
  <2>2. CASE RecoveryFinish(c)
    <3>1. call[c].user \in User /\ call'[c] = Idle /\ c \in Signing(call[c].user)
      BY <2>2, CallDone DEF RecoveryFinish, References, Refers, Signing
    <3>2. Grants(call[c].user)
      BY <2>2 DEF RecoveryFinish, Grants
    <3> QED
      BY <3>1, <3>2 DEF Signed
  <2>3. ASSUME NEW u \in User, SsoFinish(c, u) PROVE Signed
    BY <2>3 DEF SsoFinish, Signed, Grants
  <2>4. ASSUME LoginFail(c) \/ RecoveryFail(c) \/ SsoFail(c) \/ GiveUp(c) \/ Refused(c)
        PROVE  UNCHANGED session
    BY <2>4 DEF LoginFail, RecoveryFail, SsoFail, GiveUp, Refused, Fail
  <2>5. ASSUME \/ VerifyFinish(c) \/ RegenerateFinish(c) \/ DisableFinish(c) \/ CreateFinish(c)
               \/ \E enabled, reset \in BOOLEAN : UpdateFinish(c, enabled, reset)
        PROVE  UNCHANGED session
    BY <2>5 DEF VerifyFinish, RegenerateFinish, DisableFinish, CreateFinish, UpdateFinish
  <2> QED
    BY <1>3, <2>1, <2>2, <2>3, <2>4, <2>5 DEF Resume
<1>4. ASSUME NEW u \in User, Setup(u) \/ DeleteUser(u) PROVE UNCHANGED session
  BY <1>4 DEF Setup, DeleteUser
<1>5. ASSUME NEW i \in Ip, SsoInvalid(i) \/ \E s \in State : SsoStart(i, s) PROVE UNCHANGED session
  BY <1>5 DEF SsoInvalid, SsoStart
<1>6. SsoReap \/ Crash \/ UNCHANGED vars => UNCHANGED session
  BY DEF SsoReap, Crash, vars
<1> QED
  BY <1>1, <1>2, <1>3, <1>4, <1>5, <1>6 DEF Next

\* A request comes to sign for a user only by reading the row of an enabled one.
LEMMA LoginsRead ==
    ASSUME TypeOK, References, [Next]_vars, NEW d \in Call,
           call'[d].kind \in {"login", "recovery"}
    PROVE  call'[d] = call[d] \/ Enabled(call'[d].user)
<1>1. ASSUME NEW c \in Call, Done(c) PROVE call'[d] = call[d]
  BY <1>1, CallDone
<1>2. ASSUME NEW c \in Call, NEW u,
             \/ Becomes(c, "session", u) \/ Becomes(c, "create", u)
             \/ Becomes(c, "update", u) \/ Becomes(c, "regenerate", u) \/ Becomes(c, "disable", u)
      PROVE  call'[d] = call[d]
  BY <1>2 DEF Becomes, TypeOK, CallState
<1>3. ASSUME NEW c \in Call, Arrive(c) PROVE call'[d] = call[d]
  <2>1. ASSUME NEW i \in Ip, Enter(c, i) \/ \E s \in State : SsoCallback(c, i, s)
        PROVE  call'[d] = call[d]
    BY <2>1 DEF Enter, SsoCallback, Idle, TypeOK
  <2>2. ASSUME NEW u \in User, Begin(c, u) \/ CreateStart(c, u) \/ UpdateStart(c, u)
        PROVE  call'[d] = call[d]
    BY <1>2, <2>2 DEF Begin, CreateStart, UpdateStart
  <2> QED
    BY <1>3, <2>1, <2>2 DEF Arrive
<1>4. ASSUME NEW c \in Call, Proceed(c) PROVE call'[d] = call[d] \/ Enabled(call'[d].user)
  <2>1. ASSUME NEW u \in User, LoginRead(c, u)
        PROVE  call'[d] = call[d] \/ Enabled(call'[d].user)
    <3>1. d = c => call'[d].user = u
      BY <2>1 DEF LoginRead, TypeOK, CallState
    <3> QED
      BY <2>1, <3>1 DEF LoginRead, TypeOK
  <2>2. ASSUME NEW p \in pre, NEW code \in Code \cup {None}, RecoveryRead(c, p, code)
        PROVE  call'[d] = call[d] \/ Enabled(call'[d].user)
    <3>1. d = c => call'[d].user = p.user
      BY <2>2 DEF RecoveryRead, TypeOK, CallState
    <3> QED
      BY <2>2, <3>1 DEF RecoveryRead, TypeOK
  <2>3. CASE VerifyRead(c)
    BY <2>3 DEF VerifyRead, TypeOK, CallState
  <2> QED
    BY <1>1, <1>2, <1>4, <2>1, <2>2, <2>3
    DEF Proceed, CodeLogin, Refresh, RegenerateRead, DisableRead
<1>5. ASSUME NEW c \in Call, Resume(c) PROVE call'[d] = call[d]
  <2>1. Done(c)
    BY <1>5 DEF Resume, LoginFinish, LoginFail, RecoveryFinish, RecoveryFail, VerifyFinish,
                RegenerateFinish, DisableFinish, CreateFinish, UpdateFinish, SsoFinish,
                SsoFail, GiveUp, Refused, Fail
  <2> QED
    BY <1>1, <2>1
<1>6. CASE Crash
  BY <1>6 DEF Crash, Idle
<1>7. ASSUME \/ \E u \in User : Setup(u) \/ DeleteUser(u)
             \/ \E i \in Ip : SsoInvalid(i) \/ \E s \in State : SsoStart(i, s)
             \/ SsoReap \/ Tick \/ UNCHANGED vars
      PROVE  call'[d] = call[d]
  BY <1>7 DEF Setup, DeleteUser, SsoInvalid, SsoStart, SsoReap, Tick, vars
<1> QED
  BY <1>3, <1>4, <1>5, <1>6, <1>7 DEF Next

\* What time leaves is a token from before.
LEMMA OlderInherits ==
    ASSUME NEW ttl \in Nat, NEW tokens \in SUBSET Held(ttl), NEW t \in Older(tokens)
    PROVE  Inherited(t, tokens)
<1>1. PICK k \in tokens : t = [k EXCEPT !.left = @ - 1]
  BY DEF Older
<1>2. k = [user |-> k.user, left |-> k.left] /\ k.left \in 1..ttl
  BY DEF Held
<1>3. t = [user |-> k.user, left |-> k.left - 1]
  BY <1>1, <1>2
<1>4. [t EXCEPT !.left = @ + 1] = [user |-> k.user, left |-> (k.left - 1) + 1]
  BY <1>3
<1>5. (k.left - 1) + 1 = k.left
  BY <1>2
<1> QED
  BY <1>2, <1>4, <1>5 DEF Inherited

\* A user who is disabled keeps what sessions are left, and gets none but from
\* the logins that had read the row before: these do not grow in number.
THEOREM DisabledIsDrained == Spec => DisabledOnlyDrain
<1>1. Init => TypeOK /\ References
  BY InitOK DEF IInv
<1>2. TypeOK /\ References /\ [Next]_vars => (TypeOK /\ References)'
  BY TypesStep
<1>3. TypeOK /\ References /\ [Next]_vars => [DisabledDrains]_vars
  <2> SUFFICES ASSUME TypeOK, References, [Next]_vars, NEW u \in User, ~Enabled(u)
               PROVE  /\ Signing(u)' \subseteq Signing(u)
                      /\ Signing(u)' = Signing(u) =>
                            /\ \A j \in jwt' : j.user = u => Inherited(j, jwt)
                            /\ \A p \in pre' : p.user = u => Inherited(p, pre)
    BY DEF DisabledDrains
  <2>1. Signing(u)' \subseteq Signing(u)
    BY LoginsRead DEF Signing
  <2>2. ASSUME Signed, Signing(u)' = Signing(u)
        PROVE  /\ \A j \in jwt' : j.user = u => j \in jwt
               /\ \A p \in pre' : p.user = u => p \in pre
    <3>1. PICK v \in User : Grants(v) /\ (Enabled(v) \/ \E c \in Signing(v) : call'[c] = Idle)
      BY <2>2 DEF Signed
    <3>2. v # u
      BY <2>2, <3>1 DEF Signing, Idle
    <3> QED
      BY <3>1, <3>2 DEF Grants, NewSession
  <2>3. ASSUME Tick
        PROVE  /\ \A j \in jwt' : Inherited(j, jwt)
               /\ \A p \in pre' : Inherited(p, pre)
    <3>1. jwt \in SUBSET Held(JwtTtl) /\ pre \in SUBSET Held(PreTtl)
      BY DEF TypeOK
    <3>2. JwtTtl \in Nat /\ PreTtl \in Nat
      BY ConstantsOK
    <3> QED
      BY <2>3, <3>1, <3>2, OlderInherits DEF Tick
  <2> QED
    BY <2>1, <2>2, <2>3, SessionCases DEF session, Inherited
<1> QED
  BY <1>1, <1>2, <1>3, PTL DEF Spec, DisabledOnlyDrain
=============================================================================
