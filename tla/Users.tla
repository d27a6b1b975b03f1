--------------------------------- MODULE Users ---------------------------------
(***************************************************************************)
(* The human accounts: the `users` table with its second factor (TOTP      *)
(* secret and one-time recovery codes), login, the self-service routes of  *)
(* /v1/me, single sign-on, and the limiter on failed attempts.             *)
(*                                                                         *)
(* Each request is a Call.  It enters past the limiter or with a valid     *)
(* session, then awaits the body; it reads its row and awaits password     *)
(* checks, hashes or the identity provider; at last it writes.  Every step *)
(* between two awaits is an action.  Lifetimes are what is left of them.   *)
(* Verifying and signing a JWT are awaits too, but no steps of their own:  *)
(* a token's claims are fixed before its signing is awaited, and it counts *)
(* from there.                                                             *)
(***************************************************************************)
EXTENDS Naturals, FiniteSets

CONSTANTS
    User,           \* usernames (free again once deleted)
    Ip,             \* source addresses
    Call,           \* requests that can be in progress at once
    State,          \* SSO states that can be drawn
    JwtTtl,         \* lifetime of a session's JWT, scaled down
    PreTtl,         \* lifetime of a totp-pending token, scaled down
    StateTtl,       \* lifetime of an SSO state, scaled down
    Window,         \* length of the limiter's window, scaled down
    MaxFailed,      \* RATE_LIMIT_MAX
    MaxDraw,        \* bound on the TOTP secrets drawn, and on the sets of codes
    CodesPerSet,    \* recovery codes in a set
    None            \* no user, address, state or code

ASSUME ConstantsOK ==
    /\ {JwtTtl, PreTtl, StateTtl, Window, MaxFailed, CodesPerSet} \subseteq Nat \ {0}
    /\ MaxDraw \in Nat
    /\ IsFiniteSet(Call)
    /\ None \notin User \cup Ip \cup State
    /\ None \notin Nat \X Nat

VARIABLES
    user,           \* the users table
    jwt,            \* unexpired JWTs of user sessions
    pre,            \* unexpired totp-pending tokens
    call,           \* requests in progress
    state,          \* sso_login_state
    failed,         \* failedAttempts
    drawn,          \* TOTP secrets drawn so far
    sets,           \* sets of recovery codes drawn so far
    verified,       \* history: TOTP secrets a code was shown for
    raced,          \* history: users activated with another secret than the one checked
    used,           \* history: the recovery codes each user logged in with
    overtaken,      \* history: users whose codes a login wrote back out of date
    signedIn        \* history: sign-ins per SSO state

account == <<user, drawn, sets, verified, raced>>
recovery == <<used, overtaken>>
session == <<jwt, pre>>
sso == <<state, signedIn>>
vars == <<account, recovery, session, sso, call, failed>>

Secret == 0..MaxDraw            \* 0: NULL
Code == (1..MaxDraw) \X (1..CodesPerSet)
CodesOf(n) == {n} \X (1..CodesPerSet)

UserRow == [present : BOOLEAN, enabled : BOOLEAN, secret : Secret, totp : BOOLEAN,
            codes : SUBSET Code]
Held(ttl) == [user : User, left : 1..ttl]
Kind == {"idle", "entered", "session", "login", "recovery", "verify", "regenerate",
         "disable", "create", "update", "sso"}
CallState == [kind : Kind, ip : Ip \cup {None}, user : User \cup {None}, factor : BOOLEAN,
              secret : Secret, codes : SUBSET Code, code : Code \cup {None},
              state : State \cup {None}]

NoUser == [present |-> FALSE, enabled |-> FALSE, secret |-> 0, totp |-> FALSE, codes |-> {}]
Idle == [kind |-> "idle", ip |-> None, user |-> None, factor |-> FALSE, secret |-> 0,
         codes |-> {}, code |-> None, state |-> None]
NoState == [status |-> "absent", left |-> 0]
NoFailure == [count |-> 0, left |-> 0]

Init ==
    /\ user = [u \in User |-> NoUser]
    /\ jwt = {} /\ pre = {}
    /\ call = [c \in Call |-> Idle]
    /\ state = [s \in State |-> NoState]
    /\ failed = [i \in Ip |-> NoFailure]
    /\ drawn = 0 /\ sets = 0
    /\ verified = {} /\ raced = {}
    /\ used = [u \in User |-> {}] /\ overtaken = {}
    /\ signedIn = [s \in State |-> 0]

Enabled(u) == user[u].present /\ user[u].enabled
\* Login asks for a second factor: totp_enabled && totp_secret.
Factor(u) == user[u].totp /\ user[u].secret # 0

Becomes(c, kind, u) == call' = [call EXCEPT ![c] = [@ EXCEPT !.kind = kind, !.user = u]]
Done(c) == call' = [call EXCEPT ![c] = Idle]
NewSession(u) == jwt' = jwt \cup {[user |-> u, left |-> JwtTtl]}
Patched(u, row) == IF user[u].present THEN [user EXCEPT ![u] = row] ELSE user

-------------------------------------------------------------------------------
(* The limiter: checked on entry, told of failures later.  An entry past   *)
(* its resetAt counts for nothing, whether it was cleaned up or not.       *)

\* Mutant: one more than the limit.
Allowed_OneMore(i) == failed[i].left = 0 \/ failed[i].count <= MaxFailed

Allowed(i) == failed[i].left = 0 \/ failed[i].count < MaxFailed

RecordFailure(i) ==
    failed' = [failed EXCEPT ![i] =
        IF failed[i].left = 0 THEN [count |-> 1, left |-> Window]
        ELSE [count |-> failed[i].count + 1, left |-> failed[i].left]]

\* login, login/totp and refresh check the limiter, then await.
Enter(c, i) ==
    /\ call[c].kind = "idle"
    /\ Allowed(i)
    /\ call' = [call EXCEPT ![c] = [Idle EXCEPT !.kind = "entered", !.ip = i]]
    /\ UNCHANGED <<account, recovery, session, sso, failed>>

\* A malformed body, an expired token, a wrong password in /v1/me: an error
\* and nothing else.
GiveUp(c) ==
    /\ call[c].kind \in {"entered", "session", "regenerate", "disable", "update"}
    /\ Done(c)
    /\ UNCHANGED <<account, recovery, session, sso, failed>>

Fail(c) ==
    /\ RecordFailure(call[c].ip)
    /\ Done(c)
    /\ UNCHANGED <<account, recovery, session, sso>>

\* No such user, a wrong 6-digit code, a bad bearer token.
Refused(c) == call[c].kind = "entered" /\ Fail(c)

-------------------------------------------------------------------------------
(* Login, second factor, refresh.                                          *)

LoginRead(c, u) ==
    /\ call[c].kind = "entered"
    /\ Enabled(u)
    /\ call' = [call EXCEPT ![c] = [@ EXCEPT !.kind = "login", !.user = u,
                                             !.factor = Factor(u)]]
    /\ UNCHANGED <<account, recovery, session, sso, failed>>

\* The password was right: a session, or a pre-auth token if the row as read
\* has a second factor.
LoginFinish(c) ==
    /\ call[c].kind = "login"
    /\ IF call[c].factor
       THEN /\ pre' = pre \cup {[user |-> call[c].user, left |-> PreTtl]}
            /\ UNCHANGED jwt
       ELSE NewSession(call[c].user) /\ UNCHANGED pre
    /\ Done(c)
    /\ UNCHANGED <<account, recovery, sso, failed>>

LoginFail(c) == call[c].kind = "login" /\ Fail(c)

\* A 6-digit code is checked without an await.
CodeLogin(c, p) ==
    /\ call[c].kind = "entered"
    /\ Enabled(p.user) /\ Factor(p.user)
    /\ NewSession(p.user)
    /\ Done(c)
    /\ UNCHANGED <<account, recovery, pre, sso, failed>>

\* A recovery code is hashed against each of the list that was read; None is
\* a code that matches none of them.
RecoveryRead(c, p, code) ==
    /\ call[c].kind = "entered"
    /\ Enabled(p.user) /\ Factor(p.user)
    /\ code \in user[p.user].codes \cup {None}
    /\ call' = [call EXCEPT ![c] = [@ EXCEPT !.kind = "recovery", !.user = p.user,
                                             !.codes = user[p.user].codes, !.code = code]]
    /\ UNCHANGED <<account, recovery, session, sso, failed>>

\* Mutant: the matched code stays in the list.
RecoveryFinish_Keep(c) ==
    /\ call[c].kind = "recovery" /\ call[c].code # None
    /\ LET u == call[c].user
           old == call[c].codes
       IN  /\ overtaken' = IF user[u].present /\ user[u].codes = old THEN overtaken
                           ELSE overtaken \cup {u}
           /\ NewSession(u)
    /\ used' = [used EXCEPT ![call[c].user] = @ \cup {call[c].code}]
    /\ Done(c)
    /\ UNCHANGED <<account, pre, sso, failed>>

\* The list that was read, less the code that matched, is written back.
RecoveryFinish(c) ==
    /\ call[c].kind = "recovery" /\ call[c].code # None
    /\ LET u == call[c].user
           old == call[c].codes
       IN  /\ user' = Patched(u, [user[u] EXCEPT !.codes = old \ {call[c].code}])
           /\ overtaken' = IF user[u].present /\ user[u].codes = old THEN overtaken
                           ELSE overtaken \cup {u}
           /\ NewSession(u)
    /\ used' = [used EXCEPT ![call[c].user] = @ \cup {call[c].code}]
    /\ Done(c)
    /\ UNCHANGED <<drawn, sets, verified, raced, pre, sso, failed>>

RecoveryFail(c) == call[c].kind = "recovery" /\ call[c].code = None /\ Fail(c)

\* Mutant: refresh does not look at the users table.
Refresh_NoCheck(c, j) ==
    /\ call[c].kind = "entered"
    /\ NewSession(j.user)
    /\ Done(c)
    /\ UNCHANGED <<account, recovery, pre, sso, failed>>

Refresh(c, j) ==
    /\ call[c].kind = "entered"
    /\ Enabled(j.user)
    /\ NewSession(j.user)
    /\ Done(c)
    /\ UNCHANGED <<account, recovery, pre, sso, failed>>

-------------------------------------------------------------------------------
(* /v1/me: a user's own second factor.                                     *)

\* authMiddleware looks the user up on every request.
MayAct(u) == Enabled(u) /\ \E j \in jwt : j.user = u

\* Mutant: a new secret although the old one is active.
Setup_Anytime(u) ==
    /\ MayAct(u)
    /\ drawn < MaxDraw
    /\ drawn' = drawn + 1
    /\ user' = [user EXCEPT ![u].secret = drawn + 1]
    /\ UNCHANGED <<sets, verified, raced, recovery, session, sso, call, failed>>

Setup(u) ==
    /\ MayAct(u)
    /\ ~user[u].totp
    /\ drawn < MaxDraw
    /\ drawn' = drawn + 1
    /\ user' = [user EXCEPT ![u].secret = drawn + 1, ![u].totp = FALSE]
    /\ UNCHANGED <<sets, verified, raced, recovery, session, sso, call, failed>>

\* The other routes of /v1/me await their body after the session check.
Begin(c, u) ==
    /\ call[c].kind = "idle"
    /\ MayAct(u)
    /\ Becomes(c, "session", u)
    /\ UNCHANGED <<account, recovery, session, sso, failed>>

\* A right code for the pending secret; ten hashes are awaited next.
VerifyRead(c) ==
    LET u == call[c].user
    IN  /\ call[c].kind = "session"
        /\ user[u].present /\ user[u].secret # 0
        /\ verified' = verified \cup {user[u].secret}
        /\ call' = [call EXCEPT ![c] = [@ EXCEPT !.kind = "verify", !.secret = user[u].secret]]
        /\ UNCHANGED <<user, drawn, sets, raced, recovery, session, sso, failed>>

\* The UPDATE activates whatever secret the row has by now.
VerifyFinish(c) ==
    LET u == call[c].user
    IN  /\ call[c].kind = "verify"
        /\ sets < MaxDraw
        /\ sets' = sets + 1
        /\ user' = Patched(u, [user[u] EXCEPT !.totp = TRUE, !.codes = CodesOf(sets + 1)])
        /\ raced' = IF user[u].secret = call[c].secret THEN raced ELSE raced \cup {u}
        /\ Done(c)
        /\ UNCHANGED <<drawn, verified, recovery, session, sso, failed>>

RegenerateRead(c) ==
    /\ call[c].kind = "session"
    /\ user[call[c].user].present /\ user[call[c].user].totp
    /\ Becomes(c, "regenerate", call[c].user)
    /\ UNCHANGED <<account, recovery, session, sso, failed>>

RegenerateFinish(c) ==
    LET u == call[c].user
    IN  /\ call[c].kind = "regenerate"
        /\ sets < MaxDraw
        /\ sets' = sets + 1
        /\ user' = Patched(u, [user[u] EXCEPT !.codes = CodesOf(sets + 1)])
        /\ Done(c)
        /\ UNCHANGED <<drawn, verified, raced, recovery, session, sso, failed>>

DisableRead(c) ==
    /\ call[c].kind = "session"
    /\ user[call[c].user].present
    /\ Becomes(c, "disable", call[c].user)
    /\ UNCHANGED <<account, recovery, session, sso, failed>>

NoTotp(row) == [row EXCEPT !.totp = FALSE, !.secret = 0, !.codes = {}]

DisableFinish(c) ==
    /\ call[c].kind = "disable"
    /\ user' = Patched(call[c].user, NoTotp(user[call[c].user]))
    /\ Done(c)
    /\ UNCHANGED <<drawn, sets, verified, raced, recovery, session, sso, failed>>

-------------------------------------------------------------------------------
(* User administration, with the root token or any admin's JWT.            *)

CreateStart(c, u) ==
    /\ call[c].kind = "idle"
    /\ ~user[u].present
    /\ Becomes(c, "create", u)
    /\ UNCHANGED <<account, recovery, session, sso, failed>>

\* The INSERT fails if the name was taken during the await.
CreateFinish(c) ==
    LET u == call[c].user
    IN  /\ call[c].kind = "create"
        /\ user' = IF user[u].present THEN user
                   ELSE [user EXCEPT ![u] = [NoUser EXCEPT !.present = TRUE, !.enabled = TRUE]]
        /\ Done(c)
        /\ UNCHANGED <<drawn, sets, verified, raced, recovery, session, sso, failed>>

UpdateStart(c, u) ==
    /\ call[c].kind = "idle"
    /\ user[u].present
    /\ Becomes(c, "update", u)
    /\ UNCHANGED <<account, recovery, session, sso, failed>>

\* One UPDATE of the fields the body has, on the row as it is by then.
UpdateFinish(c, enabled, reset) ==
    LET u == call[c].user
        row == [user[u] EXCEPT !.enabled = enabled]
    IN  /\ call[c].kind = "update"
        /\ user' = Patched(u, IF reset THEN NoTotp(row) ELSE row)
        /\ Done(c)
        /\ UNCHANGED <<drawn, sets, verified, raced, recovery, session, sso, failed>>

DeleteUser(u) ==
    /\ user[u].present
    /\ user' = [user EXCEPT ![u] = NoUser]
    /\ UNCHANGED <<drawn, sets, verified, raced, recovery, session, sso, call, failed>>

-------------------------------------------------------------------------------
(* Single sign-on.                                                         *)

SsoStart(i, s) ==
    /\ Allowed(i)
    /\ state[s].status = "absent"
    /\ state' = [state EXCEPT ![s] = [status |-> "live", left |-> StateTtl]]
    /\ UNCHANGED <<account, recovery, session, signedIn, call, failed>>

\* Mutant: the state's row is left there.
SsoCallback_Keep(c, i, s) ==
    /\ call[c].kind = "idle"
    /\ Allowed(i)
    /\ state[s].status = "live" /\ state[s].left > 0
    /\ call' = [call EXCEPT ![c] = [Idle EXCEPT !.kind = "sso", !.ip = i, !.state = s]]
    /\ UNCHANGED <<account, recovery, session, signedIn, state, failed>>

\* The row is read and deleted, then the identity provider is asked.
SsoCallback(c, i, s) ==
    /\ call[c].kind = "idle"
    /\ Allowed(i)
    /\ state[s].status = "live" /\ state[s].left > 0
    /\ state' = [state EXCEPT ![s] = [status |-> "gone", left |-> 0]]
    /\ call' = [call EXCEPT ![c] = [Idle EXCEPT !.kind = "sso", !.ip = i, !.state = s]]
    /\ UNCHANGED <<account, recovery, session, signedIn, failed>>

SsoInvalid(i) ==
    /\ Allowed(i)
    /\ RecordFailure(i)
    /\ UNCHANGED <<account, recovery, session, sso, call>>

SsoFinish(c, u) ==
    /\ call[c].kind = "sso"
    /\ Enabled(u)
    /\ NewSession(u)
    /\ signedIn' = [signedIn EXCEPT ![call[c].state] = @ + 1]
    /\ Done(c)
    /\ UNCHANGED <<account, recovery, pre, state, failed>>

SsoFail(c) == call[c].kind = "sso" /\ Fail(c)

SsoReap ==
    /\ \E s \in State : state[s].status = "live" /\ state[s].left = 0
    /\ state' = [s \in State |-> IF state[s].left = 0 /\ state[s].status = "live"
                                 THEN [status |-> "gone", left |-> 0] ELSE state[s]]
    /\ UNCHANGED <<account, recovery, session, signedIn, call, failed>>

-------------------------------------------------------------------------------
\* Mutant: expired tokens are still good.
Older_KeepExpired(tokens) == {[t EXCEPT !.left = @ - 1] : t \in {k \in tokens : k.left > 0}}

Older(tokens) == {[t EXCEPT !.left = @ - 1] : t \in {k \in tokens : k.left > 1}}

\* Time passes: exp claims, SSO states and the limiter's resetAt come nearer.
Tick ==
    /\ jwt' = Older(jwt)
    /\ pre' = Older(pre)
    /\ state' = [s \in State |-> [state[s] EXCEPT !.left = IF @ = 0 THEN 0 ELSE @ - 1]]
    /\ failed' = [i \in Ip |-> IF failed[i].left <= 1 THEN NoFailure
                               ELSE [failed[i] EXCEPT !.left = @ - 1]]
    /\ UNCHANGED <<account, recovery, signedIn, call>>

\* The process ends: requests in progress and the limiter's map are gone.
Crash ==
    /\ call' = [c \in Call |-> Idle]
    /\ failed' = [i \in Ip |-> NoFailure]
    /\ UNCHANGED <<account, recovery, session, sso>>

\* What the event loop does for a request after the await it is in.
Resume(c) ==
    \/ LoginFinish(c) \/ LoginFail(c)
    \/ RecoveryFinish(c) \/ RecoveryFail(c)
    \/ VerifyFinish(c) \/ RegenerateFinish(c) \/ DisableFinish(c)
    \/ CreateFinish(c)
    \/ \E enabled, reset \in BOOLEAN : UpdateFinish(c, enabled, reset)
    \/ (\E u \in User : SsoFinish(c, u)) \/ SsoFail(c)
    \/ GiveUp(c) \/ Refused(c)

\* What a request past its first await goes on with.
Proceed(c) ==
    \/ \E u \in User : LoginRead(c, u)
    \/ \E p \in pre : CodeLogin(c, p) \/ \E code \in Code \cup {None} : RecoveryRead(c, p, code)
    \/ \E j \in jwt : Refresh(c, j)
    \/ VerifyRead(c) \/ RegenerateRead(c) \/ DisableRead(c)

Arrive(c) ==
    \/ \E i \in Ip : Enter(c, i) \/ \E s \in State : SsoCallback(c, i, s)
    \/ \E u \in User : Begin(c, u) \/ CreateStart(c, u) \/ UpdateStart(c, u)

Next ==
    \/ \E c \in Call : Arrive(c) \/ Proceed(c) \/ Resume(c)
    \/ \E u \in User : Setup(u) \/ DeleteUser(u)
    \/ \E i \in Ip : SsoInvalid(i) \/ \E s \in State : SsoStart(i, s)
    \/ SsoReap \/ Tick \/ Crash

Spec == Init /\ [][Next]_vars

-------------------------------------------------------------------------------
(* Properties.                                                             *)

\* Rows, tokens, requests in progress and the limiter have the shape the code
\* gives them.
TypeOK ==
    /\ user \in [User -> UserRow]
    /\ jwt \subseteq Held(JwtTtl)
    /\ pre \subseteq Held(PreTtl)
    /\ call \in [Call -> CallState]
    /\ state \in [State -> [status : {"absent", "live", "gone"}, left : 0..StateTtl]]
    /\ failed \in [Ip -> [count : Nat, left : 0..Window]]
    /\ drawn \in Secret /\ sets \in Secret
    /\ verified \subseteq Secret /\ raced \subseteq User
    /\ used \in [User -> SUBSET Code] /\ overtaken \subseteq User
    /\ signedIn \in [State -> Nat]

\* A second factor that is on is one whose secret somebody showed a code for
\* (api/me.ts:53, "NOT activated until /v1/me/totp/verify succeeds"), unless a
\* setup, a reset or a deletion came between the check and the activation.
ActiveWasVerified ==
    \A u \in User : user[u].totp /\ u \notin raced => user[u].secret \in verified \ {0}

\* A recovery code logs in twice only if, some time, a login wrote back a list
\* of codes that had changed since it was read.
ConsumedUnlessOvertaken ==
    [][\A c \in Call : RecoveryFinish(c) /\ call[c].user \notin overtaken'
                         => call[c].code \notin used[call[c].user]]_vars

\* The limiter is checked before the awaits and told after them: an address
\* gets past its limit, but by no more than the requests that can be in
\* progress when it is reached.
FailuresBounded ==
    \A i \in Ip : failed[i].count <= MaxFailed + Cardinality(Call)

\* An SSO state signs in at most once, however many callbacks bring it.
SsoOnce == \A s \in State : signedIn[s] <= 1

\* The logins that read u's row and have still to sign something for it.
Signing(u) == {c \in Call : call[c].kind \in {"login", "recovery"} /\ call[c].user = u}

\* A token that was there before the step, or was and has aged.
Inherited(t, tokens) == t \in tokens \/ [t EXCEPT !.left = @ + 1] \in tokens

\* "a disabled or deleted user holding a still-valid JWT must not be able to
\* perpetually self-renew it" (api/auth.ts:522): no login begins for a disabled
\* user and the ones that had read the row before only get fewer; as long as
\* none of these ends, every session and every totp-pending token of the user
\* is one from before, and no younger.
DisabledDrains ==
    \A u \in User : ~Enabled(u) =>
        /\ Signing(u)' \subseteq Signing(u)
        /\ Signing(u)' = Signing(u) =>
              /\ \A j \in jwt' : j.user = u => Inherited(j, jwt)
              /\ \A p \in pre' : p.user = u => Inherited(p, pre)

DisabledOnlyDrain == [][DisabledDrains]_vars

\* "Consume a used recovery code so it can't be reused" (api/auth.ts:948).
RecoveryOnce == [][\A c \in Call : RecoveryFinish(c) => call[c].code \notin used[call[c].user]]_vars
=============================================================================
