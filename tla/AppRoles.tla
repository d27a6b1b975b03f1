------------------------------- MODULE AppRoles -------------------------------
(***************************************************************************)
(* AppRoles and how agents come by credentials: the `app_roles` table, the *)
(* one-shot onboarding and rotation links, login with role_id and          *)
(* secret_id, and the JWTs that login, onboarding and refresh sign.        *)
(*                                                                         *)
(* Handlers that await between reading a row and using it are two actions  *)
(* with a Call in between: login awaits the password check, an exchange    *)
(* the hash of the new secret_id, an update the request body.  Lifetimes   *)
(* are what is left of them, so that a run never reaches the end of time.  *)
(* Verifying and signing a JWT are awaits too, but no steps of their own:  *)
(* a token's claims are fixed before its signing is awaited, and it counts *)
(* from there.                                                             *)
(***************************************************************************)
EXTENDS Naturals

CONSTANTS
    Role,           \* role_ids (uuids: never reused)
    Policy,         \* what a role may do: its policies and IP allowlist
    Token,          \* one-shot links that can be created
    Call,           \* handlers that can be in progress at once
    JwtTtl,         \* lifetime of a JWT, scaled down
    TokenTtl,       \* longest lifetime of a link, scaled down
    MaxSecret,      \* bound on the secret_ids drawn
    None            \* no role, policy or token

ASSUME ConstantsOK ==
    /\ JwtTtl \in Nat \ {0}
    /\ TokenTtl \in Nat \ {0}
    /\ MaxSecret \in Nat
    /\ None \notin Role \cup Policy \cup Token

VARIABLES
    role,           \* the app_roles table
    token,          \* onboarding_tokens and rotate_tokens
    call,           \* handlers in progress
    jwt,            \* the unexpired JWTs that were signed
    drawn,          \* secret_ids drawn so far
    redeemed,       \* history: how often each link gave out a secret_id
    cancelled       \* history: links revoked, or refused to a suspended role

vars == <<role, token, call, jwt, drawn, redeemed, cancelled>>

SecretId == 0..MaxSecret

RoleRow == [status : {"absent", "present", "deleted"}, secret : SecretId,
            policy : Policy \cup {None}, suspended : BOOLEAN]

TokenRow == [status : {"absent", "live", "gone"}, kind : {"onboard", "rotate"},
             role : Role \cup {None}, left : 0..TokenTtl, consumed : BOOLEAN]

\* What a handler has read before its await.
CallState == [kind : {"idle", "login", "exchange", "update"}, role : Role \cup {None},
              policy : Policy \cup {None}, secret : SecretId, suspended : BOOLEAN,
              token : Token \cup {None}]

\* `secret` is history: the secret_id the agent had when it got this JWT or
\* the one it was refreshed from.
Jwt == [role : Role, policy : Policy, left : 1..JwtTtl, secret : SecretId]

NoRole == [status |-> "absent", secret |-> 0, policy |-> None, suspended |-> FALSE]
NoToken == [status |-> "absent", kind |-> "onboard", role |-> None, left |-> 0,
            consumed |-> FALSE]
Idle == [kind |-> "idle", role |-> None, policy |-> None, secret |-> 0,
         suspended |-> FALSE, token |-> None]

Init ==
    /\ role = [r \in Role |-> NoRole]
    /\ token = [t \in Token |-> NoToken]
    /\ call = [c \in Call |-> Idle]
    /\ jwt = {}
    /\ drawn = 0
    /\ redeemed = [t \in Token |-> 0]
    /\ cancelled = {}

Present(r) == role[r].status = "present"

Signed(r, policy, secret) ==
    [role |-> r, policy |-> policy, left |-> JwtTtl, secret |-> secret]

-------------------------------------------------------------------------------
(* Administration of roles.                                                *)

CreateRole(r, policy) ==
    /\ role[r].status = "absent"
    /\ drawn < MaxSecret
    /\ drawn' = drawn + 1
    /\ role' = [role EXCEPT ![r] = [status |-> "present", secret |-> drawn + 1,
                                    policy |-> policy, suspended |-> FALSE]]
    /\ UNCHANGED <<token, call, jwt, redeemed, cancelled>>

\* PUT reads the row, awaits the body, and writes the policies back as it
\* read them when the body has none (None).
UpdateStart(c, r) ==
    /\ call[c].kind = "idle"
    /\ Present(r)
    /\ call' = [call EXCEPT ![c] = [Idle EXCEPT !.kind = "update", !.role = r,
                                                !.policy = role[r].policy]]
    /\ UNCHANGED <<role, token, jwt, drawn, redeemed, cancelled>>

UpdateFinish(c, body) ==
    /\ call[c].kind = "update"
    /\ role' = IF Present(call[c].role)
               THEN [role EXCEPT ![call[c].role].policy =
                        IF body = None THEN call[c].policy ELSE body]
               ELSE role
    /\ call' = [call EXCEPT ![c] = Idle]
    /\ UNCHANGED <<token, jwt, drawn, redeemed, cancelled>>

Suspend(r, suspended) ==
    /\ Present(r)
    /\ role[r].suspended # suspended
    /\ role' = [role EXCEPT ![r].suspended = suspended]
    /\ UNCHANGED <<token, call, jwt, drawn, redeemed, cancelled>>

\* The links go with the role (ON DELETE CASCADE), signed JWTs do not.
DeleteRole(r) ==
    /\ Present(r)
    /\ role' = [role EXCEPT ![r] = [NoRole EXCEPT !.status = "deleted"]]
    /\ token' = [t \in Token |->
                    IF token[t].role = r THEN [NoToken EXCEPT !.status = "gone"] ELSE token[t]]
    /\ UNCHANGED <<call, jwt, drawn, redeemed, cancelled>>

-------------------------------------------------------------------------------
(* One-shot links.                                                         *)

Usable(t) == token[t].status = "live" /\ ~token[t].consumed /\ token[t].left > 0

CreateToken(t, kind, r, ttl) ==
    /\ token[t].status = "absent"
    /\ Present(r)
    /\ token' = [token EXCEPT ![t] = [status |-> "live", kind |-> kind, role |-> r,
                                      left |-> ttl, consumed |-> FALSE]]
    /\ UNCHANGED <<role, call, jwt, drawn, redeemed, cancelled>>

\* Only onboarding links can be revoked; an expired one can, too.
RevokeToken(t) ==
    /\ token[t].status = "live" /\ token[t].kind = "onboard"
    /\ ~token[t].consumed
    /\ token' = [token EXCEPT ![t].consumed = TRUE]
    /\ cancelled' = cancelled \cup {t}
    /\ UNCHANGED <<role, call, jwt, drawn, redeemed>>

\* The hourly cleanup; rotation links are never cleaned up.
PurgeToken(t) ==
    /\ token[t].status = "live" /\ token[t].kind = "onboard"
    /\ token[t].left = 0
    /\ token' = [token EXCEPT ![t] = [NoToken EXCEPT !.status = "gone"]]
    /\ UNCHANGED <<role, call, jwt, drawn, redeemed, cancelled>>

\* A suspended role's link is consumed and refused.
ExchangeRefused(t) ==
    /\ Usable(t)
    /\ role[token[t].role].suspended
    /\ token' = [token EXCEPT ![t].consumed = TRUE]
    /\ cancelled' = cancelled \cup {t}
    /\ UNCHANGED <<role, call, jwt, drawn, redeemed>>

\* An exchange up to its await: the row of the link joined with its role.
ExchangeStart(c, t) ==
    /\ call[c].kind = "idle"
    /\ Usable(t)
    /\ ~role[token[t].role].suspended
    /\ call' = [call EXCEPT ![c] = [Idle EXCEPT !.kind = "exchange", !.token = t,
                                                !.role = token[t].role,
                                                !.policy = role[token[t].role].policy]]
    /\ UNCHANGED <<role, token, jwt, drawn, redeemed, cancelled>>

\* Mutant: the UPDATE of the link has no condition on consumed_at.
ExchangeFinish_Again(c) ==
    LET t == call[c].token
        r == call[c].role
    IN  /\ call[c].kind = "exchange"
        /\ token[t].status = "live" /\ token[t].left > 0
        /\ drawn < MaxSecret
        /\ drawn' = drawn + 1
        /\ token' = [token EXCEPT ![t].consumed = TRUE]
        /\ role' = [role EXCEPT ![r].secret = drawn + 1]
        /\ redeemed' = [redeemed EXCEPT ![t] = @ + 1]
        /\ jwt' = IF token[t].kind = "onboard"
                  THEN jwt \cup {Signed(r, call[c].policy, drawn + 1)} ELSE jwt
        /\ call' = [call EXCEPT ![c] = Idle]
        /\ UNCHANGED cancelled

\* One transaction consumes the link, unless somebody else has, and stores
\* the new secret_id; onboarding also signs a JWT, with the policies read
\* before the await.
ExchangeFinish(c) ==
    LET t == call[c].token
        r == call[c].role
    IN  /\ call[c].kind = "exchange"
        /\ Usable(t)
        /\ drawn < MaxSecret
        /\ drawn' = drawn + 1
        /\ token' = [token EXCEPT ![t].consumed = TRUE]
        /\ role' = [role EXCEPT ![r].secret = drawn + 1]
        /\ redeemed' = [redeemed EXCEPT ![t] = @ + 1]
        /\ jwt' = IF token[t].kind = "onboard"
                  THEN jwt \cup {Signed(r, call[c].policy, drawn + 1)} ELSE jwt
        /\ call' = [call EXCEPT ![c] = Idle]
        /\ UNCHANGED cancelled

ExchangeTooLate(c) ==
    /\ call[c].kind = "exchange"
    /\ ~Usable(call[c].token)
    /\ call' = [call EXCEPT ![c] = Idle]
    /\ UNCHANGED <<role, token, jwt, drawn, redeemed, cancelled>>

-------------------------------------------------------------------------------
(* Login and refresh.                                                      *)

\* With the secret_id the role has now; any other fails without a trace here.
LoginStart(c, r) ==
    /\ call[c].kind = "idle"
    /\ Present(r)
    /\ call' = [call EXCEPT ![c] = [Idle EXCEPT !.kind = "login", !.role = r,
                                                !.policy = role[r].policy,
                                                !.secret = role[r].secret,
                                                !.suspended = role[r].suspended]]
    /\ UNCHANGED <<role, token, jwt, drawn, redeemed, cancelled>>

\* After the password check: suspension and policies as they were read.
LoginFinish(c) ==
    /\ call[c].kind = "login"
    /\ jwt' = IF call[c].suspended THEN jwt
              ELSE jwt \cup {Signed(call[c].role, call[c].policy, call[c].secret)}
    /\ call' = [call EXCEPT ![c] = Idle]
    /\ UNCHANGED <<role, token, drawn, redeemed, cancelled>>

\* Mutant: refresh signs whatever the old JWT said.
Refresh_NoCheck(j) ==
    /\ jwt' = jwt \cup {Signed(j.role, j.policy, j.secret)}
    /\ UNCHANGED <<role, token, call, drawn, redeemed, cancelled>>

\* Mutant: refresh checks the role but keeps the old policies.
Refresh_OldPolicy(j) ==
    /\ Present(j.role)
    /\ ~role[j.role].suspended
    /\ jwt' = jwt \cup {Signed(j.role, j.policy, j.secret)}
    /\ UNCHANGED <<role, token, call, drawn, redeemed, cancelled>>

Refresh(j) ==
    /\ Present(j.role)
    /\ ~role[j.role].suspended
    /\ jwt' = jwt \cup {Signed(j.role, role[j.role].policy, j.secret)}
    /\ UNCHANGED <<role, token, call, drawn, redeemed, cancelled>>

-------------------------------------------------------------------------------
\* Mutant: an expired JWT is still there to be refreshed.
Tick_KeepExpired ==
    /\ jwt' = {[j EXCEPT !.left = @ - 1] : j \in {k \in jwt : k.left > 0}}
    /\ token' = [t \in Token |-> [token[t] EXCEPT !.left = IF @ = 0 THEN 0 ELSE @ - 1]]
    /\ UNCHANGED <<role, call, drawn, redeemed, cancelled>>

\* Time passes: the JWT's exp claim and the link's expires_at come nearer.
Tick ==
    /\ jwt' = {[j EXCEPT !.left = @ - 1] : j \in {k \in jwt : k.left > 1}}
    /\ token' = [t \in Token |-> [token[t] EXCEPT !.left = IF @ = 0 THEN 0 ELSE @ - 1]]
    /\ UNCHANGED <<role, call, drawn, redeemed, cancelled>>

\* The process ends: handlers in progress are gone, everything else is in
\* the database or in the agents' hands.
Crash ==
    /\ call' = [c \in Call |-> Idle]
    /\ UNCHANGED <<role, token, jwt, drawn, redeemed, cancelled>>

Administration == \E r \in Role :
    \/ \E policy \in Policy : CreateRole(r, policy)
    \/ \E c \in Call : UpdateStart(c, r)
    \/ \E suspended \in BOOLEAN : Suspend(r, suspended)
    \/ DeleteRole(r)

Links == \E t \in Token :
    \/ \E kind \in {"onboard", "rotate"}, r \in Role, ttl \in 1..TokenTtl :
          CreateToken(t, kind, r, ttl)
    \/ RevokeToken(t)
    \/ PurgeToken(t)
    \/ ExchangeRefused(t)
    \/ \E c \in Call : ExchangeStart(c, t)

Sessions ==
    \/ \E c \in Call, r \in Role : LoginStart(c, r)
    \/ \E j \in jwt : Refresh(j)

\* What the event loop does for a handler in progress.
Resume(c) ==
    \/ \E body \in Policy \cup {None} : UpdateFinish(c, body)
    \/ ExchangeFinish(c)
    \/ ExchangeTooLate(c)
    \/ LoginFinish(c)

Next == Administration \/ Links \/ Sessions \/ (\E c \in Call : Resume(c)) \/ Tick \/ Crash

Spec == Init /\ [][Next]_vars

\* Awaits end and time passes.
FairSpec == Spec /\ WF_vars(Tick) /\ \A c \in Call : WF_vars(Resume(c))

-------------------------------------------------------------------------------
(* Properties.                                                             *)

\* Rows, handlers in progress and JWTs have the shape the code gives them.
TypeOK ==
    /\ role \in [Role -> RoleRow]
    /\ token \in [Token -> TokenRow]
    /\ call \in [Call -> CallState]
    /\ jwt \subseteq Jwt
    /\ drawn \in SecretId
    /\ redeemed \in [Token -> Nat]
    /\ cancelled \subseteq Token

\* A link gives out at most one secret_id, and none once it was revoked or
\* refused, however many exchanges were past their first look at it.
SingleUse ==
    \A t \in Token :
        /\ redeemed[t] <= 1
        /\ t \in cancelled => redeemed[t] = 0

Locked(r) == role[r].status = "deleted" \/ role[r].suspended

\* Suspending or deleting a role takes hold: if it stays so, there comes a
\* time after which no unexpired JWT of the role is left, whatever logins,
\* exchanges and chains of refreshes were under way.
LockoutTakesHold ==
    \A r \in Role : <>[]Locked(r) => <>[](\A j \in jwt : j.role # r)

\* So does a change of its policies: if they stay the same, there comes a
\* time after which every unexpired JWT of the role carries them.
PolicyTakesHold ==
    \A r \in Role, policy \in Policy :
        <>[](Present(r) /\ role[r].policy = policy)
            => <>[](\A j \in jwt : j.role = r => j.policy = policy)

\* "operators can rotate the secret_id via /v1/rotate to invalidate any
\* in-flight JWTs at next refresh" (auth/middleware.ts:38): a JWT obtained
\* with a secret_id that was rotated since is not refreshed.
RotationEndsRefresh ==
    [][\A j \in jwt : Refresh(j) => j.secret = role[j.role].secret]_vars
=============================================================================
