-------------------------------- MODULE Lockout --------------------------------
(***************************************************************************)
(* AppRoles with a history variable, to say by when a change to a role has *)
(* taken hold: how long the role's standing has been the same, counted     *)
(* from the end of the last handler that had read an older one.            *)
(***************************************************************************)
EXTENDS AppRoles

VARIABLE
    calm            \* history: ticks, up to JwtTtl, that each role has been calm

lvars == <<vars, calm>>

\* What a JWT of the role is signed after: whether it is there, whether it is
\* suspended, and its policies.
Standing(r) ==
    [present |-> Present(r), suspended |-> role[r].suspended, policy |-> role[r].policy]

\* Handlers that will sign by what they read of the role before their await.
Reading(r) == {c \in Call : call[c].kind \in {"login", "exchange"} /\ call[c].role = r}

Current(c, r) ==
    Standing(r) = [present |-> TRUE, suspended |-> call[c].suspended, policy |-> call[c].policy]

Outdated(r) == \E c \in Reading(r) : ~Current(c, r)

CalmAfter(r, ticks) ==
    IF Outdated(r) \/ Standing(r)' # Standing(r) THEN 0
    ELSE IF calm[r] + ticks > JwtTtl THEN JwtTtl ELSE calm[r] + ticks

LInit == Init /\ calm = [r \in Role |-> 0]

Watched(ticks) == calm' = [r \in Role |-> CalmAfter(r, ticks)]

(* The actions of AppRoles, each with its history. *)
LAdministration == \E r \in Role :
    \/ \E policy \in Policy : CreateRole(r, policy) /\ Watched(0)
    \/ \E c \in Call : UpdateStart(c, r) /\ Watched(0)
    \/ \E suspended \in BOOLEAN : Suspend(r, suspended) /\ Watched(0)
    \/ DeleteRole(r) /\ Watched(0)

LLinks == \E t \in Token :
    \/ \E kind \in {"onboard", "rotate"}, r \in Role, ttl \in 1..TokenTtl :
          CreateToken(t, kind, r, ttl) /\ Watched(0)
    \/ RevokeToken(t) /\ Watched(0)
    \/ PurgeToken(t) /\ Watched(0)
    \/ ExchangeRefused(t) /\ Watched(0)
    \/ \E c \in Call : ExchangeStart(c, t) /\ Watched(0)

LSessions ==
    \/ \E c \in Call, r \in Role : LoginStart(c, r) /\ Watched(0)
    \/ \E j \in jwt : Refresh(j) /\ Watched(0)

LResume == \E c \in Call :
    \/ \E body \in Policy \cup {None} : UpdateFinish(c, body) /\ Watched(0)
    \/ ExchangeFinish(c) /\ Watched(0)
    \/ ExchangeTooLate(c) /\ Watched(0)
    \/ LoginFinish(c) /\ Watched(0)

LTick == Tick /\ Watched(1)

LCrash == Crash /\ Watched(0)

LNext == LAdministration \/ LLinks \/ LSessions \/ LResume \/ LTick \/ LCrash

LSpec == LInit /\ [][LNext]_lvars

\* The fairness of AppRoles.
LFairSpec == LSpec /\ WF_vars(Tick) /\ \A c \in Call : WF_vars(Resume(c))

-------------------------------------------------------------------------------
\* What the role would get if it logged in now.
InForce(j) ==
    Standing(j.role) = [present |-> TRUE, suspended |-> FALSE, policy |-> j.policy]

\* "suspending a role takes effect at the next refresh" (api/auth.ts:438):
\* whatever logins, exchanges, updates and refreshes overlap, a JWT that says
\* other than the role's standing is no younger than that standing.  JwtTtl
\* after a role was suspended, deleted or given other policies, and after the
\* handlers that had read it before, every JWT left of it carries what is in
\* force, and a role that is out has none.
StandingTakesHold ==
    \A j \in jwt : InForce(j) \/ j.left + calm[j.role] <= JwtTtl
=============================================================================
