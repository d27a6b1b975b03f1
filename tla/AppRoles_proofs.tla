---------------------------- MODULE AppRoles_proofs ----------------------------
(***************************************************************************)
(* Proofs about AppRoles and Lockout, for every set of roles, policies,    *)
(* links and concurrent handlers and every lifetime.                       *)
(***************************************************************************)
EXTENDS Lockout, TLAPS

\* What the rows refer to: a stored role has policies, a live link has a
\* stored role (the foreign key and its cascade), and a handler in progress
\* holds what it read of a role and a link.
References ==
    /\ \A r \in Role : Present(r) => role[r].policy \in Policy
    /\ \A t \in Token : token[t].status = "live" =>
          token[t].role \in Role /\ Present(token[t].role)
    /\ \A c \in Call : call[c].kind # "idle" =>
          /\ call[c].role \in Role
          /\ call[c].policy \in Policy
          /\ call[c].kind = "exchange" => call[c].token \in Token

\* A link that gave out a secret_id, was revoked or was refused stays spent.
Spent(t) == token[t].status = "gone" \/ token[t].consumed

SpentLinks ==
    \A t \in Token :
        /\ token[t].status = "absent" => ~token[t].consumed
        /\ redeemed[t] # 0 \/ t \in cancelled => Spent(t)

IInv == TypeOK /\ References /\ SpentLinks /\ SingleUse

-------------------------------------------------------------------------------
(* Records.                                                                *)

LEMMA SignedOK ==
    ASSUME NEW r \in Role, NEW policy \in Policy, NEW s \in SecretId
    PROVE  Signed(r, policy, s) \in Jwt
BY ConstantsOK DEF Signed, Jwt

LEMMA RowsOK ==
    /\ NoRole \in RoleRow
    /\ [NoRole EXCEPT !.status = "deleted"] \in RoleRow
    /\ NoToken \in TokenRow
    /\ [NoToken EXCEPT !.status = "gone"] \in TokenRow
    /\ Idle \in CallState
<1>1. 0 \in SecretId /\ 0 \in 0..TokenTtl
  BY ConstantsOK DEF SecretId
<1>2. NoRole \in RoleRow
  BY <1>1 DEF NoRole, RoleRow
<1>3. [NoRole EXCEPT !.status = "deleted"] \in RoleRow
  BY <1>1 DEF NoRole, RoleRow
<1>4. NoToken \in TokenRow
  BY <1>1 DEF NoToken, TokenRow
<1>5. [NoToken EXCEPT !.status = "gone"] \in TokenRow
  BY <1>1 DEF NoToken, TokenRow
<1>6. Idle \in CallState
  BY <1>1 DEF Idle, CallState
<1> QED
  BY <1>2, <1>3, <1>4, <1>5, <1>6

LEMMA ConsumedOK ==
    ASSUME NEW row \in TokenRow
    PROVE  /\ [row EXCEPT !.consumed = TRUE] \in TokenRow
           /\ [row EXCEPT !.left = IF @ = 0 THEN 0 ELSE @ - 1] \in TokenRow
<1>1. [row EXCEPT !.consumed = TRUE] \in TokenRow
  BY DEF TokenRow
<1>2. row.left \in 0..TokenTtl
  BY DEF TokenRow
<1>3. (IF row.left = 0 THEN 0 ELSE row.left - 1) \in 0..TokenTtl
  BY <1>2, ConstantsOK
<1>4. [row EXCEPT !.left = IF row.left = 0 THEN 0 ELSE row.left - 1] \in TokenRow
  BY <1>3 DEF TokenRow
<1> QED
  BY <1>1, <1>4

-------------------------------------------------------------------------------
(* Types and references together: what a handler writes after its await is *)
(* well-formed because of what it read before.                             *)

LEMMA InitOK == Init => IInv
<1> SUFFICES ASSUME Init PROVE IInv
  OBVIOUS
<1>1. TypeOK
  BY RowsOK, ConstantsOK DEF Init, TypeOK, SecretId
<1>2. References
  BY DEF Init, References, Present, NoRole, NoToken, Idle
<1>3. SpentLinks /\ SingleUse
  BY DEF Init, SpentLinks, SingleUse, NoToken
<1> QED
  BY <1>1, <1>2, <1>3 DEF IInv

LEMMA CreateRoleTypes ==
    ASSUME TypeOK, References, NEW r \in Role, NEW policy \in Policy, CreateRole(r, policy)
    PROVE  TypeOK' /\ References'
<1> DEFINE row == [status |-> "present", secret |-> drawn + 1,
                   policy |-> policy, suspended |-> FALSE]
<1>1. drawn + 1 \in SecretId
  BY ConstantsOK DEF TypeOK, CreateRole, SecretId
<1>2. row \in RoleRow
  BY <1>1 DEF RoleRow
<1>3. role' = [role EXCEPT ![r] = row] /\ drawn' = drawn + 1
  BY DEF CreateRole
<1>4. TypeOK'
  BY <1>1, <1>2, <1>3 DEF TypeOK, CreateRole
<1>5. References'
  BY <1>3 DEF TypeOK, References, CreateRole, Present
<1> QED
  BY <1>4, <1>5

\* A handler that starts remembers a role that is there.
LEMMA StartTypes ==
    ASSUME TypeOK, References, NEW c \in Call, NEW s \in CallState, s.role \in Role,
           s.policy \in Policy, s.kind = "exchange" => s.token \in Token,
           call' = [call EXCEPT ![c] = s],
           UNCHANGED <<role, token, jwt, drawn, redeemed, cancelled>>
    PROVE  TypeOK' /\ References'
<1>1. TypeOK'
  BY DEF TypeOK
<1>2. References'
  BY DEF TypeOK, References, Present
<1> QED
  BY <1>1, <1>2

LEMMA UpdateStartTypes ==
    ASSUME TypeOK, References, NEW c \in Call, NEW r \in Role, UpdateStart(c, r)
    PROVE  TypeOK' /\ References'
<1> DEFINE s == [Idle EXCEPT !.kind = "update", !.role = r, !.policy = role[r].policy]
<1>1. role[r].policy \in Policy
  BY DEF UpdateStart, References
<1>2. s \in CallState /\ s.role = r /\ s.policy = role[r].policy /\ s.kind = "update"
  BY <1>1, RowsOK DEF CallState, Idle
<1>3. call' = [call EXCEPT ![c] = s]
  BY DEF UpdateStart
<1> QED
  BY <1>1, <1>2, <1>3, StartTypes DEF UpdateStart

LEMMA LoginStartTypes ==
    ASSUME TypeOK, References, NEW c \in Call, NEW r \in Role, LoginStart(c, r)
    PROVE  TypeOK' /\ References'
<1> DEFINE s == [Idle EXCEPT !.kind = "login", !.role = r, !.policy = role[r].policy,
                             !.secret = role[r].secret, !.suspended = role[r].suspended]
<1>1. role[r].policy \in Policy
  BY DEF LoginStart, References
<1>2. role[r].secret \in SecretId /\ role[r].suspended \in BOOLEAN
  BY DEF TypeOK, RoleRow
<1>3. s \in CallState /\ s.role = r /\ s.policy = role[r].policy /\ s.kind = "login"
  BY <1>1, <1>2, RowsOK DEF CallState, Idle
<1>4. call' = [call EXCEPT ![c] = s]
  BY DEF LoginStart
<1> QED
  BY <1>1, <1>3, <1>4, StartTypes DEF LoginStart

LEMMA ExchangeStartTypes ==
    ASSUME TypeOK, References, NEW c \in Call, NEW t \in Token, ExchangeStart(c, t)
    PROVE  TypeOK' /\ References'
<1> DEFINE s == [Idle EXCEPT !.kind = "exchange", !.token = t, !.role = token[t].role,
                             !.policy = role[token[t].role].policy]
<1>1. token[t].role \in Role /\ role[token[t].role].policy \in Policy
  BY DEF ExchangeStart, Usable, References
<1>2. /\ s \in CallState
      /\ s.role = token[t].role /\ s.policy = role[token[t].role].policy /\ s.token = t
  BY <1>1, RowsOK DEF CallState, Idle
<1>3. call' = [call EXCEPT ![c] = s]
  BY DEF ExchangeStart
<1> QED
  BY <1>1, <1>2, <1>3, StartTypes DEF ExchangeStart

LEMMA UpdateFinishTypes ==
    ASSUME TypeOK, References, NEW c \in Call, NEW body \in Policy \cup {None},
           UpdateFinish(c, body)
    PROVE  TypeOK' /\ References'
<1> DEFINE r == call[c].role
           policy == IF body = None THEN call[c].policy ELSE body
<1>1. r \in Role /\ policy \in Policy
  BY DEF UpdateFinish, References
<1>2. role[r] \in RoleRow
  BY <1>1 DEF TypeOK
<1>3. [role[r] EXCEPT !.policy = policy] \in RoleRow
  BY <1>1, <1>2 DEF RoleRow
<1>4. role' = IF Present(r) THEN [role EXCEPT ![r] = [role[r] EXCEPT !.policy = policy]]
                            ELSE role
  BY DEF UpdateFinish
<1>5. role' \in [Role -> RoleRow]
  BY <1>1, <1>3, <1>4 DEF TypeOK
<1>6. call' = [call EXCEPT ![c] = Idle]
  BY DEF UpdateFinish
<1>7. TypeOK'
  BY <1>5, <1>6, RowsOK DEF TypeOK, UpdateFinish
<1>8. \A q \in Role : /\ role'[q].status = role[q].status
                      /\ role'[q].policy \in {role[q].policy, policy}
  BY <1>1, <1>2, <1>4 DEF TypeOK, RoleRow
<1>9. References'
  BY <1>1, <1>6, <1>8 DEF References, Present, TypeOK, UpdateFinish, Idle
<1> QED
  BY <1>7, <1>9

LEMMA SuspendTypes ==
    ASSUME TypeOK, References, NEW r \in Role, NEW suspended \in BOOLEAN,
           Suspend(r, suspended)
    PROVE  TypeOK' /\ References'
<1>1. role[r] \in RoleRow
  BY DEF TypeOK
<1>2. role' = [role EXCEPT ![r] = [role[r] EXCEPT !.suspended = suspended]]
  BY DEF Suspend
<1>3. [role[r] EXCEPT !.suspended = suspended] \in RoleRow
  BY <1>1 DEF RoleRow
<1>4. TypeOK'
  BY <1>2, <1>3 DEF TypeOK, Suspend
<1>5. \A q \in Role : /\ role'[q].status = role[q].status
                      /\ role'[q].policy = role[q].policy
  BY <1>1, <1>2 DEF TypeOK, RoleRow
<1>6. References'
  BY <1>5 DEF References, Present, Suspend
<1> QED
  BY <1>4, <1>6

LEMMA DeleteRoleTypes ==
    ASSUME TypeOK, References, NEW r \in Role, DeleteRole(r)
    PROVE  TypeOK' /\ References'
<1>1. role' = [role EXCEPT ![r] = [NoRole EXCEPT !.status = "deleted"]]
  BY DEF DeleteRole
<1>2. token' = [t \in Token |-> IF token[t].role = r
                                THEN [NoToken EXCEPT !.status = "gone"] ELSE token[t]]
  BY DEF DeleteRole
<1>3. TypeOK'
  BY <1>1, <1>2, RowsOK DEF TypeOK, DeleteRole
<1>4. \A q \in Role : Present(q)' => q # r /\ role'[q] = role[q]
  BY <1>1 DEF Present, TypeOK, NoRole
<1>5. \A q \in Role : q # r => role'[q] = role[q]
  BY <1>1 DEF TypeOK
<1>6. \A t \in Token : token'[t].status = "live" => token[t].role # r /\ token'[t] = token[t]
  BY <1>2 DEF NoToken
<1>7. References'
  BY <1>4, <1>5, <1>6 DEF References, Present, DeleteRole
<1> QED
  BY <1>3, <1>7

LEMMA CreateTokenTypes ==
    ASSUME TypeOK, References, NEW t \in Token, NEW kind \in {"onboard", "rotate"},
           NEW r \in Role, NEW ttl \in 1..TokenTtl, CreateToken(t, kind, r, ttl)
    PROVE  TypeOK' /\ References'
<1> DEFINE row == [status |-> "live", kind |-> kind, role |-> r, left |-> ttl,
                   consumed |-> FALSE]
<1>1. row \in TokenRow
  BY ConstantsOK DEF TokenRow
<1>2. token' = [token EXCEPT ![t] = row]
  BY DEF CreateToken
<1>3. TypeOK'
  BY <1>1, <1>2 DEF TypeOK, CreateToken
<1>4. References'
  BY <1>2 DEF TypeOK, References, CreateToken, Present
<1> QED
  BY <1>3, <1>4

\* A link row that is written again keeps its role, or is gone.
LEMMA TokenWriteTypes ==
    ASSUME TypeOK, References, NEW t \in Token, NEW row \in TokenRow,
           row.status = "live" => token[t].status = "live" /\ row.role = token[t].role,
           token' = [token EXCEPT ![t] = row],
           UNCHANGED <<role, call, jwt, drawn, redeemed>>, cancelled' \subseteq Token
    PROVE  TypeOK' /\ References'
<1>1. TypeOK'
  BY DEF TypeOK
<1>2. References'
  BY DEF TypeOK, References, Present
<1> QED
  BY <1>1, <1>2

LEMMA ConsumeTypes ==
    ASSUME TypeOK, References, NEW t \in Token, RevokeToken(t) \/ ExchangeRefused(t)
    PROVE  TypeOK' /\ References'
<1>1. token[t] \in TokenRow
  BY DEF TypeOK
<1>2. token' = [token EXCEPT ![t] = [token[t] EXCEPT !.consumed = TRUE]]
  BY DEF RevokeToken, ExchangeRefused
<1>3. /\ [token[t] EXCEPT !.consumed = TRUE] \in TokenRow
      /\ [token[t] EXCEPT !.consumed = TRUE].status = token[t].status
      /\ [token[t] EXCEPT !.consumed = TRUE].role = token[t].role
  BY <1>1, ConsumedOK DEF TokenRow
<1>4. UNCHANGED <<role, call, jwt, drawn, redeemed>> /\ cancelled' \subseteq Token
  BY DEF RevokeToken, ExchangeRefused, TypeOK
<1> QED
  BY <1>2, <1>3, <1>4, TokenWriteTypes

LEMMA PurgeTypes ==
    ASSUME TypeOK, References, NEW t \in Token, PurgeToken(t)
    PROVE  TypeOK' /\ References'
<1>1. token' = [token EXCEPT ![t] = [NoToken EXCEPT !.status = "gone"]]
  BY DEF PurgeToken
<1>2. [NoToken EXCEPT !.status = "gone"].status = "gone"
  BY DEF NoToken
<1>3. UNCHANGED <<role, call, jwt, drawn, redeemed>> /\ cancelled' \subseteq Token
  BY DEF PurgeToken, TypeOK
<1> QED
  BY <1>1, <1>2, <1>3, RowsOK, TokenWriteTypes

\* Exchange: in one transaction the link is consumed and the role gets the
\* new secret_id; the foreign key has kept the role of a live link stored.
LEMMA ExchangeFinishTypes ==
    ASSUME TypeOK, References, NEW c \in Call, ExchangeFinish(c)
    PROVE  TypeOK' /\ References'
<1> DEFINE t == call[c].token
           r == call[c].role
<1>1. r \in Role /\ t \in Token /\ call[c].policy \in Policy
  BY DEF ExchangeFinish, References
<1>2. drawn + 1 \in SecretId
  BY ConstantsOK DEF TypeOK, ExchangeFinish, SecretId
<1>3. role[r] \in RoleRow /\ token[t] \in TokenRow
  BY <1>1 DEF TypeOK
<1>4. /\ role' = [role EXCEPT ![r] = [role[r] EXCEPT !.secret = drawn + 1]]
      /\ token' = [token EXCEPT ![t] = [token[t] EXCEPT !.consumed = TRUE]]
      /\ redeemed' = [redeemed EXCEPT ![t] = redeemed[t] + 1]
      /\ call' = [call EXCEPT ![c] = Idle]
      /\ drawn' = drawn + 1
  BY DEF ExchangeFinish
<1>5. /\ [role[r] EXCEPT !.secret = drawn + 1] \in RoleRow
      /\ [token[t] EXCEPT !.consumed = TRUE] \in TokenRow
  BY <1>2, <1>3, ConsumedOK DEF RoleRow
<1>6. jwt' \subseteq Jwt
  <2>1. Signed(r, call[c].policy, drawn + 1) \in Jwt
    BY <1>1, <1>2, SignedOK
  <2> QED
    BY <2>1 DEF ExchangeFinish, TypeOK
<1>7. redeemed' \in [Token -> Nat]
  BY <1>1, <1>4 DEF TypeOK
<1>8. TypeOK'
  <2>1. role' \in [Role -> RoleRow] /\ token' \in [Token -> TokenRow]
    BY <1>4, <1>5 DEF TypeOK
  <2>2. call' \in [Call -> CallState]
    BY <1>4, RowsOK DEF TypeOK
  <2>3. cancelled' = cancelled
    BY DEF ExchangeFinish
  <2> QED
    BY <1>2, <1>4, <1>6, <1>7, <2>1, <2>2, <2>3 DEF TypeOK
<1>9. \A q \in Role : /\ role'[q].status = role[q].status
                      /\ role'[q].policy = role[q].policy
  BY <1>1, <1>3, <1>4 DEF TypeOK, RoleRow
<1>10. \A u \in Token : /\ token'[u].status = token[u].status
                        /\ token'[u].role = token[u].role
  BY <1>1, <1>3, <1>4 DEF TypeOK, TokenRow
<1>11. \A d \in Call : call'[d] \in {call[d], Idle}
  BY <1>4 DEF TypeOK
<1>12. References'
  BY <1>9, <1>10, <1>11 DEF References, Present, Idle
<1> QED
  BY <1>8, <1>12

\* A handler that ends without writing a row.
LEMMA EndTypes ==
    ASSUME TypeOK, References, NEW c \in Call, call' = [call EXCEPT ![c] = Idle],
           UNCHANGED <<role, token, drawn, redeemed, cancelled>>, jwt' \subseteq Jwt
    PROVE  TypeOK' /\ References'
<1>1. TypeOK'
  BY RowsOK DEF TypeOK
<1>2. \A d \in Call : call'[d] \in {call[d], Idle}
  BY DEF TypeOK
<1>3. References'
  BY <1>2 DEF References, Present, Idle
<1> QED
  BY <1>1, <1>3

LEMMA LoginFinishTypes ==
    ASSUME TypeOK, References, NEW c \in Call, LoginFinish(c)
    PROVE  TypeOK' /\ References'
<1>1. call[c].role \in Role /\ call[c].policy \in Policy
  BY DEF LoginFinish, References
<1>2. call[c].secret \in SecretId
  BY DEF TypeOK, CallState
<1>3. jwt' \subseteq Jwt
  BY <1>1, <1>2, SignedOK DEF LoginFinish, TypeOK
<1> QED
  BY <1>3, EndTypes DEF LoginFinish

LEMMA RefreshTypes ==
    ASSUME TypeOK, References, NEW j \in jwt, Refresh(j)
    PROVE  TypeOK' /\ References'
<1>1. j.role \in Role /\ j.secret \in SecretId
  BY DEF TypeOK, Jwt
<1>2. role[j.role].policy \in Policy
  BY <1>1 DEF Refresh, References
<1>3. jwt' \subseteq Jwt
  BY <1>1, <1>2, SignedOK DEF Refresh, TypeOK
<1>4. UNCHANGED <<role, token, call, drawn, redeemed, cancelled>>
  BY DEF Refresh
<1> QED
  BY <1>3, <1>4 DEF TypeOK, References, Present

LEMMA TickTypes ==
    ASSUME TypeOK, References, Tick
    PROVE  TypeOK' /\ References'
<1>1. jwt' \subseteq Jwt
  <2> SUFFICES ASSUME NEW j \in jwt, j.left > 1 PROVE [j EXCEPT !.left = @ - 1] \in Jwt
    BY DEF Tick
  <2>1. j \in Jwt
    BY DEF TypeOK
  <2>2. j.left - 1 \in 1..JwtTtl
    BY <2>1, ConstantsOK DEF Jwt
  <2> QED
    BY <2>1, <2>2 DEF Jwt
<1>2. ASSUME NEW t \in Token
      PROVE  /\ token'[t] \in TokenRow
             /\ token'[t].status = token[t].status
             /\ token'[t].role = token[t].role
  <2>1. token[t] \in TokenRow
    BY DEF TypeOK
  <2>2. token'[t] = [token[t] EXCEPT !.left = IF @ = 0 THEN 0 ELSE @ - 1]
    BY DEF Tick
  <2>3. token'[t] \in TokenRow
    BY <2>1, <2>2, ConsumedOK
  <2>4. token'[t].status = token[t].status /\ token'[t].role = token[t].role
    BY <2>1, <2>2 DEF TokenRow
  <2> QED
    BY <2>3, <2>4
<1>3. token' \in [Token -> TokenRow]
  BY <1>2 DEF Tick
<1>4. UNCHANGED <<role, call, drawn, redeemed, cancelled>>
  BY DEF Tick
<1>5. TypeOK'
  BY <1>1, <1>3, <1>4 DEF TypeOK
<1>6. References'
  BY <1>2, <1>4 DEF References, Present
<1> QED
  BY <1>5, <1>6

LEMMA CrashTypes ==
    ASSUME TypeOK, References, Crash
    PROVE  TypeOK' /\ References'
BY RowsOK DEF TypeOK, References, Present, Crash, Idle

LEMMA TypeStep == TypeOK /\ References /\ [Next]_vars => TypeOK' /\ References'
<1> SUFFICES ASSUME TypeOK, References, [Next]_vars PROVE TypeOK' /\ References'
  OBVIOUS
<1>1. CASE Administration
  BY <1>1, CreateRoleTypes, UpdateStartTypes, SuspendTypes, DeleteRoleTypes
     DEF Administration
<1>2. CASE Links
  BY <1>2, CreateTokenTypes, ConsumeTypes, PurgeTypes, ExchangeStartTypes DEF Links
<1>3. CASE Sessions
  BY <1>3, LoginStartTypes, RefreshTypes DEF Sessions
<1>4. ASSUME NEW c \in Call, Resume(c) PROVE TypeOK' /\ References'
  <2>1. CASE ExchangeTooLate(c)
    BY <2>1, EndTypes DEF ExchangeTooLate, TypeOK
  <2> QED
    BY <1>4, <2>1, UpdateFinishTypes, ExchangeFinishTypes, LoginFinishTypes DEF Resume
<1>5. CASE Tick
  BY <1>5, TickTypes
<1>6. CASE Crash
  BY <1>6, CrashTypes
<1>7. CASE UNCHANGED vars
  BY <1>7 DEF vars, TypeOK, References, Present
<1> QED
  BY <1>1, <1>2, <1>3, <1>4, <1>5, <1>6, <1>7 DEF Next

-------------------------------------------------------------------------------
(* Single use.                                                             *)

\* Steps that leave every link's use as it was.
LEMMA SpentKept ==
    ASSUME SpentLinks, SingleUse, UNCHANGED <<redeemed, cancelled>>,
           \A t \in Token :
              /\ Spent(t) => Spent(t)'
              /\ token'[t].status = "absent" => ~token'[t].consumed
    PROVE  SpentLinks' /\ SingleUse'
BY DEF SpentLinks, SingleUse

LEMMA UseStep == IInv /\ [Next]_vars => SpentLinks' /\ SingleUse'
<1> SUFFICES ASSUME IInv, [Next]_vars PROVE SpentLinks' /\ SingleUse'
  OBVIOUS
<1> USE DEF IInv
<1>1. CASE UNCHANGED <<token, redeemed, cancelled>>
  BY <1>1 DEF SpentLinks, SingleUse, Spent
<1>2. ASSUME NEW r \in Role, DeleteRole(r) PROVE SpentLinks' /\ SingleUse'
  <2>1. \A t \in Token : token'[t] \in {token[t], [NoToken EXCEPT !.status = "gone"]}
    BY <1>2 DEF DeleteRole
  <2>2. \A t \in Token : /\ Spent(t) => Spent(t)'
                         /\ token'[t].status = "absent" => ~token'[t].consumed
    BY <2>1 DEF Spent, SpentLinks, NoToken
  <2> QED
    BY <1>2, <2>2, SpentKept DEF DeleteRole
<1>3. ASSUME NEW t \in Token, NEW kind \in {"onboard", "rotate"}, NEW r \in Role,
             NEW ttl \in 1..TokenTtl, CreateToken(t, kind, r, ttl)
      PROVE  SpentLinks' /\ SingleUse'
  <2>1. ~Spent(t)
    BY <1>3 DEF CreateToken, Spent, SpentLinks
  <2>2. \A u \in Token : /\ Spent(u) => Spent(u)'
                         /\ token'[u].status = "absent" => ~token'[u].consumed
    BY <1>3, <2>1 DEF CreateToken, Spent, SpentLinks, TypeOK
  <2> QED
    BY <1>3, <2>2, SpentKept DEF CreateToken
<1>4. ASSUME NEW t \in Token, RevokeToken(t) \/ ExchangeRefused(t)
      PROVE  SpentLinks' /\ SingleUse'
  <2>1. /\ token[t] \in TokenRow /\ token[t].status = "live" /\ ~Spent(t)
        /\ token' = [token EXCEPT ![t] = [token[t] EXCEPT !.consumed = TRUE]]
        /\ cancelled' = cancelled \cup {t} /\ redeemed' = redeemed
    BY <1>4 DEF RevokeToken, ExchangeRefused, Usable, Spent, TypeOK
  <2>2. /\ token'[t].consumed /\ token'[t].status = "live"
        /\ \A u \in Token \ {t} : token'[u] = token[u]
    BY <2>1 DEF TypeOK, TokenRow
  <2>3. redeemed[t] = 0
    BY <2>1 DEF SpentLinks
  <2>4. SingleUse'
    BY <2>1, <2>3 DEF SingleUse
  <2>5. SpentLinks'
    BY <2>1, <2>2 DEF SpentLinks, Spent
  <2> QED
    BY <2>4, <2>5
<1>5. ASSUME NEW t \in Token, PurgeToken(t) PROVE SpentLinks' /\ SingleUse'
  <2>1. \A u \in Token : token'[u] \in {token[u], [NoToken EXCEPT !.status = "gone"]}
    BY <1>5 DEF PurgeToken, TypeOK
  <2>2. \A u \in Token : /\ Spent(u) => Spent(u)'
                         /\ token'[u].status = "absent" => ~token'[u].consumed
    BY <2>1 DEF Spent, SpentLinks, NoToken
  <2> QED
    BY <1>5, <2>2, SpentKept DEF PurgeToken
<1>6. ASSUME NEW c \in Call, ExchangeFinish(c) PROVE SpentLinks' /\ SingleUse'
  <2> DEFINE t == call[c].token
  <2>1. t \in Token
    BY <1>6 DEF ExchangeFinish, References
  <2>2. /\ token[t] \in TokenRow /\ token[t].status = "live" /\ ~Spent(t)
        /\ token' = [token EXCEPT ![t] = [token[t] EXCEPT !.consumed = TRUE]]
        /\ redeemed' = [redeemed EXCEPT ![t] = redeemed[t] + 1]
        /\ cancelled' = cancelled
    BY <1>6, <2>1 DEF ExchangeFinish, Usable, Spent, TypeOK
  <2>3. /\ token'[t].consumed /\ token'[t].status = "live"
        /\ \A u \in Token \ {t} : token'[u] = token[u] /\ redeemed'[u] = redeemed[u]
    BY <2>1, <2>2 DEF TypeOK, TokenRow
  <2>4. redeemed[t] = 0 /\ t \notin cancelled
    BY <2>1, <2>2 DEF SpentLinks
  <2>5. redeemed'[t] = 1
    BY <2>1, <2>2, <2>4 DEF TypeOK
  <2>6. SingleUse'
    BY <2>2, <2>3, <2>4, <2>5 DEF SingleUse
  <2>7. SpentLinks'
    BY <2>2, <2>3, <2>4 DEF SpentLinks, Spent
  <2> QED
    BY <2>6, <2>7
<1>7. CASE Tick
  <2>1. \A t \in Token : /\ token'[t].status = token[t].status
                         /\ token'[t].consumed = token[t].consumed
    BY <1>7 DEF Tick, TypeOK, TokenRow
  <2>2. \A t \in Token : /\ Spent(t) => Spent(t)'
                         /\ token'[t].status = "absent" => ~token'[t].consumed
    BY <2>1 DEF Spent, SpentLinks
  <2> QED
    BY <1>7, <2>2, SpentKept DEF Tick
<1> QED
  BY <1>1, <1>2, <1>3, <1>4, <1>5, <1>6, <1>7
     DEF Next, Administration, Links, Sessions, Resume, CreateRole, UpdateStart, Suspend,
         ExchangeStart, LoginStart, Refresh, UpdateFinish, ExchangeTooLate, LoginFinish,
         Crash, vars

-------------------------------------------------------------------------------
LEMMA Inductive == Spec => []IInv
<1>1. IInv /\ [Next]_vars => IInv'
  BY TypeStep, UseStep DEF IInv
<1> QED
  BY <1>1, InitOK, PTL DEF Spec

\* Rows, handlers in progress and JWTs keep their shape: what a handler read
\* before its await is still fit to be written or signed after it.
THEOREM TypeCorrect == Spec => []TypeOK
<1>1. IInv => TypeOK
  BY DEF IInv
<1> QED
  BY <1>1, Inductive, PTL

\* However many exchanges of one link overlap, it gives out at most one
\* secret_id, and none once it was revoked or refused.
THEOREM LinksAreSingleUse == Spec => []SingleUse
<1>1. IInv => SingleUse
  BY DEF IInv
<1> QED
  BY <1>1, Inductive, PTL

-------------------------------------------------------------------------------
(* When a change of a role has taken hold.                                 *)

\* What requests, resumed handlers and a crash do: everything but time.
Handlers == Administration \/ Links \/ Sessions \/ (\E c \in Call : Resume(c)) \/ Crash

\* The history variable watches AppRoles and keeps no step from happening.
LEMMA HistoryWatches ==
    [LNext]_lvars => [Next]_vars /\ ((Handlers /\ Watched(0)) \/ LTick \/ UNCHANGED lvars)
<1>1. LAdministration => Administration /\ Watched(0)
  BY DEF LAdministration, Administration
<1>2. LLinks => Links /\ Watched(0)
  BY DEF LLinks, Links
<1>3. LSessions => Sessions /\ Watched(0)
  BY DEF LSessions, Sessions
<1>4. LResume => (\E c \in Call : Resume(c)) /\ Watched(0)
  BY DEF LResume, Resume
<1> QED
  BY <1>1, <1>2, <1>3, <1>4 DEF LNext, LTick, LCrash, Handlers, Next, lvars

\* What a link's exchange read, it read of a role that was not suspended.
ExchangesAllowed == \A c \in Call : call[c].kind = "exchange" => ~call[c].suspended

LInv ==
    /\ calm \in [Role -> 0..JwtTtl]
    /\ ExchangesAllowed
    /\ StandingTakesHold

LEMMA ExchangesAllowedStep ==
    ASSUME TypeOK, ExchangesAllowed, [Next]_vars
    PROVE  ExchangesAllowed'
<1>1. ASSUME NEW c \in Call, NEW s, call' = [call EXCEPT ![c] = s],
             s.kind = "exchange" => ~s.suspended
      PROVE  ExchangesAllowed'
  BY <1>1 DEF TypeOK, ExchangesAllowed
<1>2. ~Idle.suspended /\ Idle.kind = "idle"
  BY DEF Idle
<1>3. CASE call' = call
  BY <1>3 DEF ExchangesAllowed
<1>4. ASSUME NEW c \in Call, NEW r \in Role, UpdateStart(c, r) PROVE ExchangesAllowed'
  <2> DEFINE s == [Idle EXCEPT !.kind = "update", !.role = r, !.policy = role[r].policy]
  <2>1. call' = [call EXCEPT ![c] = s] /\ s.kind = "update"
    BY <1>4 DEF UpdateStart, Idle
  <2> HIDE DEF s
  <2> QED
    BY <1>1, <2>1
<1>5. ASSUME NEW c \in Call, NEW r \in Role, LoginStart(c, r) PROVE ExchangesAllowed'
  <2> DEFINE s == [Idle EXCEPT !.kind = "login", !.role = r, !.policy = role[r].policy,
                               !.secret = role[r].secret, !.suspended = role[r].suspended]
  <2>1. call' = [call EXCEPT ![c] = s] /\ s.kind = "login"
    BY <1>5 DEF LoginStart, Idle
  <2> HIDE DEF s
  <2> QED
    BY <1>1, <2>1
<1>6. ASSUME NEW c \in Call, NEW t \in Token, ExchangeStart(c, t) PROVE ExchangesAllowed'
  <2> DEFINE s == [Idle EXCEPT !.kind = "exchange", !.token = t, !.role = token[t].role,
                               !.policy = role[token[t].role].policy]
  <2>1. call' = [call EXCEPT ![c] = s] /\ ~s.suspended
    BY <1>6 DEF ExchangeStart, Idle
  <2> HIDE DEF s
  <2> QED
    BY <1>1, <2>1
<1>7. ASSUME NEW c \in Call, Resume(c) PROVE ExchangesAllowed'
  <2>1. call' = [call EXCEPT ![c] = Idle]
    BY <1>7 DEF Resume, UpdateFinish, ExchangeFinish, ExchangeTooLate, LoginFinish
  <2> QED
    BY <1>1, <1>2, <2>1
<1>8. CASE Crash
  BY <1>2, <1>8 DEF Crash, ExchangesAllowed
<1>9. CASE Administration
  BY <1>3, <1>4, <1>9 DEF Administration, CreateRole, Suspend, DeleteRole
<1>10. CASE Links
  BY <1>3, <1>6, <1>10 DEF Links, CreateToken, RevokeToken, PurgeToken, ExchangeRefused
<1>11. CASE Sessions
  BY <1>3, <1>5, <1>11 DEF Sessions, Refresh
<1> QED
  BY <1>3, <1>7, <1>8, <1>9, <1>10, <1>11 DEF Next, Tick, vars

\* What a handler signs is in force when it signs it, or the handler is one
\* that read the role before its standing changed.
LEMMA HandlersSign ==
    ASSUME TypeOK, References, ExchangesAllowed, Handlers, NEW j \in jwt'
    PROVE  j \in jwt \/ InForce(j) \/ Outdated(j.role)
<1>1. ASSUME NEW c \in Call, call[c].kind \in {"login", "exchange"}, ~call[c].suspended,
             NEW secret, j = Signed(call[c].role, call[c].policy, secret)
      PROVE  InForce(j) \/ Outdated(j.role)
  <2>1. j.role = call[c].role /\ j.policy = call[c].policy
    BY <1>1 DEF Signed
  <2>2. c \in Reading(j.role) /\ call[c].suspended = FALSE
    BY <1>1, <2>1 DEF Reading, TypeOK, CallState
  <2>3. CASE Current(c, j.role)
    BY <2>1, <2>2, <2>3 DEF Current, InForce
  <2> QED
    BY <2>2, <2>3 DEF Outdated
<1>2. ASSUME NEW k \in jwt, Refresh(k) PROVE j \in jwt \/ InForce(j)
  <2>1. CASE j = Signed(k.role, role[k.role].policy, k.secret)
    <3>1. j.role = k.role /\ j.policy = role[k.role].policy
      BY <2>1 DEF Signed
    <3>2. k.role \in Role
      BY DEF TypeOK, Jwt
    <3>3. Present(k.role) = TRUE /\ role[k.role].suspended = FALSE
      BY <1>2, <3>2 DEF Refresh, Present, TypeOK, RoleRow
    <3> QED
      BY <3>1, <3>3 DEF InForce, Standing
  <2> QED
    BY <1>2, <2>1 DEF Refresh
<1>3. ASSUME NEW c \in Call, Resume(c) PROVE j \in jwt \/ InForce(j) \/ Outdated(j.role)
  <2>1. CASE LoginFinish(c)
    BY <1>1, <2>1 DEF LoginFinish
  <2>2. CASE ExchangeFinish(c)
    BY <1>1, <2>2 DEF ExchangeFinish, ExchangesAllowed
  <2> QED
    BY <1>3, <2>1, <2>2 DEF Resume, UpdateFinish, ExchangeTooLate
<1>4. Administration \/ Links \/ Crash => jwt' = jwt
  BY DEF Administration, CreateRole, UpdateStart, Suspend, DeleteRole, Links, CreateToken,
         RevokeToken, PurgeToken, ExchangeRefused, ExchangeStart, Crash
<1>5. ASSUME NEW c \in Call, NEW r \in Role, LoginStart(c, r) PROVE jwt' = jwt
  BY <1>5 DEF LoginStart
<1> QED
  BY <1>2, <1>3, <1>4, <1>5 DEF Handlers, Sessions

\* The count starts again with the standing and while it is being overtaken.
LEMMA CalmCounts ==
    ASSUME calm \in [Role -> 0..JwtTtl], NEW ticks \in {0, 1}, NEW r \in Role,
           calm' = [q \in Role |-> CalmAfter(q, ticks)]
    PROVE  /\ calm'[r] \in 0..JwtTtl
           /\ Outdated(r) \/ Standing(r)' # Standing(r) => calm'[r] = 0
           /\ calm'[r] <= calm[r] + ticks
<1>1. calm[r] \in 0..JwtTtl /\ JwtTtl \in Nat
  BY ConstantsOK
<1>2. calm'[r] = CalmAfter(r, ticks)
  OBVIOUS
<1>3. CASE Outdated(r) \/ Standing(r)' # Standing(r)
  BY <1>1, <1>2, <1>3 DEF CalmAfter
<1>4. CASE ~(Outdated(r) \/ Standing(r)' # Standing(r))
  <2>1. calm'[r] = IF calm[r] + ticks > JwtTtl THEN JwtTtl ELSE calm[r] + ticks
    BY <1>2, <1>4 DEF CalmAfter
  <2> QED
    BY <1>1, <1>4, <2>1
<1> QED
  BY <1>3, <1>4

LEMMA StandingStep ==
    ASSUME TypeOK, References, TypeOK', LInv, [LNext]_lvars
    PROVE  LInv'
<1> USE DEF LInv
<1>0. [Next]_vars
  BY HistoryWatches
<1>1. ExchangesAllowed'
  BY <1>0, ExchangesAllowedStep
<1>2. calm' \in [Role -> 0..JwtTtl]
  <2>1. ASSUME NEW ticks \in {0, 1}, calm' = [q \in Role |-> CalmAfter(q, ticks)]
        PROVE  calm' \in [Role -> 0..JwtTtl]
    BY <2>1, CalmCounts
  <2>2. calm' = calm \/ \E ticks \in {0, 1} : calm' = [q \in Role |-> CalmAfter(q, ticks)]
    BY HistoryWatches DEF Watched, LTick, lvars
  <2> QED
    BY <2>1, <2>2
<1>3. ASSUME NEW j \in jwt' PROVE InForce(j)' \/ j.left + calm'[j.role] <= JwtTtl
  <2>0. /\ j \in Jwt /\ j.role \in Role /\ j.left \in 1..JwtTtl /\ JwtTtl \in Nat
        /\ calm[j.role] \in 0..JwtTtl /\ calm'[j.role] \in 0..JwtTtl
    BY <1>2, ConstantsOK DEF TypeOK, Jwt
  <2>1. calm'[j.role] = 0 => j.left + calm'[j.role] <= JwtTtl
    BY <2>0
  <2>2. ASSUME Handlers, Watched(0)
        PROVE  InForce(j)' \/ j.left + calm'[j.role] <= JwtTtl
    <3>1. CASE Outdated(j.role) \/ Standing(j.role)' # Standing(j.role)
      BY <2>0, <2>1, <2>2, <3>1, CalmCounts DEF Watched
    <3>2. CASE ~Outdated(j.role) /\ Standing(j.role)' = Standing(j.role)
      <4>1. InForce(j)' <=> InForce(j)
        BY <3>2 DEF InForce
      <4>2. CASE j \in jwt
        <5>1. InForce(j) \/ j.left + calm[j.role] <= JwtTtl
          BY <4>2 DEF StandingTakesHold
        <5>2. calm'[j.role] <= calm[j.role]
          BY <2>0, <2>2, CalmCounts DEF Watched
        <5> QED
          BY <2>0, <4>1, <5>1, <5>2
      <4> QED
        BY <2>2, <3>2, <4>1, <4>2, HandlersSign
    <3> QED
      BY <3>1, <3>2
  <2>3. CASE LTick
    <3>1. PICK k \in jwt : k.left > 1 /\ j = [k EXCEPT !.left = @ - 1]
      BY <2>3 DEF LTick, Tick
    <3>2. k \in Jwt
      BY DEF TypeOK
    <3>3. j.role = k.role /\ j.policy = k.policy /\ j.left = k.left - 1 /\ k.left \in Nat
      BY <3>1, <3>2 DEF Jwt
    <3>4. InForce(k) \/ k.left + calm[k.role] <= JwtTtl
      BY DEF StandingTakesHold
    <3>5. InForce(j)' <=> InForce(k)
      BY <2>3, <3>3 DEF LTick, Tick, InForce, Standing, Present
    <3>6. calm'[j.role] <= calm[j.role] + 1
      BY <2>0, <2>3, CalmCounts DEF LTick, Watched
    <3> QED
      BY <2>0, <3>3, <3>4, <3>5, <3>6
  <2>4. CASE UNCHANGED lvars
    BY <2>4 DEF lvars, vars, StandingTakesHold, InForce, Standing, Present
  <2> QED
    BY <2>2, <2>3, <2>4, HistoryWatches
<1> QED
  BY <1>1, <1>2, <1>3 DEF StandingTakesHold

\* A suspension, a deletion or a change of policies has taken hold JwtTtl after
\* it was made and the handlers that had read the role before it are over.
THEOREM StandingPrevails == LSpec => []StandingTakesHold
<1>1. LInit => IInv /\ LInv
  BY InitOK, ConstantsOK
  DEF LInit, LInv, Init, ExchangesAllowed, StandingTakesHold, Idle
<1>2. IInv /\ LInv /\ [LNext]_lvars => IInv' /\ LInv'
  BY HistoryWatches, TypeStep, UseStep, StandingStep DEF IInv
<1>3. LInv => StandingTakesHold
  BY DEF LInv
<1> QED
  BY <1>1, <1>2, <1>3, PTL DEF LSpec
=============================================================================
