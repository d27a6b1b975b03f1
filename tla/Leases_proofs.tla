----------------------------- MODULE Leases_proofs -----------------------------
(***************************************************************************)
(* Proofs about Leases, for every set of identities, paths and lease ids   *)
(* and every ttl.                                                          *)
(***************************************************************************)
EXTENDS Leases, TLAPS

\* The rows the inserts write are rows of the table.
LEMMA RowsOK ==
    ASSUME NEW i \in Identity, NEW p \in Path, NEW ttl \in Nat, NEW requestTtl \in Nat,
           NEW by \in {None, "admin", "system"}, now \in Nat
    PROVE  /\ ApprovedRow(i, p, ttl, by) \in LeaseRow
           /\ PendingRow(i, p, ttl, requestTtl) \in LeaseRow
BY DEF ApprovedRow, PendingRow, LeaseRow

LEMMA NoRowOK == NoRow("absent") \in LeaseRow /\ NoRow("deleted") \in LeaseRow
BY DEF NoRow, LeaseRow

\* So are the rows the updates leave.
LEMMA UpdatesOK ==
    ASSUME NEW row \in LeaseRow, NEW deadline \in Nat, NEW ttl \in Nat
    PROVE  /\ [row EXCEPT !.status = "approved", !.approvedBy = "admin",
                          !.expiresAt = deadline] \in LeaseRow
           /\ [row EXCEPT !.status = "denied", !.approvedBy = "admin"] \in LeaseRow
           /\ [row EXCEPT !.revoked = TRUE] \in LeaseRow
           /\ [row EXCEPT !.expiresAt = deadline, !.ttl = ttl] \in LeaseRow
           /\ Reaped(row) \in LeaseRow
<1>1. [row EXCEPT !.status = "approved", !.approvedBy = "admin",
                  !.expiresAt = deadline] \in LeaseRow
  BY DEF LeaseRow
<1>2. [row EXCEPT !.status = "denied", !.approvedBy = "admin"] \in LeaseRow
  BY DEF LeaseRow
<1>3. [row EXCEPT !.revoked = TRUE] \in LeaseRow
  BY DEF LeaseRow
<1>4. [row EXCEPT !.expiresAt = deadline, !.ttl = ttl] \in LeaseRow
  BY DEF LeaseRow
<1>5. Reaped(row) \in LeaseRow
  BY DEF LeaseRow, Reaped
<1> QED
  BY <1>1, <1>2, <1>3, <1>4, <1>5

LEMMA TypeInit == Init => TypeOK
BY ConstantsOK, NoRowOK DEF Init, TypeOK, Handed, Nothing

\* The inserts of an mcp-stdio process, with the arguments of the call it made.
RequestStored(t, l, ttl, requestTtl) ==
    \E i \in Identity, p \in Path :
        /\ side[t] = [op |-> "request", identity |-> i, path |-> p]
        /\ lease' = [lease EXCEPT ![l] = PendingRow(i, p, ttl, requestTtl)]
        /\ secret[p] # "none"

CheckoutStored(t, l, ttl) ==
    \E i \in Identity, p \in Path :
        /\ side[t] = [op |-> "checkout", identity |-> i, path |-> p]
        /\ lease' = [lease EXCEPT ![l] = ApprovedRow(i, p, ttl, None)]
        /\ secret[p] # "none"

LEMMA StdioRequestInserts ==
    ASSUME TypeOK, NEW t \in Stdio, NEW l \in LeaseId, NEW ttl \in Ttl,
           NEW requestTtl \in RequestTtl, StdioRequest(t, l, ttl, requestTtl)
    PROVE  RequestStored(t, l, ttl, requestTtl)
<1>1. side[t] \in Call /\ side[t].op = "request"
  BY DEF TypeOK, StdioRequest
<1>2. /\ side[t].identity \in Identity /\ side[t].path \in Path
      /\ side[t] = [op |-> "request", identity |-> side[t].identity, path |-> side[t].path]
  BY <1>1 DEF Call
<1> QED
  BY <1>2 DEF StdioRequest, RequestStored

LEMMA StdioCheckoutInserts ==
    ASSUME TypeOK, NEW t \in Stdio, NEW l \in LeaseId, NEW ttl \in Ttl,
           StdioCheckout(t, l, ttl)
    PROVE  CheckoutStored(t, l, ttl)
<1>1. side[t] \in Call /\ side[t].op = "checkout"
  BY DEF TypeOK, StdioCheckout
<1>2. /\ side[t].identity \in Identity /\ side[t].path \in Path
      /\ side[t] = [op |-> "checkout", identity |-> side[t].identity, path |-> side[t].path]
  BY <1>1 DEF Call
<1> QED
  BY <1>2 DEF StdioCheckout, CheckoutStored

\* One case per action: the columns an action writes stay in their domains.
LEMMA TypeStep == TypeOK /\ [Next]_vars => TypeOK'
<1> SUFFICES ASSUME TypeOK, [Next]_vars PROVE TypeOK'
  OBVIOUS
<1> USE ConstantsOK DEF Handed, Nothing, HandOut, stdio
<1>0. now \in Nat /\ AutoTtl \in Nat
  BY DEF TypeOK
<1>1. ASSUME NEW p \in Path, NEW mode \in Mode, WriteSecret(p, mode) PROVE TypeOK'
  BY <1>1 DEF TypeOK, WriteSecret
<1>2. ASSUME NEW p \in Path, DeleteSecret(p) PROVE TypeOK'
  BY <1>2, NoRowOK DEF TypeOK, DeleteSecret
<1>3. ASSUME NEW i \in Identity, NEW p \in Path, NEW l \in LeaseId, NEW ttl \in Ttl,
             NEW requestTtl \in RequestTtl, RequestAccess(i, p, l, ttl, requestTtl)
      PROVE  TypeOK'
  <2>1. PendingRow(i, p, ttl, requestTtl) \in LeaseRow
    BY <1>0, RowsOK
  <2> QED
    BY <1>3, <2>1 DEF TypeOK, RequestAccess
<1>4. ASSUME NEW i \in Identity, DeletePendingForIdentity(i) PROVE TypeOK'
  BY <1>4, NoRowOK DEF TypeOK, DeletePendingForIdentity
<1>5. ASSUME NEW l \in LeaseId, Approve(l) PROVE TypeOK'
  <2>1. lease[l] \in LeaseRow /\ lease[l].ttl \in Nat
    BY DEF TypeOK, LeaseRow
  <2>2. lease' = [lease EXCEPT ![l] =
            [lease[l] EXCEPT !.status = "approved", !.approvedBy = "admin",
                             !.expiresAt = now + lease[l].ttl]]
    BY <1>5 DEF Approve
  <2>3. now + lease[l].ttl \in Nat
    BY <1>0, <2>1
  <2>4. [lease[l] EXCEPT !.status = "approved", !.approvedBy = "admin",
                         !.expiresAt = now + lease[l].ttl] \in LeaseRow
    BY <2>1, <2>3, UpdatesOK
  <2>5. lease' \in [LeaseId -> LeaseRow]
    BY <2>2, <2>4 DEF TypeOK
  <2> QED
    BY <1>5, <2>5 DEF TypeOK, Approve
<1>6. ASSUME NEW l \in LeaseId, Deny(l) PROVE TypeOK'
  <2>1. lease' = [lease EXCEPT ![l] =
            [lease[l] EXCEPT !.status = "denied", !.approvedBy = "admin"]]
    BY <1>6 DEF Deny
  <2>2. lease' \in [LeaseId -> LeaseRow]
    BY <2>1, UpdatesOK DEF TypeOK
  <2> QED
    BY <1>6, <2>2 DEF TypeOK, Deny
<1>7. ASSUME NEW l \in LeaseId, Revoke(l) PROVE TypeOK'
  <2>1. lease' = [lease EXCEPT ![l] = [lease[l] EXCEPT !.revoked = TRUE]]
    BY <1>7 DEF Revoke
  <2>2. lease' \in [LeaseId -> LeaseRow]
    BY <2>1, UpdatesOK DEF TypeOK
  <2> QED
    BY <1>7, <2>2 DEF TypeOK, Revoke
<1>8. ASSUME NEW l \in LeaseId, NEW ttl \in Ttl, Renew(l, ttl) PROVE TypeOK'
  <2>1. lease' = [lease EXCEPT ![l] =
            [lease[l] EXCEPT !.expiresAt = now + ttl, !.ttl = ttl]]
    BY <1>8 DEF Renew
  <2>2. now + ttl \in Nat /\ ttl \in Nat /\ lease[l] \in LeaseRow
    BY <1>0 DEF TypeOK
  <2>3. [lease[l] EXCEPT !.expiresAt = now + ttl, !.ttl = ttl] \in LeaseRow
    BY <2>2, UpdatesOK
  <2>4. lease' \in [LeaseId -> LeaseRow]
    BY <2>1, <2>3 DEF TypeOK
  <2> QED
    BY <1>8, <2>4 DEF TypeOK, Renew
<1>9. ASSUME NEW i \in Identity, NEW p \in Path, CheckoutGated(i, p) PROVE TypeOK'
  BY <1>9 DEF TypeOK, CheckoutGated, FindActiveApprovedLease, ActiveFor
<1>10. ASSUME NEW i \in Identity, NEW p \in Path, NEW l \in LeaseId, CheckoutAuto(i, p, l)
       PROVE  TypeOK'
  <2>1. ApprovedRow(i, p, AutoTtl, "system") \in LeaseRow
    BY <1>0, RowsOK
  <2> QED
    BY <1>10, <2>1 DEF TypeOK, CheckoutAuto
<1>11. ASSUME NEW i \in Identity, NEW p \in Path, NEW l \in LeaseId, NEW ttl \in Ttl,
              CheckoutOpen(i, p, l, ttl)
       PROVE  TypeOK'
  <2>1. ApprovedRow(i, p, ttl, None) \in LeaseRow
    BY <1>0, RowsOK
  <2> QED
    BY <1>11, <2>1 DEF TypeOK, CheckoutOpen
<1>12. ASSUME NEW i \in Identity, NEW paths \in SUBSET Path, NEW allowlisted \in BOOLEAN,
              ProxyGate(i, paths, allowlisted)
       PROVE  TypeOK'
  <2> DEFINE gated == GatedOf(paths)
             missing == {p \in gated : ActiveFor(i, p) = {}}
             auto == {p \in missing : allowlisted /\ secret[p] = "auto"}
  <2>1. PICK mint \in [auto -> {l \in LeaseId : Fresh(l)}] :
            /\ lease' = [l \in LeaseId |->
                    IF \E p \in auto : mint[p] = l
                    THEN ApprovedRow(i, CHOOSE p \in auto : mint[p] = l, AutoTtl, "system")
                    ELSE lease[l]]
            /\ \/ handed' = Nothing
               \/ \E pick \in [gated -> LeaseId] :
                     HandOut("gate", i, gated, {pick[p] : p \in gated})
    BY <1>12 DEF ProxyGate
  <2>2. ASSUME NEW l \in LeaseId, \E p \in auto : mint[p] = l
        PROVE  ApprovedRow(i, CHOOSE p \in auto : mint[p] = l, AutoTtl, "system") \in LeaseRow
    <3>1. (CHOOSE p \in auto : mint[p] = l) \in Path
      BY <2>2 DEF GatedOf
    <3> QED
      BY <1>0, <3>1, RowsOK
  <2>3. lease' \in [LeaseId -> LeaseRow]
    BY <2>1, <2>2 DEF TypeOK
  <2>4. handed' \in Handed
    <3>1. CASE handed' = Nothing
      BY <3>1
    <3>2. CASE handed' # Nothing
      <4>1. PICK pick \in [gated -> LeaseId] :
               handed' = [by |-> "gate", to |-> i, paths |-> gated,
                          windows |-> {pick[p] : p \in gated}]
        BY <2>1, <3>2
      <4>2. {pick[p] : p \in gated} \subseteq LeaseId /\ gated \subseteq Path
        BY DEF GatedOf
      <4> QED
        BY <4>1, <4>2
    <3> QED
      BY <3>1, <3>2
  <2>5. UNCHANGED <<now, secret, mcp, stdio, everOpen>>
    BY <1>12 DEF ProxyGate
  <2> QED
    BY <2>3, <2>4, <2>5 DEF TypeOK
<1>13. ASSUME NEW i \in Identity, NEW p \in Path, McpLeaseAwait(i, p) PROVE TypeOK'
  BY <1>13 DEF TypeOK, McpLeaseAwait
<1>14. ASSUME NEW i \in Identity, NEW p \in Path, McpLeaseFail(i, p) PROVE TypeOK'
  BY <1>14 DEF TypeOK, McpLeaseFail
<1>15. ASSUME NEW i \in Identity, NEW p \in Path, NEW l \in LeaseId, McpLeaseMint(i, p, l)
       PROVE  TypeOK'
  <2>1. ApprovedRow(i, p, AutoTtl, "system") \in LeaseRow
    BY <1>0, RowsOK
  <2>2. handed' \in Handed
    <3>1. PICK m \in LeaseId : HandOut("gate", i, {p}, {m})
      BY <1>15 DEF McpLeaseMint
    <3> QED
      BY <3>1
  <2> QED
    BY <1>15, <2>1, <2>2 DEF TypeOK, McpLeaseMint
<1>16. ASSUME NEW i \in Identity, NEW p \in Path, NEW l \in LeaseId, NEW m \in LeaseId,
              NEW ttl \in Ttl, McpLeaseMintOpen(i, p, l, m, ttl)
       PROVE  TypeOK'
  <2>1. /\ ApprovedRow(i, p, AutoTtl, "system") \in LeaseRow
        /\ ApprovedRow(i, p, ttl, None) \in LeaseRow
    BY <1>0, RowsOK
  <2> QED
    <3>1. [lease EXCEPT ![l] = ApprovedRow(i, p, AutoTtl, "system")] \in [LeaseId -> LeaseRow]
      BY <2>1 DEF TypeOK
    <3>2. lease' = [[lease EXCEPT ![l] = ApprovedRow(i, p, AutoTtl, "system")]
                       EXCEPT ![m] = ApprovedRow(i, p, ttl, None)]
      BY <1>16, Zenon DEF McpLeaseMintOpen
    <3>3. lease' \in [LeaseId -> LeaseRow]
      BY <2>1, <3>1, <3>2
    <3> QED
      BY <1>16, <3>3 DEF TypeOK, McpLeaseMintOpen
<1>17. ASSUME ReapExpired PROVE TypeOK'
  <2>1. ASSUME NEW row \in LeaseRow PROVE Reaped(row) \in LeaseRow
    <3>1. (IF row.status = "pending" THEN "expired" ELSE row.status)
              \in {"absent", "pending", "approved", "denied", "expired", "deleted"}
      BY DEF LeaseRow
    <3> QED
      BY <3>1 DEF Reaped, LeaseRow
  <2>2. \A l \in LeaseId : lease[l] \in LeaseRow
    BY DEF TypeOK
  <2>3. lease' \in [LeaseId -> LeaseRow]
    BY <1>17, <2>1, <2>2 DEF ReapExpired
  <2> QED
    BY <1>17, <2>3 DEF TypeOK, ReapExpired
<1>18. ASSUME Tick PROVE TypeOK'
  BY <1>18 DEF TypeOK, Tick
<1>19. CASE UNCHANGED vars
  BY <1>19 DEF TypeOK, vars
<1>20. ASSUME NEW i \in Identity, NEW p \in Path, ReadValue(i, p)
       PROVE  TypeOK'
  BY <1>20 DEF TypeOK, ReadValue
<1>21. ASSUME NEW t \in Stdio, NEW i \in Identity, NEW p \in Path, StdioLook(t, i, p)
       PROVE  TypeOK'
  BY <1>21 DEF TypeOK, StdioLook, Call
<1>22. ASSUME NEW t \in Stdio, NEW l \in LeaseId, NEW ttl \in Ttl,
              NEW requestTtl \in RequestTtl, StdioRequest(t, l, ttl, requestTtl)
       PROVE  TypeOK'
  <2>0. RequestStored(t, l, ttl, requestTtl)
    BY <1>22, StdioRequestInserts
  <2>1. PICK i \in Identity, p \in Path :
           /\ side[t] = [op |-> "request", identity |-> i, path |-> p]
           /\ lease' = [lease EXCEPT ![l] = PendingRow(i, p, ttl, requestTtl)]
           /\ secret[p] # "none"
    BY <2>0 DEF RequestStored
  <2>2. PendingRow(i, p, ttl, requestTtl) \in LeaseRow
    BY <1>0, RowsOK
  <2> QED
    BY <1>22, <2>1, <2>2 DEF TypeOK, StdioRequest
<1>23. ASSUME NEW t \in Stdio, StdioDrop(t)
       PROVE  TypeOK'
  BY <1>23 DEF TypeOK, StdioDrop
<1>24. ASSUME NEW t \in Stdio, NEW i \in Identity, NEW p \in Path, StdioCheckoutLook(t, i, p)
       PROVE  TypeOK'
  BY <1>24 DEF TypeOK, StdioCheckoutLook, Call
<1>25. ASSUME NEW t \in Stdio, NEW l \in LeaseId, NEW ttl \in Ttl, StdioCheckout(t, l, ttl)
       PROVE  TypeOK'
  <2>0. CheckoutStored(t, l, ttl)
    BY <1>25, StdioCheckoutInserts
  <2>1. PICK i \in Identity, p \in Path :
           /\ side[t] = [op |-> "checkout", identity |-> i, path |-> p]
           /\ lease' = [lease EXCEPT ![l] = ApprovedRow(i, p, ttl, None)]
           /\ secret[p] # "none"
    BY <2>0 DEF CheckoutStored
  <2>2. ApprovedRow(i, p, ttl, None) \in LeaseRow
    BY <1>0, RowsOK
  <2> QED
    BY <1>25, <2>1, <2>2 DEF TypeOK, StdioCheckout
<1>26. ASSUME NEW i \in Identity, NEW paths \in SUBSET Path, StdioProxy(i, paths)
       PROVE  TypeOK'
  <2>1. GatedOf(paths) \subseteq Path
    BY DEF GatedOf
  <2> QED
    BY <1>26, <2>1 DEF TypeOK, StdioProxy
<1> QED
  BY <1>1, <1>2, <1>3, <1>4, <1>5, <1>6, <1>7, <1>8, <1>9, <1>10, <1>11, <1>12, <1>13,
     <1>14, <1>15, <1>16, <1>17, <1>18, <1>19, <1>20, <1>21, <1>22, <1>23, <1>24, <1>25, <1>26
  DEF Next, Secrets, Requests, Decisions, Checkouts, McpLeases, Reads, StdioSteps

\* The leases table, the metadata and the calls in progress always have the
\* shape the code gives them, whatever the handlers do and in any order.
THEOREM TypeCorrect == Spec => []TypeOK
<1>1. Init => TypeOK
  BY TypeInit
<1>2. TypeOK /\ [Next]_vars => TypeOK'
  BY TypeStep
<1> QED
  BY <1>1, <1>2, PTL DEF Spec
-------------------------------------------------------------------------------
\* What the proxy's gate does to a row: it is left alone, or it is a fresh one
\* that becomes a window on a gated path.
LEMMA ProxyGateRows ==
    ASSUME NEW i \in Identity, NEW paths \in SUBSET Path, NEW allowlisted \in BOOLEAN,
           ProxyGate(i, paths, allowlisted), NEW l \in LeaseId
    PROVE  \/ lease'[l] = lease[l]
           \/ /\ Fresh(l)
              /\ \E p \in Path : /\ secret[p] = "auto"
                                /\ lease'[l] = ApprovedRow(i, p, AutoTtl, "system")
<1> DEFINE gated == GatedOf(paths)
           missing == {p \in gated : ActiveFor(i, p) = {}}
           auto == {p \in missing : allowlisted /\ secret[p] = "auto"}
<1>1. PICK mint \in [auto -> {m \in LeaseId : Fresh(m)}] :
          lease' = [m \in LeaseId |->
                    IF \E p \in auto : mint[p] = m
                    THEN ApprovedRow(i, CHOOSE p \in auto : mint[p] = m, AutoTtl, "system")
                    ELSE lease[m]]
  BY DEF ProxyGate
<1>2. CASE \E p \in auto : mint[p] = l
  <2> DEFINE q == CHOOSE p \in auto : mint[p] = l
  <2>1. q \in auto /\ mint[q] = l
    BY <1>2
  <2>2. Fresh(l) /\ q \in Path /\ secret[q] = "auto"
    BY <2>1 DEF GatedOf
  <2>3. lease'[l] = ApprovedRow(i, q, AutoTtl, "system")
    BY <1>1, <1>2
  <2> QED
    BY <2>2, <2>3
<1>3. CASE ~\E p \in auto : mint[p] = l
  BY <1>1, <1>3
<1> QED
  BY <1>2, <1>3

LEMMA OrphanInit == Init => NoOrphanLease
BY DEF Init, NoOrphanLease, Stored, NoRow

LEMMA OrphanStep == TypeOK /\ NoOrphanLease /\ [Next]_vars => NoOrphanLease'
<1> SUFFICES ASSUME TypeOK, NoOrphanLease, [Next]_vars PROVE NoOrphanLease'
  OBVIOUS
<1>1. ASSUME NEW p \in Path, NEW mode \in Mode, WriteSecret(p, mode)
      PROVE  NoOrphanLease'
  BY <1>1 DEF TypeOK, NoOrphanLease, Stored, WriteSecret, Mode
<1>2. ASSUME NEW p \in Path, DeleteSecret(p) PROVE NoOrphanLease'
  BY <1>2 DEF TypeOK, NoOrphanLease, Stored, DeleteSecret, NoRow
<1>3. ASSUME NEW i \in Identity, NEW p \in Path, NEW l \in LeaseId, NEW ttl \in Ttl,
             NEW requestTtl \in RequestTtl, RequestAccess(i, p, l, ttl, requestTtl)
      PROVE  NoOrphanLease'
  BY <1>3 DEF TypeOK, NoOrphanLease, Stored, RequestAccess, PendingRow
<1>4. ASSUME NEW i \in Identity, DeletePendingForIdentity(i)
      PROVE  NoOrphanLease'
  BY <1>4 DEF TypeOK, NoOrphanLease, Stored, DeletePendingForIdentity, NoRow
<1>5. ASSUME NEW l \in LeaseId, Approve(l) PROVE NoOrphanLease'
  BY <1>5 DEF TypeOK, NoOrphanLease, Stored, Approve, Pending
<1>6. ASSUME NEW l \in LeaseId, Deny(l) PROVE NoOrphanLease'
  BY <1>6 DEF TypeOK, NoOrphanLease, Stored, Deny, Pending
<1>7. ASSUME NEW l \in LeaseId, Revoke(l) PROVE NoOrphanLease'
  BY <1>7 DEF TypeOK, NoOrphanLease, Stored, Revoke
<1>8. ASSUME NEW l \in LeaseId, NEW ttl \in Ttl, Renew(l, ttl)
      PROVE  NoOrphanLease'
  BY <1>8 DEF TypeOK, NoOrphanLease, Stored, Renew, Active
<1>9. ASSUME NEW i \in Identity, NEW p \in Path, CheckoutGated(i, p)
      PROVE  NoOrphanLease'
  BY <1>9 DEF NoOrphanLease, Stored, CheckoutGated
<1>10. ASSUME NEW i \in Identity, NEW p \in Path, NEW l \in LeaseId,
             CheckoutAuto(i, p, l)
      PROVE  NoOrphanLease'
  BY <1>10 DEF TypeOK, NoOrphanLease, Stored, CheckoutAuto, ApprovedRow
<1>11. ASSUME NEW i \in Identity, NEW p \in Path, NEW l \in LeaseId, NEW ttl \in Ttl,
             CheckoutOpen(i, p, l, ttl)
      PROVE  NoOrphanLease'
  BY <1>11 DEF TypeOK, NoOrphanLease, Stored, CheckoutOpen, ApprovedRow
<1>12. ASSUME NEW i \in Identity, NEW paths \in SUBSET Path, NEW allowlisted \in BOOLEAN,
             ProxyGate(i, paths, allowlisted)
      PROVE  NoOrphanLease'
  <2>1. UNCHANGED secret
    BY <1>12 DEF ProxyGate
  <2>2. ASSUME NEW l \in LeaseId, Stored(l)'
        PROVE  (lease[l].path \in Path /\ secret[lease[l].path] # "none")'
    <3>1. CASE lease'[l] = lease[l]
      BY <2>1, <2>2, <3>1 DEF NoOrphanLease, Stored
    <3>2. CASE \E p \in Path : /\ secret[p] = "auto"
                              /\ lease'[l] = ApprovedRow(i, p, AutoTtl, "system")
      BY <2>1, <3>2 DEF ApprovedRow
    <3> QED
      BY <1>12, <3>1, <3>2, ProxyGateRows
  <2> QED
    BY <2>2 DEF NoOrphanLease
<1>13. ASSUME NEW i \in Identity, NEW p \in Path, McpLeaseAwait(i, p)
      PROVE  NoOrphanLease'
  BY <1>13 DEF NoOrphanLease, Stored, McpLeaseAwait
<1>14. ASSUME NEW i \in Identity, NEW p \in Path, McpLeaseFail(i, p)
      PROVE  NoOrphanLease'
  BY <1>14 DEF NoOrphanLease, Stored, McpLeaseFail
<1>15. ASSUME NEW i \in Identity, NEW p \in Path, NEW l \in LeaseId,
             McpLeaseMint(i, p, l)
      PROVE  NoOrphanLease'
  BY <1>15 DEF TypeOK, NoOrphanLease, Stored, McpLeaseMint, ApprovedRow, Gated
<1>16. ASSUME NEW i \in Identity, NEW p \in Path, NEW l \in LeaseId, NEW m \in LeaseId,
             NEW ttl \in Ttl, McpLeaseMintOpen(i, p, l, m, ttl)
      PROVE  NoOrphanLease'
  BY <1>16 DEF TypeOK, NoOrphanLease, Stored, McpLeaseMintOpen, ApprovedRow
<1>17. ASSUME ReapExpired PROVE NoOrphanLease'
  BY <1>17 DEF TypeOK, NoOrphanLease, Stored, ReapExpired, LeaseRow, Reaped, Overdue, Pending
<1>18. ASSUME Tick PROVE NoOrphanLease'
  BY <1>18 DEF TypeOK, NoOrphanLease, Stored, Tick
<1>19. CASE UNCHANGED vars
  BY <1>19 DEF NoOrphanLease, Stored, vars
<1>20. ASSUME NEW i \in Identity, NEW p \in Path, ReadValue(i, p)
       PROVE  NoOrphanLease'
  BY <1>20 DEF NoOrphanLease, Stored, ReadValue
<1>21. ASSUME NEW t \in Stdio, NEW i \in Identity, NEW p \in Path, StdioLook(t, i, p)
       PROVE  NoOrphanLease'
  BY <1>21 DEF NoOrphanLease, Stored, StdioLook
<1>22. ASSUME NEW t \in Stdio, NEW l \in LeaseId, NEW ttl \in Ttl,
              NEW requestTtl \in RequestTtl, StdioRequest(t, l, ttl, requestTtl)
       PROVE  NoOrphanLease'
  <2>0. RequestStored(t, l, ttl, requestTtl)
    BY <1>22, StdioRequestInserts
  <2>1. PICK i \in Identity, p \in Path :
           /\ side[t] = [op |-> "request", identity |-> i, path |-> p]
           /\ lease' = [lease EXCEPT ![l] = PendingRow(i, p, ttl, requestTtl)]
           /\ secret[p] # "none"
    BY <2>0 DEF RequestStored
  <2> QED
    BY <1>22, <2>1 DEF TypeOK, NoOrphanLease, Stored, StdioRequest, PendingRow
<1>23. ASSUME NEW t \in Stdio, StdioDrop(t)
       PROVE  NoOrphanLease'
  BY <1>23 DEF NoOrphanLease, Stored, StdioDrop
<1>24. ASSUME NEW t \in Stdio, NEW i \in Identity, NEW p \in Path, StdioCheckoutLook(t, i, p)
       PROVE  NoOrphanLease'
  BY <1>24 DEF NoOrphanLease, Stored, StdioCheckoutLook
<1>25. ASSUME NEW t \in Stdio, NEW l \in LeaseId, NEW ttl \in Ttl, StdioCheckout(t, l, ttl)
       PROVE  NoOrphanLease'
  <2>0. CheckoutStored(t, l, ttl)
    BY <1>25, StdioCheckoutInserts
  <2>1. PICK i \in Identity, p \in Path :
           /\ side[t] = [op |-> "checkout", identity |-> i, path |-> p]
           /\ lease' = [lease EXCEPT ![l] = ApprovedRow(i, p, ttl, None)]
           /\ secret[p] # "none"
    BY <2>0 DEF CheckoutStored
  <2> QED
    BY <1>25, <2>1 DEF TypeOK, NoOrphanLease, Stored, StdioCheckout, ApprovedRow
<1>26. ASSUME NEW i \in Identity, NEW paths \in SUBSET Path, StdioProxy(i, paths)
       PROVE  NoOrphanLease'
  BY <1>26 DEF NoOrphanLease, Stored, StdioProxy
<1> QED
  BY <1>1, <1>2, <1>3, <1>4, <1>5, <1>6, <1>7, <1>8, <1>9, <1>10,
     <1>11, <1>12, <1>13, <1>14, <1>15, <1>16, <1>17, <1>18, <1>19, <1>20, <1>21, <1>22, <1>23, <1>24, <1>25, <1>26
  DEF Next, Secrets, Requests, Decisions, Checkouts, McpLeases, Reads, StdioSteps

\* No lease outlives its secret: a secret created again at a path starts with
\* no window and no request of the one before it.
THEOREM NoOrphans == Spec => []NoOrphanLease
<1>1. Init => NoOrphanLease
  BY OrphanInit
<1>2. TypeOK /\ NoOrphanLease /\ [Next]_vars => NoOrphanLease'
  BY OrphanStep
<1> QED
  BY <1>1, <1>2, TypeCorrect, PTL DEF Spec

-------------------------------------------------------------------------------
\* What GateNeedsApproval rests on: a secret that is ungated now, or that a
\* checkout in progress found ungated, is one that has been ungated.
OpenIsRecorded == \A p \in Path : secret[p] = "open" \/ CheckingOut(p) => p \in everOpen

GateInv == OpenIsRecorded /\ GateNeedsApproval

LEMMA GateInit == Init => GateInv
BY DEF Init, GateInv, OpenIsRecorded, CheckingOut, GateNeedsApproval, NoRow

LEMMA GateStep == TypeOK /\ GateInv /\ [Next]_vars => GateInv'
<1> SUFFICES ASSUME TypeOK, GateInv, [Next]_vars PROVE GateInv'
  OBVIOUS
<1> USE ConstantsOK
<1>1. ASSUME NEW p \in Path, NEW mode \in Mode, WriteSecret(p, mode)
      PROVE  GateInv'
  BY <1>1 DEF TypeOK, GateInv, OpenIsRecorded, CheckingOut, stdio, GateNeedsApproval, WriteSecret, Mode
<1>2. ASSUME NEW p \in Path, DeleteSecret(p) PROVE GateInv'
  BY <1>2 DEF TypeOK, GateInv, OpenIsRecorded, CheckingOut, stdio, GateNeedsApproval, DeleteSecret, NoRow
<1>3. ASSUME NEW i \in Identity, NEW p \in Path, NEW l \in LeaseId, NEW ttl \in Ttl,
             NEW requestTtl \in RequestTtl, RequestAccess(i, p, l, ttl, requestTtl)
      PROVE  GateInv'
  BY <1>3 DEF TypeOK, GateInv, OpenIsRecorded, CheckingOut, stdio, GateNeedsApproval, RequestAccess, PendingRow
<1>4. ASSUME NEW i \in Identity, DeletePendingForIdentity(i) PROVE GateInv'
  BY <1>4 DEF TypeOK, GateInv, OpenIsRecorded, CheckingOut, stdio, GateNeedsApproval, DeletePendingForIdentity, NoRow
<1>5. ASSUME NEW l \in LeaseId, Approve(l) PROVE GateInv'
  BY <1>5 DEF TypeOK, GateInv, OpenIsRecorded, CheckingOut, stdio, GateNeedsApproval, Approve, Pending
<1>6. ASSUME NEW l \in LeaseId, Deny(l) PROVE GateInv'
  BY <1>6 DEF TypeOK, GateInv, OpenIsRecorded, CheckingOut, stdio, GateNeedsApproval, Deny, Pending
<1>7. ASSUME NEW l \in LeaseId, Revoke(l) PROVE GateInv'
  BY <1>7 DEF TypeOK, GateInv, OpenIsRecorded, CheckingOut, stdio, GateNeedsApproval, Revoke
<1>8. ASSUME NEW l \in LeaseId, NEW ttl \in Ttl, Renew(l, ttl) PROVE GateInv'
  BY <1>8 DEF TypeOK, GateInv, OpenIsRecorded, CheckingOut, stdio, GateNeedsApproval, Renew, Active
<1>9. ASSUME NEW i \in Identity, NEW p \in Path, CheckoutGated(i, p)
      PROVE  GateInv'
  BY <1>9 DEF GateInv, OpenIsRecorded, CheckingOut, stdio, GateNeedsApproval, CheckoutGated
<1>10. ASSUME NEW i \in Identity, NEW p \in Path, NEW l \in LeaseId,
             CheckoutAuto(i, p, l)
      PROVE  GateInv'
  BY <1>10 DEF TypeOK, GateInv, OpenIsRecorded, CheckingOut, stdio, GateNeedsApproval, CheckoutAuto, ApprovedRow
<1>11. ASSUME NEW i \in Identity, NEW p \in Path, NEW l \in LeaseId, NEW ttl \in Ttl,
             CheckoutOpen(i, p, l, ttl)
      PROVE  GateInv'
  BY <1>11 DEF TypeOK, GateInv, OpenIsRecorded, CheckingOut, stdio, GateNeedsApproval, CheckoutOpen, ApprovedRow
<1>12. ASSUME NEW i \in Identity, NEW paths \in SUBSET Path, NEW allowlisted \in BOOLEAN,
             ProxyGate(i, paths, allowlisted)
      PROVE  GateInv'
  <2>1. UNCHANGED <<secret, side, everOpen>>
    BY <1>12 DEF ProxyGate, stdio
  <2>2. ASSUME NEW l \in LeaseId, (lease[l].status = "approved" /\ lease[l].approvedBy = None)'
        PROVE  (lease[l].path \in everOpen)'
    <3>1. CASE lease'[l] = lease[l]
      BY <2>1, <2>2, <3>1 DEF GateInv, GateNeedsApproval
    <3>2. ASSUME NEW p \in Path, lease'[l] = ApprovedRow(i, p, AutoTtl, "system") PROVE FALSE
      BY <2>2, <3>2 DEF ApprovedRow
    <3> QED
      BY <1>12, <3>1, <3>2, ProxyGateRows
  <2> QED
    BY <2>1, <2>2 DEF GateInv, OpenIsRecorded, CheckingOut, stdio, GateNeedsApproval
<1>13. ASSUME NEW i \in Identity, NEW p \in Path, McpLeaseAwait(i, p)
      PROVE  GateInv'
  BY <1>13 DEF GateInv, OpenIsRecorded, CheckingOut, stdio, GateNeedsApproval, McpLeaseAwait
<1>14. ASSUME NEW i \in Identity, NEW p \in Path, McpLeaseFail(i, p)
      PROVE  GateInv'
  BY <1>14 DEF GateInv, OpenIsRecorded, CheckingOut, stdio, GateNeedsApproval, McpLeaseFail
<1>15. ASSUME NEW i \in Identity, NEW p \in Path, NEW l \in LeaseId,
             McpLeaseMint(i, p, l)
      PROVE  GateInv'
  BY <1>15 DEF TypeOK, GateInv, OpenIsRecorded, CheckingOut, stdio, GateNeedsApproval, McpLeaseMint, ApprovedRow, Gated
<1>16. ASSUME NEW i \in Identity, NEW p \in Path, NEW l \in LeaseId, NEW m \in LeaseId,
             NEW ttl \in Ttl, McpLeaseMintOpen(i, p, l, m, ttl)
      PROVE  GateInv'
  <2>1. lease' = [lease EXCEPT ![l] = ApprovedRow(i, p, AutoTtl, "system"),
                               ![m] = ApprovedRow(i, p, ttl, None)]
    BY <1>16 DEF McpLeaseMintOpen
  <2>0. /\ secret' = secret /\ everOpen' = everOpen /\ side' = side
        /\ p \in everOpen
    BY <1>16 DEF McpLeaseMintOpen, GateInv, OpenIsRecorded, stdio
  <2>2. \A k \in LeaseId : lease'[k] = lease[k] \/ lease'[k].path = p
    <3>1. /\ ApprovedRow(i, p, AutoTtl, "system").path = p
          /\ ApprovedRow(i, p, ttl, None).path = p
      BY DEF ApprovedRow
    <3>2. \A k \in LeaseId : lease'[k] \in {lease[k], ApprovedRow(i, p, AutoTtl, "system"),
                                            ApprovedRow(i, p, ttl, None)}
      BY <2>1 DEF TypeOK
    <3> QED
      BY <3>1, <3>2
  <2>3. \A q \in Path : secret'[q] = "open" \/ CheckingOut(q)' => q \in everOpen'
    BY <2>0 DEF GateInv, OpenIsRecorded, CheckingOut
  <2>4. \A k \in LeaseId : lease'[k].status = "approved" /\ lease'[k].approvedBy = None
            => lease'[k].path \in everOpen'
    BY <2>0, <2>2 DEF GateInv, GateNeedsApproval
  <2>5. OpenIsRecorded'
    BY <2>3 DEF OpenIsRecorded
  <2>6. GateNeedsApproval'
    BY <2>4 DEF GateNeedsApproval
  <2> QED
    BY <2>5, <2>6 DEF GateInv
<1>17. ASSUME ReapExpired PROVE GateInv'
  BY <1>17 DEF TypeOK, GateInv, OpenIsRecorded, CheckingOut, stdio, GateNeedsApproval, ReapExpired, LeaseRow, Reaped, Overdue, Pending
<1>18. ASSUME Tick PROVE GateInv'
  BY <1>18 DEF TypeOK, GateInv, OpenIsRecorded, CheckingOut, stdio, GateNeedsApproval, Tick
<1>19. CASE UNCHANGED vars
  BY <1>19 DEF GateInv, OpenIsRecorded, CheckingOut, stdio, GateNeedsApproval, vars
<1>20. ASSUME NEW i \in Identity, NEW p \in Path, ReadValue(i, p)
       PROVE  GateInv'
  BY <1>20 DEF TypeOK, GateInv, OpenIsRecorded, CheckingOut, stdio, GateNeedsApproval, ReadValue
<1>21. ASSUME NEW t \in Stdio, NEW i \in Identity, NEW p \in Path, StdioLook(t, i, p)
       PROVE  GateInv'
  BY <1>21 DEF TypeOK, GateInv, OpenIsRecorded, CheckingOut, stdio, GateNeedsApproval, StdioLook
<1>22. ASSUME NEW t \in Stdio, NEW l \in LeaseId, NEW ttl \in Ttl,
              NEW requestTtl \in RequestTtl, StdioRequest(t, l, ttl, requestTtl)
       PROVE  GateInv'
  <2>0. RequestStored(t, l, ttl, requestTtl)
    BY <1>22, StdioRequestInserts
  <2>1. PICK i \in Identity, p \in Path :
           /\ side[t] = [op |-> "request", identity |-> i, path |-> p]
           /\ lease' = [lease EXCEPT ![l] = PendingRow(i, p, ttl, requestTtl)]
           /\ secret[p] # "none"
    BY <2>0 DEF RequestStored
  <2> QED
    BY <1>22, <2>1 DEF TypeOK, GateInv, OpenIsRecorded, CheckingOut, stdio, GateNeedsApproval, StdioRequest, PendingRow
<1>23. ASSUME NEW t \in Stdio, StdioDrop(t)
       PROVE  GateInv'
  BY <1>23 DEF TypeOK, GateInv, OpenIsRecorded, CheckingOut, stdio, GateNeedsApproval, StdioDrop
<1>24. ASSUME NEW t \in Stdio, NEW i \in Identity, NEW p \in Path, StdioCheckoutLook(t, i, p)
       PROVE  GateInv'
  BY <1>24 DEF TypeOK, GateInv, OpenIsRecorded, CheckingOut, stdio, GateNeedsApproval, StdioCheckoutLook
<1>25. ASSUME NEW t \in Stdio, NEW l \in LeaseId, NEW ttl \in Ttl, StdioCheckout(t, l, ttl)
       PROVE  GateInv'
  <2>0. CheckoutStored(t, l, ttl)
    BY <1>25, StdioCheckoutInserts
  <2>1. PICK i \in Identity, p \in Path :
           /\ side[t] = [op |-> "checkout", identity |-> i, path |-> p]
           /\ lease' = [lease EXCEPT ![l] = ApprovedRow(i, p, ttl, None)]
           /\ secret[p] # "none"
    BY <2>0 DEF CheckoutStored
  <2>2. p \in everOpen
    BY <1>25, <2>1 DEF StdioCheckout, GateInv, OpenIsRecorded, CheckingOut
  <2> QED
    BY <1>25, <2>1, <2>2 DEF TypeOK, GateInv, OpenIsRecorded, CheckingOut, stdio, GateNeedsApproval, StdioCheckout, ApprovedRow
<1>26. ASSUME NEW i \in Identity, NEW paths \in SUBSET Path, StdioProxy(i, paths)
       PROVE  GateInv'
  BY <1>26 DEF TypeOK, GateInv, OpenIsRecorded, CheckingOut, stdio, GateNeedsApproval, StdioProxy
<1> QED
  BY <1>1, <1>2, <1>3, <1>4, <1>5, <1>6, <1>7, <1>8, <1>9, <1>10,
     <1>11, <1>12, <1>13, <1>14, <1>15, <1>16, <1>17, <1>18, <1>19, <1>20, <1>21, <1>22, <1>23, <1>24, <1>25, <1>26
  DEF Next, Secrets, Requests, Decisions, Checkouts, McpLeases, Reads, StdioSteps

\* A window on a secret that has always been gated was approved by an admin
\* or by the allowlist, on every path through the handlers.
THEOREM GateHolds == Spec => []GateNeedsApproval
<1>1. Init => GateInv
  BY GateInit
<1>2. TypeOK /\ GateInv /\ [Next]_vars => GateInv'
  BY GateStep
<1>3. GateInv => GateNeedsApproval
  BY DEF GateInv
<1> QED
  BY <1>1, <1>2, <1>3, TypeCorrect, PTL DEF Spec

-------------------------------------------------------------------------------
(* Requests.                                                               *)

\* What RequestDedup rests on: a process that has looked and not yet inserted
\* has no live request of its own for the pair.  The others may have.
AskedOnce ==
    \A t \in Stdio, l \in LeaseId :
        ( /\ side[t] # None /\ side[t].op = "request"
          /\ Pending(l) /\ lease[l].requestExpiresAt > now
          /\ lease[l].identity = side[t].identity
          /\ lease[l].path = side[t].path ) => asker[l] # t

DedupInv == RequestDedup /\ AskedOnce

LEMMA DedupInit == Init => DedupInv
BY DEF Init, DedupInv, RequestDedup, AskedOnce, Pending, NoRow

LEMMA DedupStep == TypeOK /\ DedupInv /\ [Next]_vars => DedupInv'
<1> SUFFICES ASSUME TypeOK, DedupInv, [Next]_vars PROVE DedupInv'
  OBVIOUS
<1> USE ConstantsOK
<1>1. ASSUME NEW p \in Path, NEW mode \in Mode, WriteSecret(p, mode)
      PROVE  DedupInv'
  BY <1>1 DEF DedupInv, RequestDedup, AskedOnce, stdio, Pending, WriteSecret
<1>2. ASSUME NEW p \in Path, DeleteSecret(p) PROVE DedupInv'
  BY <1>2 DEF TypeOK, DedupInv, RequestDedup, AskedOnce, stdio, Pending, DeleteSecret, NoRow
<1>3. ASSUME NEW i \in Identity, NEW p \in Path, NEW l \in LeaseId, NEW ttl \in Ttl,
             NEW requestTtl \in RequestTtl, RequestAccess(i, p, l, ttl, requestTtl)
      PROVE  DedupInv'
  BY <1>3 DEF TypeOK, DedupInv, RequestDedup, AskedOnce, stdio, Pending, RequestAccess, PendingRow, LivePending, Fresh
<1>4. ASSUME NEW i \in Identity, DeletePendingForIdentity(i) PROVE DedupInv'
  BY <1>4 DEF TypeOK, DedupInv, RequestDedup, AskedOnce, stdio, Pending, DeletePendingForIdentity, NoRow
<1>5. ASSUME NEW l \in LeaseId, Approve(l) PROVE DedupInv'
  BY <1>5 DEF TypeOK, DedupInv, RequestDedup, AskedOnce, stdio, Pending, Approve
<1>6. ASSUME NEW l \in LeaseId, Deny(l) PROVE DedupInv'
  BY <1>6 DEF TypeOK, DedupInv, RequestDedup, AskedOnce, stdio, Pending, Deny
<1>7. ASSUME NEW l \in LeaseId, Revoke(l) PROVE DedupInv'
  BY <1>7 DEF TypeOK, DedupInv, RequestDedup, AskedOnce, stdio, Pending, Revoke
<1>8. ASSUME NEW l \in LeaseId, NEW ttl \in Ttl, Renew(l, ttl)
      PROVE  DedupInv'
  BY <1>8 DEF TypeOK, DedupInv, RequestDedup, AskedOnce, stdio, Pending, Renew, Active
<1>9. ASSUME NEW i \in Identity, NEW p \in Path, CheckoutGated(i, p)
      PROVE  DedupInv'
  BY <1>9 DEF DedupInv, RequestDedup, AskedOnce, stdio, Pending, CheckoutGated
<1>10. ASSUME NEW i \in Identity, NEW p \in Path, NEW l \in LeaseId,
             CheckoutAuto(i, p, l)
      PROVE  DedupInv'
  BY <1>10 DEF TypeOK, DedupInv, RequestDedup, AskedOnce, stdio, Pending, CheckoutAuto, ApprovedRow
<1>11. ASSUME NEW i \in Identity, NEW p \in Path, NEW l \in LeaseId, NEW ttl \in Ttl,
             CheckoutOpen(i, p, l, ttl)
      PROVE  DedupInv'
  BY <1>11 DEF TypeOK, DedupInv, RequestDedup, AskedOnce, stdio, Pending, CheckoutOpen, ApprovedRow
<1>12. ASSUME NEW i \in Identity, NEW paths \in SUBSET Path, NEW allowlisted \in BOOLEAN,
             ProxyGate(i, paths, allowlisted)
      PROVE  DedupInv'
  <2>1. now' = now /\ UNCHANGED stdio
    BY <1>12 DEF ProxyGate
  <2>2. ASSUME NEW l \in LeaseId, Pending(l)' PROVE lease'[l] = lease[l]
    <3>1. ASSUME NEW p \in Path, lease'[l] = ApprovedRow(i, p, AutoTtl, "system") PROVE FALSE
      BY <2>2, <3>1 DEF Pending, ApprovedRow
    <3> QED
      BY <1>12, <3>1, ProxyGateRows
  <2> QED
    BY <2>1, <2>2 DEF DedupInv, RequestDedup, AskedOnce, stdio, Pending
<1>13. ASSUME NEW i \in Identity, NEW p \in Path, McpLeaseAwait(i, p)
      PROVE  DedupInv'
  BY <1>13 DEF DedupInv, RequestDedup, AskedOnce, stdio, Pending, McpLeaseAwait
<1>14. ASSUME NEW i \in Identity, NEW p \in Path, McpLeaseFail(i, p)
      PROVE  DedupInv'
  BY <1>14 DEF DedupInv, RequestDedup, AskedOnce, stdio, Pending, McpLeaseFail
<1>15. ASSUME NEW i \in Identity, NEW p \in Path, NEW l \in LeaseId,
             McpLeaseMint(i, p, l)
      PROVE  DedupInv'
  BY <1>15 DEF TypeOK, DedupInv, RequestDedup, AskedOnce, stdio, Pending, McpLeaseMint, ApprovedRow, Gated
<1>16. ASSUME NEW i \in Identity, NEW p \in Path, NEW l \in LeaseId, NEW m \in LeaseId,
             NEW ttl \in Ttl, McpLeaseMintOpen(i, p, l, m, ttl)
      PROVE  DedupInv'
  BY <1>16 DEF TypeOK, DedupInv, RequestDedup, AskedOnce, stdio, Pending, McpLeaseMintOpen, ApprovedRow
<1>17. ASSUME ReapExpired PROVE DedupInv'
  <2>1. now' = now /\ UNCHANGED stdio
    BY <1>17 DEF ReapExpired
  <2>2. ASSUME NEW l \in LeaseId, Pending(l)' PROVE lease'[l] = lease[l]
    BY <1>17, <2>2 DEF TypeOK, LeaseRow, ReapExpired, Reaped, Pending
  <2> QED
    BY <2>1, <2>2 DEF DedupInv, RequestDedup, AskedOnce, stdio, Pending
<1>18. ASSUME Tick PROVE DedupInv'
  BY <1>18 DEF TypeOK, LeaseRow, DedupInv, RequestDedup, AskedOnce, stdio, Pending, Tick
<1>19. CASE UNCHANGED vars
  BY <1>19 DEF DedupInv, RequestDedup, AskedOnce, stdio, Pending, vars
<1>20. ASSUME NEW i \in Identity, NEW p \in Path, ReadValue(i, p)
       PROVE  DedupInv'
  BY <1>20 DEF DedupInv, RequestDedup, AskedOnce, stdio, Pending, ReadValue
<1>21. ASSUME NEW t \in Stdio, NEW i \in Identity, NEW p \in Path, StdioLook(t, i, p)
       PROVE  DedupInv'
  BY <1>21 DEF DedupInv, RequestDedup, AskedOnce, stdio, Pending, StdioLook, LivePending, TypeOK
<1>22. ASSUME NEW t \in Stdio, NEW l \in LeaseId, NEW ttl \in Ttl,
              NEW requestTtl \in RequestTtl, StdioRequest(t, l, ttl, requestTtl)
       PROVE  DedupInv'
  <2>0. RequestStored(t, l, ttl, requestTtl)
    BY <1>22, StdioRequestInserts
  <2>1. PICK i \in Identity, p \in Path :
           /\ side[t] = [op |-> "request", identity |-> i, path |-> p]
           /\ lease' = [lease EXCEPT ![l] = PendingRow(i, p, ttl, requestTtl)]
           /\ secret[p] # "none"
    BY <2>0 DEF RequestStored
  <2>2. \A m \in LeaseId \ {l} : lease'[m] = lease[m] /\ asker'[m] = asker[m]
    BY <1>22, <2>1 DEF TypeOK, StdioRequest
  <2>3. lease'[l] = PendingRow(i, p, ttl, requestTtl) /\ asker'[l] = t
    BY <1>22, <2>1 DEF TypeOK, StdioRequest
  <2>4. now' = now /\ side' = [side EXCEPT ![t] = None]
    BY <1>22 DEF StdioRequest
  <2>5. RequestDedup'
    <3>1. ASSUME NEW m \in LeaseId \ {l}, Pending(m), lease[m].requestExpiresAt > now,
                 lease[m].identity = i, lease[m].path = p
          PROVE  asker[m] # t
      BY <1>22, <2>1, <3>1 DEF StdioRequest, DedupInv, AskedOnce
    <3> QED
      BY <2>2, <2>3, <2>4, <3>1 DEF DedupInv, RequestDedup, Pending, PendingRow
  <2>6. AskedOnce'
    BY <2>2, <2>3, <2>4 DEF TypeOK, DedupInv, AskedOnce, Pending
  <2> QED
    BY <2>5, <2>6 DEF DedupInv
<1>23. ASSUME NEW t \in Stdio, StdioDrop(t)
       PROVE  DedupInv'
  BY <1>23 DEF DedupInv, RequestDedup, AskedOnce, stdio, Pending, StdioDrop, TypeOK
<1>24. ASSUME NEW t \in Stdio, NEW i \in Identity, NEW p \in Path, StdioCheckoutLook(t, i, p)
       PROVE  DedupInv'
  BY <1>24 DEF DedupInv, RequestDedup, AskedOnce, stdio, Pending, StdioCheckoutLook, TypeOK
<1>25. ASSUME NEW t \in Stdio, NEW l \in LeaseId, NEW ttl \in Ttl, StdioCheckout(t, l, ttl)
       PROVE  DedupInv'
  <2>0. CheckoutStored(t, l, ttl)
    BY <1>25, StdioCheckoutInserts
  <2>1. PICK i \in Identity, p \in Path :
           /\ side[t] = [op |-> "checkout", identity |-> i, path |-> p]
           /\ lease' = [lease EXCEPT ![l] = ApprovedRow(i, p, ttl, None)]
           /\ secret[p] # "none"
    BY <2>0 DEF CheckoutStored
  <2> QED
    BY <1>25, <2>1 DEF DedupInv, RequestDedup, AskedOnce, stdio, Pending, TypeOK, StdioCheckout, ApprovedRow
<1>26. ASSUME NEW i \in Identity, NEW paths \in SUBSET Path, StdioProxy(i, paths)
       PROVE  DedupInv'
  BY <1>26 DEF DedupInv, RequestDedup, AskedOnce, stdio, Pending, StdioProxy
<1> QED
  BY <1>1, <1>2, <1>3, <1>4, <1>5, <1>6, <1>7, <1>8, <1>9, <1>10,
     <1>11, <1>12, <1>13, <1>14, <1>15, <1>16, <1>17, <1>18, <1>19, <1>20, <1>21, <1>22, <1>23, <1>24, <1>25, <1>26
  DEF Next, Secrets, Requests, Decisions, Checkouts, McpLeases, Reads, StdioSteps

\* No process inserts a request for a pair while one of its own is live: two
\* live requests for a pair come from overlapping calls of two processes.
THEOREM Deduplicated == Spec => []RequestDedup
<1>1. Init => DedupInv
  BY DedupInit
<1>2. TypeOK /\ DedupInv /\ [Next]_vars => DedupInv'
  BY DedupStep
<1>3. DedupInv => RequestDedup
  BY DEF DedupInv
<1> QED
  BY <1>1, <1>2, <1>3, TypeCorrect, PTL DEF Spec
-------------------------------------------------------------------------------
LEMMA WindowStep ==
    TypeOK /\ [Next]_vars =>
        \A w \in LeaseId :
            Active(w) /\ lease[w].expiresAt > now'
                => Active(w)' \/ Revoke(w) \/ DeleteSecret(lease[w].path)
<1> SUFFICES ASSUME TypeOK, [Next]_vars, NEW w \in LeaseId,
                    Active(w), lease[w].expiresAt > now'
             PROVE  Active(w)' \/ Revoke(w) \/ DeleteSecret(lease[w].path)
  OBVIOUS
<1> USE ConstantsOK
<1>1. ASSUME NEW p \in Path, NEW mode \in Mode, WriteSecret(p, mode)
      PROVE  Active(w)' \/ Revoke(w) \/ DeleteSecret(lease[w].path)
  BY <1>1 DEF Active, WriteSecret
<1>2. ASSUME NEW p \in Path, DeleteSecret(p)
      PROVE  Active(w)' \/ Revoke(w) \/ DeleteSecret(lease[w].path)
  BY <1>2 DEF Active, DeleteSecret, TypeOK
<1>3. ASSUME NEW i \in Identity, NEW p \in Path, NEW l \in LeaseId, NEW ttl \in Ttl,
             NEW requestTtl \in RequestTtl, RequestAccess(i, p, l, ttl, requestTtl)
      PROVE  Active(w)' \/ Revoke(w) \/ DeleteSecret(lease[w].path)
  BY <1>3 DEF Active, RequestAccess, TypeOK, Fresh
<1>4. ASSUME NEW i \in Identity, DeletePendingForIdentity(i)
      PROVE  Active(w)' \/ Revoke(w) \/ DeleteSecret(lease[w].path)
  BY <1>4 DEF Active, DeletePendingForIdentity, TypeOK
<1>5. ASSUME NEW l \in LeaseId, Approve(l)
      PROVE  Active(w)' \/ Revoke(w) \/ DeleteSecret(lease[w].path)
  BY <1>5 DEF Active, Approve, TypeOK, Pending
<1>6. ASSUME NEW l \in LeaseId, Deny(l)
      PROVE  Active(w)' \/ Revoke(w) \/ DeleteSecret(lease[w].path)
  BY <1>6 DEF Active, Deny, TypeOK, Pending
<1>7. ASSUME NEW l \in LeaseId, Revoke(l)
      PROVE  Active(w)' \/ Revoke(w) \/ DeleteSecret(lease[w].path)
  BY <1>7 DEF Active, Revoke, TypeOK
<1>8. ASSUME NEW l \in LeaseId, NEW ttl \in Ttl, Renew(l, ttl)
      PROVE  Active(w)' \/ Revoke(w) \/ DeleteSecret(lease[w].path)
  BY <1>8 DEF Active, Renew, TypeOK
<1>9. ASSUME NEW i \in Identity, NEW p \in Path, CheckoutGated(i, p)
      PROVE  Active(w)' \/ Revoke(w) \/ DeleteSecret(lease[w].path)
  BY <1>9 DEF Active, CheckoutGated
<1>10. ASSUME NEW i \in Identity, NEW p \in Path, NEW l \in LeaseId,
             CheckoutAuto(i, p, l)
      PROVE  Active(w)' \/ Revoke(w) \/ DeleteSecret(lease[w].path)
  BY <1>10 DEF Active, CheckoutAuto, TypeOK, Fresh
<1>11. ASSUME NEW i \in Identity, NEW p \in Path, NEW l \in LeaseId, NEW ttl \in Ttl,
             CheckoutOpen(i, p, l, ttl)
      PROVE  Active(w)' \/ Revoke(w) \/ DeleteSecret(lease[w].path)
  BY <1>11 DEF Active, CheckoutOpen, TypeOK, Fresh
<1>12. ASSUME NEW i \in Identity, NEW paths \in SUBSET Path, NEW allowlisted \in BOOLEAN,
             ProxyGate(i, paths, allowlisted)
      PROVE  Active(w)' \/ Revoke(w) \/ DeleteSecret(lease[w].path)
  BY <1>12, ProxyGateRows DEF ProxyGate, Active, Fresh
<1>13. ASSUME NEW i \in Identity, NEW p \in Path, McpLeaseAwait(i, p)
      PROVE  Active(w)' \/ Revoke(w) \/ DeleteSecret(lease[w].path)
  BY <1>13 DEF Active, McpLeaseAwait
<1>14. ASSUME NEW i \in Identity, NEW p \in Path, McpLeaseFail(i, p)
      PROVE  Active(w)' \/ Revoke(w) \/ DeleteSecret(lease[w].path)
  BY <1>14 DEF Active, McpLeaseFail
<1>15. ASSUME NEW i \in Identity, NEW p \in Path, NEW l \in LeaseId,
             McpLeaseMint(i, p, l)
      PROVE  Active(w)' \/ Revoke(w) \/ DeleteSecret(lease[w].path)
  BY <1>15 DEF Active, McpLeaseMint, TypeOK, Fresh
<1>16. ASSUME NEW i \in Identity, NEW p \in Path, NEW l \in LeaseId, NEW m \in LeaseId,
             NEW ttl \in Ttl, McpLeaseMintOpen(i, p, l, m, ttl)
      PROVE  Active(w)' \/ Revoke(w) \/ DeleteSecret(lease[w].path)
  BY <1>16 DEF Active, McpLeaseMintOpen, TypeOK, Fresh
<1>17. ASSUME ReapExpired
      PROVE  Active(w)' \/ Revoke(w) \/ DeleteSecret(lease[w].path)
  BY <1>17 DEF Active, ReapExpired, TypeOK, LeaseRow, Overdue, Pending
<1>18. ASSUME Tick PROVE Active(w)' \/ Revoke(w) \/ DeleteSecret(lease[w].path)
  BY <1>18 DEF Active, Tick, TypeOK
<1>19. CASE UNCHANGED vars
  BY <1>19 DEF Active, vars
<1>20. ASSUME NEW i \in Identity, NEW p \in Path, ReadValue(i, p)
       PROVE  Active(w)' \/ Revoke(w) \/ DeleteSecret(lease[w].path)
  BY <1>20 DEF Active, ReadValue
<1>21. ASSUME NEW t \in Stdio, NEW i \in Identity, NEW p \in Path, StdioLook(t, i, p)
       PROVE  Active(w)' \/ Revoke(w) \/ DeleteSecret(lease[w].path)
  BY <1>21 DEF Active, StdioLook
<1>22. ASSUME NEW t \in Stdio, NEW l \in LeaseId, NEW ttl \in Ttl,
              NEW requestTtl \in RequestTtl, StdioRequest(t, l, ttl, requestTtl)
       PROVE  Active(w)' \/ Revoke(w) \/ DeleteSecret(lease[w].path)
  BY <1>22 DEF Active, StdioRequest, TypeOK, Fresh
<1>23. ASSUME NEW t \in Stdio, StdioDrop(t)
       PROVE  Active(w)' \/ Revoke(w) \/ DeleteSecret(lease[w].path)
  BY <1>23 DEF Active, StdioDrop
<1>24. ASSUME NEW t \in Stdio, NEW i \in Identity, NEW p \in Path, StdioCheckoutLook(t, i, p)
       PROVE  Active(w)' \/ Revoke(w) \/ DeleteSecret(lease[w].path)
  BY <1>24 DEF Active, StdioCheckoutLook
<1>25. ASSUME NEW t \in Stdio, NEW l \in LeaseId, NEW ttl \in Ttl, StdioCheckout(t, l, ttl)
       PROVE  Active(w)' \/ Revoke(w) \/ DeleteSecret(lease[w].path)
  BY <1>25 DEF Active, StdioCheckout, TypeOK, Fresh
<1>26. ASSUME NEW i \in Identity, NEW paths \in SUBSET Path, StdioProxy(i, paths)
       PROVE  Active(w)' \/ Revoke(w) \/ DeleteSecret(lease[w].path)
  BY <1>26 DEF Active, StdioProxy
<1> QED
  BY <1>1, <1>2, <1>3, <1>4, <1>5, <1>6, <1>7, <1>8, <1>9, <1>10,
     <1>11, <1>12, <1>13, <1>14, <1>15, <1>16, <1>17, <1>18, <1>19, <1>20, <1>21, <1>22, <1>23, <1>24, <1>25, <1>26
  DEF Next, Secrets, Requests, Decisions, Checkouts, McpLeases, Reads, StdioSteps

\* A window that was opened is only taken away by its own revocation, by the
\* deletion of its secret or by the clock.
THEOREM WindowsHold == Spec => WindowHolds
<1>1. TypeOK /\ [Next]_vars =>
        \A l \in LeaseId :
            Active(l) /\ lease[l].expiresAt > now'
                => Active(l)' \/ Revoke(l) \/ DeleteSecret(lease[l].path)
  BY WindowStep
<1> QED
  BY <1>1, TypeCorrect, PTL DEF Spec, WindowHolds
-------------------------------------------------------------------------------
(* Leases implements AccessWindow under the refinement mapping phase. *)

\* The phase of one row at one time: phase, as a function of the table.
PhaseOf(row, t) ==
    IF row.status = "absent" THEN "none"
    ELSE IF row.status = "pending" /\ ~row.revoked THEN "asked"
    ELSE IF row.status = "approved" /\ ~row.revoked /\ row.expiresAt > t THEN "open"
    ELSE "closed"

LEMMA PhaseIs == phase = [l \in LeaseId |-> PhaseOf(lease[l], now)]
BY DEF phase, Fresh, Pending, Active, PhaseOf

LEMMA PhaseIsNext == phase' = [l \in LeaseId |-> PhaseOf(lease'[l], now')]
BY DEF phase, Fresh, Pending, Active, PhaseOf

\* A row that was never inserted names no path, and a request always asks for
\* some time: what makes deletion close rows only and approval open one.
RowShape ==
    \A l \in LeaseId :
        /\ Fresh(l) => lease[l].path = None
        /\ Pending(l) => lease[l].ttl > 0

LEMMA ShapeInit == Init => RowShape
BY DEF Init, RowShape, Fresh, Pending, NoRow

LEMMA ShapeStep == TypeOK /\ RowShape /\ [Next]_vars => RowShape'
<1> SUFFICES ASSUME TypeOK, RowShape, [Next]_vars PROVE RowShape'
  OBVIOUS
<1> USE ConstantsOK
<1>1. ASSUME NEW p \in Path, NEW mode \in Mode, WriteSecret(p, mode)
      PROVE  RowShape'
  BY <1>1 DEF RowShape, Fresh, Pending, WriteSecret
<1>2. ASSUME NEW p \in Path, DeleteSecret(p) PROVE RowShape'
  BY <1>2 DEF TypeOK, RowShape, Fresh, Pending, DeleteSecret, NoRow
<1>3. ASSUME NEW i \in Identity, NEW p \in Path, NEW l \in LeaseId, NEW ttl \in Ttl,
             NEW requestTtl \in RequestTtl, RequestAccess(i, p, l, ttl, requestTtl)
      PROVE  RowShape'
  BY <1>3 DEF TypeOK, RowShape, Fresh, Pending, RequestAccess, PendingRow
<1>4. ASSUME NEW i \in Identity, DeletePendingForIdentity(i) PROVE RowShape'
  BY <1>4 DEF TypeOK, RowShape, Fresh, Pending, DeletePendingForIdentity, NoRow
<1>5. ASSUME NEW l \in LeaseId, Approve(l) PROVE RowShape'
  BY <1>5 DEF TypeOK, RowShape, Fresh, Pending, Approve
<1>6. ASSUME NEW l \in LeaseId, Deny(l) PROVE RowShape'
  BY <1>6 DEF TypeOK, RowShape, Fresh, Pending, Deny
<1>7. ASSUME NEW l \in LeaseId, Revoke(l) PROVE RowShape'
  BY <1>7 DEF TypeOK, RowShape, Fresh, Pending, Revoke, Stored
<1>8. ASSUME NEW l \in LeaseId, NEW ttl \in Ttl, Renew(l, ttl) PROVE RowShape'
  BY <1>8 DEF TypeOK, RowShape, Fresh, Pending, Renew, Active
<1>9. ASSUME NEW i \in Identity, NEW p \in Path, CheckoutGated(i, p)
      PROVE  RowShape'
  BY <1>9 DEF RowShape, Fresh, Pending, CheckoutGated
<1>10. ASSUME NEW i \in Identity, NEW p \in Path, NEW l \in LeaseId,
             CheckoutAuto(i, p, l)
      PROVE  RowShape'
  BY <1>10 DEF TypeOK, RowShape, Fresh, Pending, CheckoutAuto, ApprovedRow
<1>11. ASSUME NEW i \in Identity, NEW p \in Path, NEW l \in LeaseId, NEW ttl \in Ttl,
             CheckoutOpen(i, p, l, ttl)
      PROVE  RowShape'
  BY <1>11 DEF TypeOK, RowShape, Fresh, Pending, CheckoutOpen, ApprovedRow
<1>12. ASSUME NEW i \in Identity, NEW paths \in SUBSET Path, NEW allowlisted \in BOOLEAN,
             ProxyGate(i, paths, allowlisted)
      PROVE  RowShape'
  <2>1. ASSUME NEW l \in LeaseId, Fresh(l)' \/ Pending(l)' PROVE lease'[l] = lease[l]
    <3>1. ASSUME NEW p \in Path, lease'[l] = ApprovedRow(i, p, AutoTtl, "system") PROVE FALSE
      BY <2>1, <3>1 DEF Fresh, Pending, ApprovedRow
    <3> QED
      BY <1>12, <3>1, ProxyGateRows
  <2> QED
    BY <2>1 DEF RowShape, Fresh, Pending
<1>13. ASSUME NEW i \in Identity, NEW p \in Path, McpLeaseAwait(i, p)
      PROVE  RowShape'
  BY <1>13 DEF RowShape, Fresh, Pending, McpLeaseAwait
<1>14. ASSUME NEW i \in Identity, NEW p \in Path, McpLeaseFail(i, p)
      PROVE  RowShape'
  BY <1>14 DEF RowShape, Fresh, Pending, McpLeaseFail
<1>15. ASSUME NEW i \in Identity, NEW p \in Path, NEW l \in LeaseId,
             McpLeaseMint(i, p, l)
      PROVE  RowShape'
  BY <1>15 DEF TypeOK, RowShape, Fresh, Pending, McpLeaseMint, ApprovedRow
<1>16. ASSUME NEW i \in Identity, NEW p \in Path, NEW l \in LeaseId, NEW m \in LeaseId,
             NEW ttl \in Ttl, McpLeaseMintOpen(i, p, l, m, ttl)
      PROVE  RowShape'
  BY <1>16 DEF TypeOK, RowShape, Fresh, Pending, McpLeaseMintOpen, ApprovedRow
<1>17. ASSUME ReapExpired PROVE RowShape'
  BY <1>17 DEF TypeOK, RowShape, Fresh, Pending, ReapExpired, LeaseRow, Reaped, Overdue
<1>18. ASSUME Tick PROVE RowShape'
  BY <1>18 DEF RowShape, Fresh, Pending, Tick
<1>19. CASE UNCHANGED vars
  BY <1>19 DEF RowShape, Fresh, Pending, vars
<1>20. ASSUME NEW i \in Identity, NEW p \in Path, ReadValue(i, p)
       PROVE  RowShape'
  BY <1>20 DEF RowShape, Fresh, Pending, ReadValue
<1>21. ASSUME NEW t \in Stdio, NEW i \in Identity, NEW p \in Path, StdioLook(t, i, p)
       PROVE  RowShape'
  BY <1>21 DEF RowShape, Fresh, Pending, StdioLook
<1>22. ASSUME NEW t \in Stdio, NEW l \in LeaseId, NEW ttl \in Ttl,
              NEW requestTtl \in RequestTtl, StdioRequest(t, l, ttl, requestTtl)
       PROVE  RowShape'
  BY <1>22 DEF TypeOK, RowShape, Fresh, Pending, StdioRequest, PendingRow
<1>23. ASSUME NEW t \in Stdio, StdioDrop(t)
       PROVE  RowShape'
  BY <1>23 DEF RowShape, Fresh, Pending, StdioDrop
<1>24. ASSUME NEW t \in Stdio, NEW i \in Identity, NEW p \in Path, StdioCheckoutLook(t, i, p)
       PROVE  RowShape'
  BY <1>24 DEF RowShape, Fresh, Pending, StdioCheckoutLook
<1>25. ASSUME NEW t \in Stdio, NEW l \in LeaseId, NEW ttl \in Ttl, StdioCheckout(t, l, ttl)
       PROVE  RowShape'
  BY <1>25 DEF TypeOK, RowShape, Fresh, Pending, StdioCheckout, ApprovedRow
<1>26. ASSUME NEW i \in Identity, NEW paths \in SUBSET Path, StdioProxy(i, paths)
       PROVE  RowShape'
  BY <1>26 DEF RowShape, Fresh, Pending, StdioProxy
<1> QED
  BY <1>1, <1>2, <1>3, <1>4, <1>5, <1>6, <1>7, <1>8, <1>9, <1>10,
     <1>11, <1>12, <1>13, <1>14, <1>15, <1>16, <1>17, <1>18, <1>19, <1>20, <1>21, <1>22, <1>23, <1>24, <1>25, <1>26
  DEF Next, Secrets, Requests, Decisions, Checkouts, McpLeases, Reads, StdioSteps

-------------------------------------------------------------------------------
(* The moves of AccessWindow, read off the table.                          *)

Same(l) == PhaseOf(lease'[l], now') = PhaseOf(lease[l], now)

Opens(l) == /\ PhaseOf(lease[l], now) \in {"none", "asked"}
            /\ PhaseOf(lease'[l], now') = "open"

Closes(l) == /\ PhaseOf(lease[l], now) \in {"asked", "open"}
             /\ PhaseOf(lease'[l], now') = "closed"

LEMMA ReleasedNothing == ASSUME handed' = Nothing PROVE released' = Window!Nothing
BY DEF released, Nothing, Window!Nothing

LEMMA AskStep ==
    ASSUME NEW l \in LeaseId, PhaseOf(lease[l], now) = "none",
           PhaseOf(lease'[l], now') = "asked", \A m \in LeaseId \ {l} : Same(m),
           handed' = Nothing
    PROVE  Window!Next
<1>1. Window!Ask(l)
  BY PhaseIs, PhaseIsNext, ReleasedNothing DEF Window!Ask, Window!Move, Same
<1> QED
  BY <1>1 DEF Window!Next

LEMMA OpenStep ==
    ASSUME \A l \in LeaseId : Same(l) \/ Opens(l), handed' = Nothing
    PROVE  Window!Next
<1> DEFINE S == {l \in LeaseId : ~Same(l)}
<1>1. Window!Move(S, {"none", "asked"}, "open")
  BY PhaseIs, PhaseIsNext DEF Window!Move, Same, Opens
<1>2. S \in SUBSET LeaseId /\ Window!Open(S)
  BY <1>1, ReleasedNothing DEF Window!Open
<1> QED
  BY <1>2 DEF Window!Next

\* The gate lets a call through the windows W, some of them opened for it.
LEMMA UseStep ==
    ASSUME \A l \in LeaseId : Same(l) \/ Opens(l),
           NEW i, NEW paths, NEW W \in SUBSET LeaseId, HandOut("gate", i, paths, W), W # {},
           \A l \in W : PhaseOf(lease'[l], now') = "open"
    PROVE  Window!Next
<1> DEFINE S == {l \in LeaseId : ~Same(l)}
<1>1. Window!Move(S, {"none", "asked"}, "open")
  BY PhaseIs, PhaseIsNext DEF Window!Move, Same, Opens
<1>2. released' = [door |-> "window", through |-> W]
  BY DEF HandOut, released
<1>3. \A l \in W : phase'[l] = "open"
  BY PhaseIsNext
<1>4. S \in SUBSET LeaseId /\ Window!Use(S, W)
  BY <1>1, <1>2, <1>3 DEF Window!Use
<1> QED
  BY <1>4 DEF Window!Next

LEMMA CloseStep ==
    ASSUME \A l \in LeaseId : Same(l) \/ Closes(l), handed' = Nothing
    PROVE  Window!Next
<1> DEFINE S == {l \in LeaseId : ~Same(l)}
<1>1. Window!Move(S, {"asked", "open"}, "closed")
  BY PhaseIs, PhaseIsNext DEF Window!Move, Same, Closes
<1>2. S \in SUBSET LeaseId /\ Window!Close(S)
  BY <1>1, ReleasedNothing DEF Window!Close
<1> QED
  BY <1>2 DEF Window!Next

\* A release by another door than the gate.
LEMMA BypassStep ==
    ASSUME NEW door \in {"read", "stdio"}, NEW i, NEW paths, HandOut(door, i, paths, {}),
           UNCHANGED <<now, lease>>
    PROVE  Window!Next
<1>1. released' = [door |-> "bypass", through |-> {}]
  BY DEF HandOut, released
<1>2. phase' = phase
  BY PhaseIs, PhaseIsNext
<1> QED
  BY <1>1, <1>2 DEF Window!Next, Window!Bypass

\* A call the proxy's gate lets through has, for each gated secret, a window of
\* its caller that is open after it, and no other window.
LEMMA ProxyGateUses ==
    ASSUME TypeOK, NEW i \in Identity, NEW paths \in SUBSET Path, NEW allowlisted \in BOOLEAN,
           ProxyGate(i, paths, allowlisted)
    PROVE  \/ handed' = Nothing
           \/ \E W \in SUBSET LeaseId :
                /\ HandOut("gate", i, GatedOf(paths), W)
                /\ W # {}
                /\ \A p \in GatedOf(paths) : \E l \in W : lease'[l].path = p
                /\ \A l \in W : /\ Active(l)'
                                /\ lease'[l].identity = i
                                /\ lease'[l].path \in GatedOf(paths)
<1> USE ConstantsOK
<1> DEFINE gated == GatedOf(paths)
           missing == {p \in gated : ActiveFor(i, p) = {}}
           auto == {p \in missing : allowlisted /\ secret[p] = "auto"}
<1>1. PICK mint \in [auto -> {m \in LeaseId : Fresh(m)}] :
        /\ \A p, q \in auto : mint[p] = mint[q] => p = q
        /\ lease' = [m \in LeaseId |->
                    IF \E p \in auto : mint[p] = m
                    THEN ApprovedRow(i, CHOOSE p \in auto : mint[p] = m, AutoTtl, "system")
                    ELSE lease[m]]
        /\ IF missing = auto
           THEN \E pick \in [gated -> LeaseId] :
                  /\ \A p \in gated : IF p \in auto THEN pick[p] = mint[p]
                                      ELSE pick[p] \in FindActiveApprovedLease(i, p)
                  /\ HandOut("gate", i, gated, {pick[p] : p \in gated})
           ELSE handed' = Nothing
  BY DEF ProxyGate
<1>2. now' = now /\ now \in Nat /\ AutoTtl \in Nat /\ AutoTtl > 0
  BY DEF ProxyGate, TypeOK
<1>3. CASE missing = auto
  <2>1. PICK pick \in [gated -> LeaseId] :
           /\ \A p \in gated : IF p \in auto THEN pick[p] = mint[p]
                               ELSE pick[p] \in FindActiveApprovedLease(i, p)
           /\ HandOut("gate", i, gated, {pick[p] : p \in gated})
    BY <1>1, <1>3
  <2>2. ASSUME NEW p \in gated
        PROVE  Active(pick[p])' /\ lease'[pick[p]].identity = i /\ lease'[pick[p]].path = p
    <3>1. CASE p \in auto
      <4>1. (CHOOSE q \in auto : mint[q] = pick[p]) = p
        BY <1>1, <2>1, <3>1
      <4>2. lease'[pick[p]] = ApprovedRow(i, p, AutoTtl, "system")
        BY <1>1, <2>1, <3>1, <4>1
      <4> QED
        BY <1>2, <4>2 DEF Active, ApprovedRow
    <3>2. CASE p \notin auto
      <4>1. /\ Active(pick[p]) /\ ~Fresh(pick[p])
            /\ lease[pick[p]].identity = i /\ lease[pick[p]].path = p
        BY <2>1, <3>2 DEF FindActiveApprovedLease, ActiveFor, Active, Fresh
      <4>2. lease'[pick[p]] = lease[pick[p]]
        BY <1>1, <4>1
      <4> QED
        BY <1>2, <4>1, <4>2 DEF Active
    <3> QED
      BY <3>1, <3>2
  <2> DEFINE W == {pick[p] : p \in gated}
  <2>3. W \in SUBSET LeaseId /\ W # {}
    BY DEF ProxyGate
  <2>4. \A p \in gated : \E l \in W : lease'[l].path = p
    BY <2>2
  <2>5. \A l \in W : Active(l)' /\ lease'[l].identity = i /\ lease'[l].path \in gated
    BY <2>2
  <2> QED
    BY <2>1, <2>3, <2>4, <2>5
<1>4. CASE missing # auto
  BY <1>1, <1>4
<1> QED
  BY <1>3, <1>4

-------------------------------------------------------------------------------
LEMMA RefineInit == Init => Window!Init
BY PhaseIs DEF Init, Window!Init, Window!Nothing, Nothing, released, NoRow, PhaseOf

\* Each action is one move of the abstract specification, or none.
LEMMA RefineStep == TypeOK /\ RowShape /\ [Next]_vars => [Window!Next]_<<phase, released>>
<1> SUFFICES ASSUME TypeOK, RowShape, [Next]_vars
             PROVE  Window!Next \/ UNCHANGED <<phase, released>>
  OBVIOUS
<1> USE ConstantsOK
<1>0. now \in Nat /\ AutoTtl \in Nat /\ AutoTtl > 0 /\ \A l \in LeaseId : lease[l] \in LeaseRow
  BY DEF TypeOK
<1>1. ASSUME NEW p \in Path, NEW mode \in Mode, WriteSecret(p, mode)
      PROVE  Window!Next
  BY <1>1, OpenStep DEF WriteSecret, Same
<1>2. ASSUME NEW p \in Path, DeleteSecret(p) PROVE Window!Next
  <2>1. ASSUME NEW l \in LeaseId PROVE Same(l) \/ Closes(l)
    BY <1>2 DEF RowShape, Fresh, DeleteSecret, NoRow, PhaseOf, Same, Closes
  <2>2. handed' = Nothing
    BY <1>2 DEF DeleteSecret
  <2> QED
    BY <2>1, <2>2, CloseStep
<1>3. ASSUME NEW i \in Identity, NEW p \in Path, NEW l \in LeaseId, NEW ttl \in Ttl,
             NEW requestTtl \in RequestTtl, RequestAccess(i, p, l, ttl, requestTtl)
      PROVE  Window!Next
  <2>1. PhaseOf(lease[l], now) = "none"
    BY <1>3 DEF RequestAccess, Fresh, PhaseOf
  <2>2. PhaseOf(lease'[l], now') = "asked"
    BY <1>3 DEF TypeOK, RequestAccess, PendingRow, PhaseOf
  <2>3. \A m \in LeaseId \ {l} : Same(m)
    BY <1>3 DEF TypeOK, RequestAccess, Same
  <2>4. handed' = Nothing
    BY <1>3 DEF RequestAccess
  <2> QED
    BY <2>1, <2>2, <2>3, <2>4, AskStep
<1>4. ASSUME NEW i \in Identity, DeletePendingForIdentity(i) PROVE Window!Next
  <2>1. ASSUME NEW l \in LeaseId PROVE Same(l) \/ Closes(l)
    BY <1>4 DEF DeletePendingForIdentity, NoRow, PhaseOf, Same, Closes
  <2>2. handed' = Nothing
    BY <1>4 DEF DeletePendingForIdentity
  <2> QED
    BY <2>1, <2>2, CloseStep
<1>5. ASSUME NEW l \in LeaseId, Approve(l) PROVE Window!Next
  <2>1. PhaseOf(lease[l], now) = "asked"
    BY <1>5 DEF Approve, Pending, PhaseOf
  <2>2. lease[l].ttl \in Nat /\ lease[l].ttl > 0
    BY <1>0, <1>5 DEF Approve, RowShape, LeaseRow
  <2>3. /\ lease'[l].status = "approved"
        /\ lease'[l].revoked = lease[l].revoked
        /\ lease'[l].expiresAt = now + lease[l].ttl
        /\ now' = now
    BY <1>0, <1>5 DEF TypeOK, LeaseRow, Approve
  <2>4. PhaseOf(lease'[l], now') = "open"
    BY <1>0, <1>5, <2>2, <2>3 DEF Approve, Pending, PhaseOf
  <2>5. \A m \in LeaseId \ {l} : Same(m)
    BY <1>5 DEF TypeOK, Approve, Same
  <2>6. handed' = Nothing
    BY <1>5 DEF Approve
  <2> QED
    BY <2>1, <2>4, <2>5, <2>6, OpenStep DEF Opens
<1>6. ASSUME NEW l \in LeaseId, Deny(l) PROVE Window!Next
  <2>1. PhaseOf(lease[l], now) = "asked"
    BY <1>6 DEF Deny, Pending, PhaseOf
  <2>2. PhaseOf(lease'[l], now') = "closed"
    BY <1>0, <1>6 DEF TypeOK, LeaseRow, Deny, PhaseOf
  <2>3. \A m \in LeaseId \ {l} : Same(m)
    BY <1>6 DEF TypeOK, Deny, Same
  <2>4. handed' = Nothing
    BY <1>6 DEF Deny
  <2> QED
    BY <2>1, <2>2, <2>3, <2>4, CloseStep DEF Closes
<1>7. ASSUME NEW l \in LeaseId, Revoke(l) PROVE Window!Next
  <2>1. lease[l].status # "absent" /\ lease'[l].status = lease[l].status /\ lease'[l].revoked
    BY <1>0, <1>7 DEF TypeOK, LeaseRow, Revoke, Stored
  <2>2. PhaseOf(lease'[l], now') = "closed"
    BY <2>1 DEF PhaseOf
  <2>3. ASSUME NEW m \in LeaseId PROVE Same(m) \/ Closes(m)
    <3>1. CASE m = l
      BY <2>1, <2>2, <3>1 DEF PhaseOf, Same, Closes
    <3>2. CASE m # l
      BY <1>7, <3>2 DEF TypeOK, Revoke, Same
    <3> QED
      BY <3>1, <3>2
  <2>4. handed' = Nothing
    BY <1>7 DEF Revoke
  <2> QED
    BY <2>3, <2>4, CloseStep
<1>8. ASSUME NEW l \in LeaseId, NEW ttl \in Ttl, Renew(l, ttl)
      PROVE  Window!Next
  <2>1. /\ lease'[l].status = lease[l].status
        /\ lease'[l].revoked = lease[l].revoked
        /\ lease'[l].expiresAt = now + ttl
        /\ now' = now
    BY <1>0, <1>8 DEF TypeOK, LeaseRow, Renew
  <2>2. Same(l)
    BY <1>0, <1>8, <2>1 DEF Renew, Active, PhaseOf, Same
  <2>3. \A m \in LeaseId : Same(m)
    BY <1>8, <2>2 DEF TypeOK, Renew, Same
  <2>4. handed' = Nothing
    BY <1>8 DEF Renew
  <2> QED
    BY <2>3, <2>4, OpenStep
<1>9. ASSUME NEW i \in Identity, NEW p \in Path, CheckoutGated(i, p) PROVE Window!Next
  <2>1. \A l \in LeaseId : Same(l)
    BY <1>9 DEF CheckoutGated, Same
  <2>2. PICK l \in LeaseId : HandOut("gate", i, {p}, {l}) /\ PhaseOf(lease'[l], now') = "open"
    BY <1>9 DEF CheckoutGated, FindActiveApprovedLease, ActiveFor, Active, PhaseOf
  <2> QED
    BY <2>1, <2>2, UseStep
<1>10. ASSUME NEW i \in Identity, NEW p \in Path, NEW l \in LeaseId, CheckoutAuto(i, p, l)
       PROVE  Window!Next
  <2>1. PhaseOf(lease[l], now) = "none"
    BY <1>10 DEF CheckoutAuto, Fresh, PhaseOf
  <2>2. PhaseOf(lease'[l], now') = "open"
    BY <1>0, <1>10 DEF TypeOK, CheckoutAuto, ApprovedRow, PhaseOf
  <2>3. \A m \in LeaseId \ {l} : Same(m)
    BY <1>10 DEF TypeOK, CheckoutAuto, Same
  <2>4. HandOut("gate", i, {p}, {l})
    BY <1>10 DEF CheckoutAuto
  <2> QED
    BY <2>1, <2>2, <2>3, <2>4, UseStep DEF Opens
<1>11. ASSUME NEW i \in Identity, NEW p \in Path, NEW l \in LeaseId, NEW ttl \in Ttl,
              CheckoutOpen(i, p, l, ttl)
       PROVE  Window!Next
  <2>1. PhaseOf(lease[l], now) = "none"
    BY <1>11 DEF CheckoutOpen, Fresh, PhaseOf
  <2>2. PhaseOf(lease'[l], now') = "open"
    BY <1>0, <1>11 DEF TypeOK, CheckoutOpen, ApprovedRow, PhaseOf
  <2>3. \A m \in LeaseId \ {l} : Same(m)
    BY <1>11 DEF TypeOK, CheckoutOpen, Same
  <2>4. handed' = Nothing
    BY <1>11 DEF CheckoutOpen
  <2> QED
    BY <2>1, <2>2, <2>3, <2>4, OpenStep DEF Opens
<1>12. ASSUME NEW i \in Identity, NEW paths \in SUBSET Path, NEW allowlisted \in BOOLEAN,
              ProxyGate(i, paths, allowlisted)
       PROVE  Window!Next
  <2>1. now' = now
    BY <1>12 DEF ProxyGate
  <2>2. ASSUME NEW l \in LeaseId PROVE Same(l) \/ Opens(l)
    <3>1. CASE lease'[l] = lease[l]
      BY <2>1, <3>1 DEF Same
    <3>2. ASSUME NEW p \in Path, Fresh(l), lease'[l] = ApprovedRow(i, p, AutoTtl, "system")
          PROVE  Opens(l)
      BY <1>0, <2>1, <3>2 DEF Fresh, ApprovedRow, PhaseOf, Opens
    <3> QED
      BY <1>12, <3>1, <3>2, ProxyGateRows
  <2>3. ASSUME NEW W \in SUBSET LeaseId, W # {}, \A l \in W : Active(l)',
               HandOut("gate", i, GatedOf(paths), W)
        PROVE  Window!Next
    <3>1. \A l \in W : PhaseOf(lease'[l], now') = "open"
      BY <2>3 DEF Active, PhaseOf
    <3> QED
      BY <2>2, <2>3, <3>1, UseStep
  <2>4. CASE handed' = Nothing
    BY <2>2, <2>4, OpenStep
  <2>5. CASE handed' # Nothing
    <3>1. PICK W \in SUBSET LeaseId :
             /\ HandOut("gate", i, GatedOf(paths), W)
             /\ W # {}
             /\ \A l \in W : Active(l)'
      BY <1>12, <2>5, ProxyGateUses
    <3> QED
      BY <2>3, <3>1
  <2> QED
    BY <2>4, <2>5
<1>13. ASSUME NEW i \in Identity, NEW p \in Path, McpLeaseAwait(i, p)
       PROVE  Window!Next
  BY <1>13, OpenStep DEF McpLeaseAwait, Same
<1>14. ASSUME NEW i \in Identity, NEW p \in Path, McpLeaseFail(i, p)
       PROVE  Window!Next
  BY <1>14, OpenStep DEF McpLeaseFail, Same
<1>15. ASSUME NEW i \in Identity, NEW p \in Path, NEW l \in LeaseId, McpLeaseMint(i, p, l)
       PROVE  Window!Next
  <2>1. PhaseOf(lease[l], now) = "none"
    BY <1>15 DEF McpLeaseMint, Fresh, PhaseOf
  <2>2. PhaseOf(lease'[l], now') = "open"
    BY <1>0, <1>15 DEF TypeOK, McpLeaseMint, ApprovedRow, PhaseOf
  <2>3. \A m \in LeaseId \ {l} : Same(m)
    BY <1>15 DEF TypeOK, McpLeaseMint, Same
  <2>4. PICK m \in LeaseId : HandOut("gate", i, {p}, {m}) /\ (m = l \/ m \in ActiveFor(i, p))
    BY <1>15 DEF McpLeaseMint
  <2>5. PhaseOf(lease'[m], now') = "open"
    <3>1. CASE m = l
      BY <2>2, <3>1
    <3>2. CASE m # l
      <4>1. PhaseOf(lease[m], now) = "open"
        BY <2>4, <3>2 DEF ActiveFor, Active, PhaseOf
      <4> QED
        BY <2>3, <3>2, <4>1 DEF Same
    <3> QED
      BY <3>1, <3>2
  <2> QED
    BY <2>1, <2>2, <2>3, <2>4, <2>5, UseStep DEF Opens
<1>16. ASSUME NEW i \in Identity, NEW p \in Path, NEW l \in LeaseId, NEW m \in LeaseId,
              NEW ttl \in Ttl, McpLeaseMintOpen(i, p, l, m, ttl)
       PROVE  Window!Next
  <2>1. \A n \in {l, m} : PhaseOf(lease[n], now) = "none"
    BY <1>16 DEF McpLeaseMintOpen, Fresh, PhaseOf
  <2>2. \A n \in {l, m} : PhaseOf(lease'[n], now') = "open"
    BY <1>0, <1>16 DEF TypeOK, McpLeaseMintOpen, ApprovedRow, PhaseOf
  <2>3. \A n \in LeaseId \ {l, m} : Same(n)
    BY <1>16 DEF TypeOK, McpLeaseMintOpen, Same
  <2>4. handed' = Nothing
    BY <1>16 DEF McpLeaseMintOpen
  <2> QED
    BY <2>1, <2>2, <2>3, <2>4, OpenStep DEF Opens
<1>17. ASSUME ReapExpired PROVE Window!Next
  <2>1. ASSUME NEW l \in LeaseId, Overdue(l)
        PROVE  /\ lease'[l].revoked /\ lease'[l].status # "absent"
               /\ lease'[l].status = "approved" \/ Pending(l)
               /\ now' = now
    BY <1>0, <1>17, <2>1 DEF LeaseRow, ReapExpired, Overdue, Pending, Reaped
  <2>2. ASSUME NEW l \in LeaseId, Overdue(l) PROVE PhaseOf(lease'[l], now') = "closed"
    BY <2>1, <2>2 DEF PhaseOf
  <2>3. ASSUME NEW l \in LeaseId PROVE Same(l) \/ Closes(l)
    <3>1. CASE Overdue(l) /\ Pending(l)
      BY <2>2, <3>1 DEF Pending, PhaseOf, Closes
    <3>2. CASE Overdue(l) /\ ~Pending(l)
      <4>1. lease[l].status = "approved" /\ ~(lease[l].expiresAt > now)
        BY <1>0, <3>2 DEF LeaseRow, Overdue
      <4>2. PhaseOf(lease[l], now) = "closed"
        BY <4>1 DEF PhaseOf
      <4> QED
        BY <2>2, <3>2, <4>2 DEF Same
    <3>3. CASE ~Overdue(l)
      BY <1>17, <3>3 DEF ReapExpired, Same
    <3> QED
      BY <3>1, <3>2, <3>3
  <2>4. handed' = Nothing
    BY <1>17 DEF ReapExpired
  <2> QED
    BY <2>3, <2>4, CloseStep
<1>18. ASSUME Tick PROVE Window!Next
  <2>1. now' = now + 1 /\ UNCHANGED lease /\ handed' = Nothing
    BY <1>18 DEF Tick
  <2>2. ASSUME NEW l \in LeaseId PROVE Same(l) \/ Closes(l)
    BY <1>0, <2>1 DEF LeaseRow, PhaseOf, Same, Closes
  <2> QED
    BY <2>1, <2>2, CloseStep
<1>19. CASE UNCHANGED vars
  BY <1>19, PhaseIs, PhaseIsNext DEF vars, released
<1>20. ASSUME NEW i \in Identity, NEW p \in Path, ReadValue(i, p)
       PROVE  Window!Next
  BY <1>20, BypassStep DEF ReadValue
<1>21. ASSUME NEW t \in Stdio, NEW i \in Identity, NEW p \in Path, StdioLook(t, i, p)
       PROVE  Window!Next
  BY <1>21, OpenStep DEF StdioLook, Same
<1>22. ASSUME NEW t \in Stdio, NEW l \in LeaseId, NEW ttl \in Ttl,
              NEW requestTtl \in RequestTtl, StdioRequest(t, l, ttl, requestTtl)
       PROVE  Window!Next
  <2>0. RequestStored(t, l, ttl, requestTtl)
    BY <1>22, StdioRequestInserts
  <2>1. PICK i \in Identity, p \in Path :
           /\ side[t] = [op |-> "request", identity |-> i, path |-> p]
           /\ lease' = [lease EXCEPT ![l] = PendingRow(i, p, ttl, requestTtl)]
           /\ secret[p] # "none"
    BY <2>0 DEF RequestStored
  <2>2. PhaseOf(lease[l], now) = "none"
    BY <1>22 DEF StdioRequest, Fresh, PhaseOf
  <2>3. PhaseOf(lease'[l], now') = "asked"
    BY <2>1 DEF TypeOK, PendingRow, PhaseOf
  <2>4. \A m \in LeaseId \ {l} : Same(m)
    BY <1>22, <2>1 DEF TypeOK, StdioRequest, Same
  <2>5. handed' = Nothing
    BY <1>22 DEF StdioRequest
  <2> QED
    BY <2>2, <2>3, <2>4, <2>5, AskStep
<1>23. ASSUME NEW t \in Stdio, StdioDrop(t)
       PROVE  Window!Next
  BY <1>23, OpenStep DEF StdioDrop, Same
<1>24. ASSUME NEW t \in Stdio, NEW i \in Identity, NEW p \in Path, StdioCheckoutLook(t, i, p)
       PROVE  Window!Next
  BY <1>24, OpenStep DEF StdioCheckoutLook, Same
<1>25. ASSUME NEW t \in Stdio, NEW l \in LeaseId, NEW ttl \in Ttl, StdioCheckout(t, l, ttl)
       PROVE  Window!Next
  <2>0. CheckoutStored(t, l, ttl)
    BY <1>25, StdioCheckoutInserts
  <2>1. PICK i \in Identity, p \in Path :
           /\ side[t] = [op |-> "checkout", identity |-> i, path |-> p]
           /\ lease' = [lease EXCEPT ![l] = ApprovedRow(i, p, ttl, None)]
           /\ secret[p] # "none"
    BY <2>0 DEF CheckoutStored
  <2>2. PhaseOf(lease[l], now) = "none"
    BY <1>25 DEF StdioCheckout, Fresh, PhaseOf
  <2>3. PhaseOf(lease'[l], now') = "open"
    BY <1>0, <1>25, <2>1 DEF TypeOK, StdioCheckout, ApprovedRow, PhaseOf
  <2>4. \A m \in LeaseId \ {l} : Same(m)
    BY <1>25, <2>1 DEF TypeOK, StdioCheckout, Same
  <2>5. handed' = Nothing
    BY <1>25 DEF StdioCheckout
  <2> QED
    BY <2>2, <2>3, <2>4, <2>5, OpenStep DEF Opens
<1>26. ASSUME NEW i \in Identity, NEW paths \in SUBSET Path, StdioProxy(i, paths)
       PROVE  Window!Next
  BY <1>26, BypassStep DEF StdioProxy
<1> QED
  BY <1>1, <1>2, <1>3, <1>4, <1>5, <1>6, <1>7, <1>8, <1>9, <1>10,
     <1>11, <1>12, <1>13, <1>14, <1>15, <1>16, <1>17, <1>18, <1>19, <1>20, <1>21, <1>22, <1>23, <1>24, <1>25, <1>26
  DEF Next, Secrets, Requests, Decisions, Checkouts, McpLeases, Reads, StdioSteps

\* The leases table implements the access window: the reaper, the checkouts,
\* the proxy's gate, gatehouse_lease around its await, the admin's calls and the
\* mcp-stdio processes, interleaved in any way, open a window at most once, and
\* the gate releases only through open ones; what is released past it is an
\* action of the abstract specification that names no window.
THEOREM WindowImplemented == Spec => ImplementsWindow
<1>1. Init => Window!Init
  BY RefineInit
<1>2. TypeOK /\ RowShape /\ [Next]_vars => [Window!Next]_<<phase, released>>
  BY RefineStep
<1>3. Init => RowShape
  BY ShapeInit
<1>4. TypeOK /\ RowShape /\ [Next]_vars => RowShape'
  BY ShapeStep
<1> QED
  BY <1>1, <1>2, <1>3, <1>4, TypeCorrect, PTL DEF Spec, ImplementsWindow, Window!Spec

-------------------------------------------------------------------------------
(* The gate, end to end.                                                   *)

\* All of ReleaseApproved but for who approved the windows.
GateOpened ==
    handed.by = "gate" =>
        /\ \A p \in handed.paths : \E l \in handed.windows : lease[l].path = p
        /\ \A l \in handed.windows : /\ l \in LeaseId
                                     /\ Active(l)
                                     /\ lease[l].identity = handed.to
                                     /\ lease[l].path \in handed.paths

LEMMA NothingOpened == ASSUME handed' = Nothing PROVE GateOpened'
BY DEF GateOpened, Nothing

\* A call let through to one path by one window.
LEMMA OneOpened ==
    ASSUME NEW i, NEW p, NEW l \in LeaseId, HandOut("gate", i, {p}, {l}), Active(l)',
           lease'[l].identity = i, lease'[l].path = p
    PROVE  GateOpened'
BY DEF GateOpened, HandOut

LEMMA OpenedStep == TypeOK /\ GateOpened /\ [Next]_vars => GateOpened'
<1> SUFFICES ASSUME TypeOK, GateOpened, [Next]_vars PROVE GateOpened'
  OBVIOUS
<1> USE ConstantsOK
<1>1. ASSUME \/ Secrets \/ Requests \/ Decisions \/ ReapExpired \/ Tick PROVE GateOpened'
  <2>1. handed' = Nothing
    BY <1>1 DEF Secrets, WriteSecret, DeleteSecret, Requests, RequestAccess,
                DeletePendingForIdentity, Decisions, Approve, Deny, Revoke, Renew,
                ReapExpired, Tick
  <2> QED
    BY <2>1, NothingOpened
<1>2. ASSUME NEW i \in Identity, NEW p \in Path, CheckoutGated(i, p) PROVE GateOpened'
  <2>1. PICK l \in FindActiveApprovedLease(i, p) : HandOut("gate", i, {p}, {l})
    BY <1>2 DEF CheckoutGated
  <2>2. l \in LeaseId /\ Active(l) /\ lease[l].identity = i /\ lease[l].path = p
    BY <2>1 DEF FindActiveApprovedLease, ActiveFor
  <2>3. UNCHANGED <<now, lease>>
    BY <1>2 DEF CheckoutGated
  <2> QED
    BY <2>1, <2>2, <2>3, OneOpened DEF Active
<1>3. ASSUME NEW i \in Identity, NEW p \in Path, NEW l \in LeaseId, CheckoutAuto(i, p, l)
      PROVE  GateOpened'
  <2>1. lease'[l] = ApprovedRow(i, p, AutoTtl, "system") /\ now' = now /\ now \in Nat
    BY <1>3 DEF CheckoutAuto, TypeOK
  <2>2. Active(l)' /\ lease'[l].identity = i /\ lease'[l].path = p
    BY <2>1 DEF Active, ApprovedRow
  <2> QED
    BY <1>3, <2>2, OneOpened DEF CheckoutAuto
<1>4. ASSUME NEW i \in Identity, NEW p \in Path, NEW l \in LeaseId, NEW ttl \in Ttl,
             CheckoutOpen(i, p, l, ttl)
      PROVE  GateOpened'
  BY <1>4, NothingOpened DEF CheckoutOpen
<1>5. ASSUME NEW i \in Identity, NEW paths \in SUBSET Path, NEW allowlisted \in BOOLEAN,
             ProxyGate(i, paths, allowlisted)
      PROVE  GateOpened'
  <2> DEFINE gated == GatedOf(paths)
  <2>1. CASE handed' = Nothing
    BY <2>1, NothingOpened
  <2>2. CASE handed' # Nothing
    <3>1. PICK W \in SUBSET LeaseId :
             /\ HandOut("gate", i, gated, W)
             /\ \A p \in gated : \E l \in W : lease'[l].path = p
             /\ \A l \in W : /\ Active(l)'
                             /\ lease'[l].identity = i
                             /\ lease'[l].path \in gated
      BY <1>5, <2>2, ProxyGateUses
    <3>2. handed'.to = i /\ handed'.paths = gated /\ handed'.windows = W
      BY <3>1 DEF HandOut
    <3> QED
      BY <3>1, <3>2 DEF GateOpened
  <2> QED
    BY <2>1, <2>2
<1>6. ASSUME NEW i \in Identity, NEW p \in Path, McpLeaseAwait(i, p) \/ McpLeaseFail(i, p)
      PROVE  GateOpened'
  BY <1>6, NothingOpened DEF McpLeaseAwait, McpLeaseFail
<1>7. ASSUME NEW i \in Identity, NEW p \in Path, NEW l \in LeaseId, McpLeaseMint(i, p, l)
      PROVE  GateOpened'
  <2>1. PICK m \in LeaseId : /\ m = l \/ m \in ActiveFor(i, p)
                             /\ HandOut("gate", i, {p}, {m})
    BY <1>7 DEF McpLeaseMint
  <2>2. /\ lease' = [lease EXCEPT ![l] = ApprovedRow(i, p, AutoTtl, "system")]
        /\ now' = now /\ now \in Nat
    BY <1>7 DEF McpLeaseMint, TypeOK
  <2>3. Active(m)' /\ lease'[m].identity = i /\ lease'[m].path = p
    <3>1. CASE m = l
      <4>1. lease'[m] = ApprovedRow(i, p, AutoTtl, "system")
        BY <2>2, <3>1 DEF TypeOK
      <4> QED
        BY <2>2, <4>1 DEF Active, ApprovedRow
    <3>2. CASE m # l
      <4>1. lease'[m] = lease[m] /\ m \in ActiveFor(i, p)
        BY <2>1, <2>2, <3>2 DEF TypeOK
      <4> QED
        BY <2>2, <4>1 DEF ActiveFor, Active
    <3> QED
      BY <3>1, <3>2
  <2> QED
    BY <2>1, <2>3, OneOpened
<1>8. ASSUME NEW i \in Identity, NEW p \in Path, NEW l \in LeaseId, NEW m \in LeaseId,
             NEW ttl \in Ttl, McpLeaseMintOpen(i, p, l, m, ttl)
      PROVE  GateOpened'
  BY <1>8, NothingOpened DEF McpLeaseMintOpen
<1>9. CASE Reads \/ StdioSteps
  <2>1. handed' = Nothing \/ handed'.by \in {"read", "stdio"}
    BY <1>9 DEF Reads, ReadValue, StdioSteps, StdioLook, StdioRequest, StdioDrop,
                StdioCheckoutLook, StdioCheckout, StdioProxy, HandOut
  <2> QED
    BY <2>1, NothingOpened DEF GateOpened
<1>10. CASE UNCHANGED vars
  BY <1>10 DEF GateOpened, Active, vars
<1> QED
  BY <1>1, <1>2, <1>3, <1>4, <1>5, <1>6, <1>7, <1>8, <1>9, <1>10
  DEF Next, Checkouts, McpLeases

\* Whatever the gate lets a caller have was covered, secret by secret, by open
\* windows of that caller; by GateHolds somebody approved each, or its secret
\* had been ungated.
THEOREM ReleasesApproved == Spec => []ReleaseApproved
<1>1. Init => GateOpened /\ GateInv
  BY GateInit DEF Init, GateOpened, Nothing
<1>2. TypeOK /\ GateOpened /\ GateInv /\ [Next]_vars => GateOpened' /\ GateInv'
  BY OpenedStep, GateStep
<1>3. GateOpened /\ GateInv => ReleaseApproved
  BY DEF GateOpened, GateInv, GateNeedsApproval, ReleaseApproved, Active
<1> QED
  BY <1>1, <1>2, <1>3, TypeCorrect, PTL DEF Spec

-------------------------------------------------------------------------------
(* What ends, given that the reaper runs and time passes.                  *)

\* A run of the reaper leaves nothing overdue.
LEMMA ReaperSweeps ==
    ASSUME TypeOK, ReapExpired, NEW l \in LeaseId, Overdue(l)
    PROVE  lease'[l].revoked
<1>1. lease'[l] = Reaped(lease[l])
  BY Zenon DEF ReapExpired
<1>2. lease[l] \in LeaseRow
  BY DEF TypeOK
<1> QED
  BY <1>1, <1>2 DEF Reaped, LeaseRow

\* The reaper ends up revoking every approved row that outlived its ttl, unless
\* the row is revoked, renewed or deleted before: until then it is overdue.
THEOREM LapsedAreEnded == Spec /\ ReaperRuns => LapsedAreRevoked
<1> SUFFICES ASSUME NEW l \in LeaseId
             PROVE  Spec /\ ReaperRuns => (Outlived(l) ~> ~Outlived(l))
  BY DEF LapsedAreRevoked
<1>1. Outlived(l) => ReaperHasWork
  BY DEF Outlived, ReaperHasWork, Overdue
<1>2. TypeOK /\ Outlived(l) /\ ReapExpired => ~Outlived(l)'
  BY ReaperSweeps DEF Outlived, Overdue
<1> QED
  BY <1>1, <1>2, TypeCorrect, PTL DEF ReaperRuns

\* A request's deadline is within the clock's range, like every other.
RequestsBounded == \A l \in LeaseId : Pending(l) => lease[l].requestExpiresAt <= Horizon

\* A step leaves a pending row as it was, or it is the insert of a request.
LEMMA BoundedStep == TypeOK /\ RequestsBounded /\ [Next]_vars => RequestsBounded'
<1> SUFFICES ASSUME TypeOK, RequestsBounded, [Next]_vars, NEW m \in LeaseId, Pending(m)'
             PROVE  lease'[m].requestExpiresAt <= Horizon
  BY DEF RequestsBounded
<1> USE ConstantsOK
<1>1. ASSUME Pending(m), lease'[m].requestExpiresAt = lease[m].requestExpiresAt
      PROVE  lease'[m].requestExpiresAt <= Horizon
  BY <1>1 DEF RequestsBounded
<1>2. CASE Secrets
  BY <1>1, <1>2 DEF Secrets, WriteSecret, DeleteSecret, TypeOK, Pending, NoRow
<1>3. ASSUME NEW i \in Identity, NEW p \in Path, NEW l \in LeaseId, NEW ttl \in Ttl,
             NEW requestTtl \in RequestTtl, RequestAccess(i, p, l, ttl, requestTtl)
      PROVE  lease'[m].requestExpiresAt <= Horizon
  <2>1. lease'[m] = lease[m] \/ lease'[m].requestExpiresAt = now + requestTtl
    BY <1>3 DEF RequestAccess, PendingRow, TypeOK
  <2> QED
    BY <1>1, <1>3, <2>1 DEF RequestAccess, Pending
<1>4. ASSUME NEW i \in Identity, DeletePendingForIdentity(i)
      PROVE  lease'[m].requestExpiresAt <= Horizon
  BY <1>1, <1>4 DEF DeletePendingForIdentity, TypeOK, Pending, NoRow
<1>5. CASE Decisions
  <2>1. ASSUME NEW l \in LeaseId, Approve(l) \/ Deny(l) \/ Revoke(l)
        PROVE  lease'[m].requestExpiresAt <= Horizon
    BY <1>1, <2>1 DEF Approve, Deny, Revoke, TypeOK, LeaseRow, Pending
  <2>2. ASSUME NEW l \in LeaseId, NEW ttl \in Ttl, Renew(l, ttl)
        PROVE  lease'[m].requestExpiresAt <= Horizon
    BY <1>1, <2>2 DEF Renew, TypeOK, LeaseRow, Pending
  <2> QED
    BY <1>5, <2>1, <2>2 DEF Decisions
<1>6. ASSUME NEW i \in Identity, NEW p \in Path,
             \/ CheckoutGated(i, p)
             \/ \E l \in LeaseId : CheckoutAuto(i, p, l)
             \/ \E l \in LeaseId, ttl \in Ttl : CheckoutOpen(i, p, l, ttl)
      PROVE  lease'[m].requestExpiresAt <= Horizon
  <2>1. CASE CheckoutGated(i, p)
    BY <1>1, <2>1 DEF CheckoutGated, Pending
  <2>2. ASSUME NEW l \in LeaseId, CheckoutAuto(i, p, l)
        PROVE  lease'[m].requestExpiresAt <= Horizon
    BY <1>1, <2>2 DEF CheckoutAuto, ApprovedRow, TypeOK, Pending
  <2>3. ASSUME NEW l \in LeaseId, NEW ttl \in Ttl, CheckoutOpen(i, p, l, ttl)
        PROVE  lease'[m].requestExpiresAt <= Horizon
    BY <1>1, <2>3 DEF CheckoutOpen, ApprovedRow, TypeOK, Pending
  <2> QED
    BY <1>6, <2>1, <2>2, <2>3
<1>7. ASSUME NEW i \in Identity, NEW paths \in SUBSET Path, NEW allowlisted \in BOOLEAN,
             ProxyGate(i, paths, allowlisted)
      PROVE  lease'[m].requestExpiresAt <= Horizon
  <2>1. ASSUME NEW p \in Path, lease'[m] = ApprovedRow(i, p, AutoTtl, "system") PROVE FALSE
    BY <2>1 DEF Pending, ApprovedRow
  <2> QED
    BY <1>1, <1>7, <2>1, ProxyGateRows DEF Pending
<1>8. CASE McpLeases
  BY <1>1, <1>8 DEF McpLeases, McpLeaseAwait, McpLeaseFail, McpLeaseMint, McpLeaseMintOpen,
                    ApprovedRow, TypeOK, Pending
<1>9. CASE ReapExpired
  BY <1>1, <1>9 DEF ReapExpired, Reaped, Overdue, TypeOK, LeaseRow, Pending
<1>10. CASE Tick
  BY <1>1, <1>10 DEF Tick, Pending
<1>11. CASE UNCHANGED vars
  BY <1>1, <1>11 DEF vars, Pending
<1>12. ASSUME NEW t \in Stdio, NEW l \in LeaseId, NEW ttl \in Ttl,
              NEW requestTtl \in RequestTtl, StdioRequest(t, l, ttl, requestTtl)
       PROVE  lease'[m].requestExpiresAt <= Horizon
  <2>1. lease'[m] = lease[m] \/ lease'[m].requestExpiresAt = now + requestTtl
    BY <1>12 DEF StdioRequest, PendingRow, TypeOK
  <2> QED
    BY <1>1, <1>12, <2>1 DEF StdioRequest, Pending
<1>13. ASSUME NEW t \in Stdio, NEW l \in LeaseId, NEW ttl \in Ttl, StdioCheckout(t, l, ttl)
       PROVE  lease'[m].requestExpiresAt <= Horizon
  BY <1>1, <1>13 DEF StdioCheckout, ApprovedRow, TypeOK, Pending
<1>14. ASSUME UNCHANGED lease PROVE lease'[m].requestExpiresAt <= Horizon
  BY <1>1, <1>14 DEF Pending
<1>15. CASE Reads \/ StdioSteps
  BY <1>12, <1>13, <1>14, <1>15 DEF Reads, ReadValue, StdioSteps, StdioLook, StdioDrop,
                                    StdioCheckoutLook, StdioProxy
<1> QED
  BY <1>2, <1>3, <1>4, <1>5, <1>6, <1>7, <1>8, <1>9, <1>10, <1>11, <1>15
  DEF Next, Requests, Checkouts

\* Only Tick moves the clock, and not beyond the horizon.
LEMMA ClockStep == now = Horizon /\ [Next]_vars => (now = Horizon)'
<1> SUFFICES ASSUME now = Horizon, [Next]_vars
             PROVE  now' = now
  OBVIOUS
<1> USE ConstantsOK
<1>1. CASE Secrets
  BY <1>1 DEF Secrets, WriteSecret, DeleteSecret
<1>2. CASE Requests
  BY <1>2 DEF Requests, RequestAccess, DeletePendingForIdentity
<1>3. CASE Decisions
  BY <1>3 DEF Decisions, Approve, Deny, Revoke, Renew
<1>4. CASE Checkouts
  <2>1. ASSUME NEW i \in Identity, NEW paths \in SUBSET Path, NEW allowlisted \in BOOLEAN,
               ProxyGate(i, paths, allowlisted)
        PROVE  now' = now
    BY <2>1, Zenon DEF ProxyGate
  <2>2. ASSUME NEW i \in Identity, NEW p \in Path,
               \/ CheckoutGated(i, p)
               \/ \E l \in LeaseId : CheckoutAuto(i, p, l)
               \/ \E l \in LeaseId, ttl \in Ttl : CheckoutOpen(i, p, l, ttl)
        PROVE  now' = now
    BY <2>2 DEF CheckoutGated, CheckoutAuto, CheckoutOpen
  <2> QED
    BY <1>4, <2>1, <2>2 DEF Checkouts
<1>5. CASE McpLeases
  BY <1>5 DEF McpLeases, McpLeaseAwait, McpLeaseFail, McpLeaseMint, McpLeaseMintOpen
<1>6. CASE ReapExpired
  BY <1>6 DEF ReapExpired
<1>7. CASE Tick
  BY <1>7 DEF Tick
<1>8. CASE UNCHANGED vars
  BY <1>8 DEF vars
<1>9. CASE Reads \/ StdioSteps
  BY <1>9 DEF Reads, ReadValue, StdioSteps, StdioLook, StdioRequest, StdioDrop,
              StdioCheckoutLook, StdioCheckout, StdioProxy
<1> QED
  BY <1>1, <1>2, <1>3, <1>4, <1>5, <1>6, <1>7, <1>8, <1>9 DEF Next

\* A request is decided, revoked or deleted, or the reaper expires it: when the
\* clock has reached its deadline it is overdue until one of these happens.
THEOREM RequestsAreSettled == Spec /\ ReaperRuns /\ ClockRuns => RequestsSettle
<1> SUFFICES ASSUME NEW l \in LeaseId
             PROVE  Spec /\ ReaperRuns /\ ClockRuns => (Pending(l) ~> ~Pending(l))
  BY DEF RequestsSettle
<1>1. RequestsBounded /\ now = Horizon /\ Pending(l) => ReaperHasWork
  BY DEF RequestsBounded, ReaperHasWork, Overdue
<1>2. TypeOK /\ RequestsBounded /\ now = Horizon /\ Pending(l) /\ ReapExpired => ~Pending(l)'
  BY ReaperSweeps DEF Pending, RequestsBounded, Overdue
<1>3. Init => RequestsBounded
  BY DEF Init, RequestsBounded, Pending, NoRow
<1> QED
  BY <1>1, <1>2, <1>3, TypeCorrect, BoundedStep, ClockStep, PTL DEF ReaperRuns, ClockRuns, Spec
=============================================================================
