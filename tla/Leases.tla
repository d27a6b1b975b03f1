-------------------------------- MODULE Leases --------------------------------
(***************************************************************************)
(* Static leases and the approval gate: the `leases` table, the operations *)
(* of LeaseManager on it, the HTTP, proxy and MCP handlers that call them, *)
(* the part of `secrets` they read, and the reaper.                        *)
(*                                                                         *)
(* Two kinds of process work on the tables.  The server's handlers are     *)
(* atomic between two awaits, SQLite being synchronous; only               *)
(* gatehouse_lease awaits between its gate check and its insert and is two *)
(* actions.  An mcp-stdio process has a LeaseManager of its own on the     *)
(* same file, and no transaction joins the statements of its tools: a      *)
(* query and the insert that relies on it are two actions.  Its statements *)
(* between two of a server handler's need no more actions, as that handler *)
(* might as well have run before or after them.  Two reads are not taken   *)
(* apart (README): of the windows of a call on several secrets, and of a   *)
(* window and of the value checked out through it.                         *)
(***************************************************************************)
EXTENDS Naturals

CONSTANTS
    Identity,       \* auth.identity of the callers
    Path,           \* secret paths
    Stdio,          \* mcp-stdio processes beside the server
    LeaseId,        \* ids the server may still draw (uuids: never reused)
    Ttl,            \* ttl_seconds a caller may ask for, scaled down
    RequestTtl,     \* request_ttl a caller may ask for, scaled down
    AutoTtl,        \* auto_approve_ttl_seconds of the allowlisted secrets
    Horizon,        \* bound of the clock: no deadline is set beyond it
    None            \* SQL NULL

ASSUME ConstantsOK ==
    /\ Ttl \subseteq Nat \ {0}
    /\ RequestTtl \subseteq Nat \ {0}
    /\ AutoTtl \in Nat \ {0}
    /\ Horizon \in Nat
    /\ None \notin Identity \cup Path \cup {"admin", "system"}
    /\ "server" \notin Stdio

VARIABLES
    now,            \* the clock every deadline is compared with
    secret,         \* approval metadata of each path, "none" if there is no row
    lease,          \* the leases table
    mcp,            \* <<identity, path>> of gatehouse_lease calls inside their await
    side,           \* the tool call of each mcp-stdio process between two statements
    asker,          \* history: the process that inserted a request
    handed,         \* what the last step released of gated secrets, by which door
    everOpen        \* history: paths whose secret has been ungated since it was
                    \* created, or since a checkout still to be stored looked at it

stdio == <<side, asker>>
vars == <<now, secret, lease, mcp, side, asker, handed, everOpen>>

\* metadata.requires_approval and auto_approve_from_ip, as far as the gate reads them.
Mode == {"open", "gated", "auto"}

LeaseRow ==
    [path : Path \cup {None}, identity : Identity \cup {None}, ttl : Nat,
     expiresAt : Nat, requestExpiresAt : Nat, revoked : BOOLEAN,
     status : {"absent", "pending", "approved", "denied", "expired", "deleted"},
     approvedBy : {None, "admin", "system"}]

\* A tool call of an mcp-stdio process after its query.
Call == [op : {"request", "checkout"}, identity : Identity, path : Path]

\* "gate" hands a value out after looking for windows, "read" on the read
\* capability alone, "stdio" is gatehouse_proxy of an mcp-stdio process.
Handed ==
    [by : {"nobody", "gate", "read", "stdio"}, to : Identity \cup {None},
     paths : SUBSET Path, windows : SUBSET LeaseId]

HandOut(door, i, paths, windows) ==
    handed' = [by |-> door, to |-> i, paths |-> paths, windows |-> windows]

Nothing == [by |-> "nobody", to |-> None, paths |-> {}, windows |-> {}]

NoRow(status) ==
    [path |-> None, identity |-> None, ttl |-> 0, expiresAt |-> 0,
     requestExpiresAt |-> 0, revoked |-> FALSE, status |-> status,
     approvedBy |-> None]

Init ==
    /\ now = 0
    /\ secret = [p \in Path |-> "none"]
    /\ lease = [l \in LeaseId |-> NoRow("absent")]
    /\ mcp = {}
    /\ side = [t \in Stdio |-> None]
    /\ asker = [l \in LeaseId |-> "server"]
    /\ handed = Nothing
    /\ everOpen = {}

-------------------------------------------------------------------------------
(* The queries of LeaseManager.                                            *)

Fresh(l) == lease[l].status = "absent"
Stored(l) == lease[l].status \notin {"absent", "deleted"}

Gated(p) == secret[p] \in {"gated", "auto"}
GatedOf(paths) == {p \in paths : Gated(p)}

Pending(l) == lease[l].status = "pending" /\ ~lease[l].revoked

LivePending(i, p) ==
    {l \in LeaseId : /\ Pending(l) /\ lease[l].requestExpiresAt > now
                     /\ lease[l].identity = i /\ lease[l].path = p}

Active(l) ==
    /\ lease[l].status = "approved"
    /\ ~lease[l].revoked
    /\ lease[l].expiresAt > now

ActiveFor(i, p) ==
    {l \in LeaseId : Active(l) /\ lease[l].identity = i /\ lease[l].path = p}

\* Mutant: the condition on secret_path is missing.
FindActiveApprovedLease_AnyPath(i, p) ==
    {l \in LeaseId : Active(l) /\ lease[l].identity = i}

\* ORDER BY expires_at DESC LIMIT 1; ties are SQLite's choice.
FindActiveApprovedLease(i, p) ==
    {l \in ActiveFor(i, p) :
        \A m \in ActiveFor(i, p) : lease[m].expiresAt <= lease[l].expiresAt}

\* Mutant: the insert leaves expires_at NULL.
ApprovedRow_NoExpiry(i, p, ttl, by) ==
    [path |-> p, identity |-> i, ttl |-> ttl, expiresAt |-> None,
     requestExpiresAt |-> 0, revoked |-> FALSE, status |-> "approved",
     approvedBy |-> by]

ApprovedRow(i, p, ttl, by) ==
    [path |-> p, identity |-> i, ttl |-> ttl, expiresAt |-> now + ttl,
     requestExpiresAt |-> 0, revoked |-> FALSE, status |-> "approved",
     approvedBy |-> by]

PendingRow(i, p, ttl, requestTtl) ==
    [path |-> p, identity |-> i, ttl |-> ttl, expiresAt |-> now + ttl,
     requestExpiresAt |-> now + requestTtl, revoked |-> FALSE,
     status |-> "pending", approvedBy |-> None]

-------------------------------------------------------------------------------
(* Secrets, as the leases see them.                                        *)

\* put, setMetadata and rollback all end in one row whose metadata replaced
\* the old one: the gate may appear, change or vanish.
WriteSecret(p, mode) ==
    /\ secret' = [secret EXCEPT ![p] = mode]
    /\ everOpen' = IF mode = "open" THEN everOpen \cup {p} ELSE everOpen
    /\ handed' = Nothing
    /\ UNCHANGED <<now, lease, mcp, stdio>>

\* A checkout of an mcp-stdio process has found the secret ungated.
CheckingOut(p) ==
    \E t \in Stdio : side[t] # None /\ side[t].op = "checkout" /\ side[t].path = p

\* Mutant: the leases are left behind.
DeleteSecret_KeepLeases(p) ==
    /\ secret[p] # "none"
    /\ secret' = [secret EXCEPT ![p] = "none"]
    /\ everOpen' = IF CheckingOut(p) THEN everOpen ELSE everOpen \ {p}
    /\ handed' = Nothing
    /\ UNCHANGED <<now, lease, mcp, stdio>>

\* One transaction: the leases go with the secret.
DeleteSecret(p) ==
    /\ secret[p] # "none"
    /\ secret' = [secret EXCEPT ![p] = "none"]
    /\ lease' = [l \in LeaseId |->
                    IF lease[l].path = p THEN NoRow("deleted") ELSE lease[l]]
    /\ everOpen' = IF CheckingOut(p) THEN everOpen ELSE everOpen \ {p}
    /\ handed' = Nothing
    /\ UNCHANGED <<now, mcp, stdio>>

-------------------------------------------------------------------------------
(* Requests and decisions.                                                 *)

\* Mutant: the dedup query is missing.
RequestAccess_NoDedup(i, p, l, ttl, requestTtl) ==
    /\ secret[p] # "none"
    /\ Fresh(l)
    /\ now + ttl <= Horizon /\ now + requestTtl <= Horizon
    /\ lease' = [lease EXCEPT ![l] = PendingRow(i, p, ttl, requestTtl)]
    /\ asker' = [asker EXCEPT ![l] = "server"]
    /\ handed' = Nothing
    /\ UNCHANGED <<now, secret, mcp, side, everOpen>>

RequestAccess(i, p, l, ttl, requestTtl) ==
    /\ secret[p] # "none"
    /\ LivePending(i, p) = {}
    /\ Fresh(l)
    /\ now + ttl <= Horizon /\ now + requestTtl <= Horizon
    /\ lease' = [lease EXCEPT ![l] = PendingRow(i, p, ttl, requestTtl)]
    /\ asker' = [asker EXCEPT ![l] = "server"]
    /\ handed' = Nothing
    /\ UNCHANGED <<now, secret, mcp, side, everOpen>>

\* The same in an mcp-stdio process: the query finds nothing live ...
StdioLook(t, i, p) ==
    /\ side[t] = None
    /\ secret[p] # "none"
    /\ LivePending(i, p) = {}
    /\ side' = [side EXCEPT ![t] = [op |-> "request", identity |-> i, path |-> p]]
    /\ handed' = Nothing
    /\ UNCHANGED <<now, secret, lease, mcp, asker, everOpen>>

\* ... and the insert, which only the foreign key still guards, does not look
\* again.
StdioRequest(t, l, ttl, requestTtl) ==
    /\ side[t] # None /\ side[t].op = "request"
    /\ secret[side[t].path] # "none"
    /\ Fresh(l)
    /\ now + ttl <= Horizon /\ now + requestTtl <= Horizon
    /\ lease' = [lease EXCEPT ![l] =
                    PendingRow(side[t].identity, side[t].path, ttl, requestTtl)]
    /\ asker' = [asker EXCEPT ![l] = t]
    /\ side' = [side EXCEPT ![t] = None]
    /\ handed' = Nothing
    /\ UNCHANGED <<now, secret, mcp, everOpen>>

\* The foreign key fails, or the process ends.
StdioDrop(t) ==
    /\ side[t] # None
    /\ side' = [side EXCEPT ![t] = None]
    /\ handed' = Nothing
    /\ UNCHANGED <<now, secret, lease, mcp, asker, everOpen>>

\* request_expires_at is not looked at: until the reaper has run, a request
\* past it can still be approved.
Approve(l) ==
    /\ Pending(l)
    /\ now + lease[l].ttl <= Horizon
    /\ lease' = [lease EXCEPT ![l].status = "approved",
                              ![l].approvedBy = "admin",
                              ![l].expiresAt = now + lease[l].ttl]
    /\ handed' = Nothing
    /\ UNCHANGED <<now, secret, mcp, stdio, everOpen>>

Deny(l) ==
    /\ Pending(l)
    /\ lease' = [lease EXCEPT ![l].status = "denied", ![l].approvedBy = "admin"]
    /\ handed' = Nothing
    /\ UNCHANGED <<now, secret, mcp, stdio, everOpen>>

\* Mutant: a lapsed window can be renewed until the reaper has run.
Renew_Lapsed(l, ttl) ==
    /\ lease[l].status = "approved" /\ ~lease[l].revoked
    /\ now + ttl <= Horizon
    /\ lease' = [lease EXCEPT ![l].expiresAt = now + ttl, ![l].ttl = ttl]
    /\ handed' = Nothing
    /\ UNCHANGED <<now, secret, mcp, stdio, everOpen>>

Renew(l, ttl) ==
    /\ Active(l)
    /\ now + ttl <= Horizon
    /\ lease' = [lease EXCEPT ![l].expiresAt = now + ttl, ![l].ttl = ttl]
    /\ handed' = Nothing
    /\ UNCHANGED <<now, secret, mcp, stdio, everOpen>>

\* Whatever the status: a pending or denied row can be revoked too.
Revoke(l) ==
    /\ Stored(l)
    /\ ~lease[l].revoked
    /\ lease' = [lease EXCEPT ![l].revoked = TRUE]
    /\ handed' = Nothing
    /\ UNCHANGED <<now, secret, mcp, stdio, everOpen>>

\* Mutant: the status filter is missing.
DeletePendingForIdentity_AnyStatus(i) ==
    /\ \E l \in LeaseId : Stored(l) /\ lease[l].identity = i
    /\ lease' = [l \in LeaseId |->
                    IF lease[l].identity = i THEN NoRow("deleted") ELSE lease[l]]
    /\ handed' = Nothing
    /\ UNCHANGED <<now, secret, mcp, stdio, everOpen>>

\* Deleting an AppRole drops its pending rows, the revoked ones included.
DeletePendingForIdentity(i) ==
    /\ \E l \in LeaseId : lease[l].status = "pending" /\ lease[l].identity = i
    /\ lease' = [l \in LeaseId |->
                    IF lease[l].status = "pending" /\ lease[l].identity = i
                    THEN NoRow("deleted") ELSE lease[l]]
    /\ handed' = Nothing
    /\ UNCHANGED <<now, secret, mcp, stdio, everOpen>>

-------------------------------------------------------------------------------
(* Checkout of a secret's value.                                           *)

\* Mutant: checkout does not look at requires_approval itself.
CheckoutOpen_NoGate(i, p, l, ttl) ==
    /\ secret[p] # "none"
    /\ Fresh(l)
    /\ now + ttl <= Horizon
    /\ lease' = [lease EXCEPT ![l] = ApprovedRow(i, p, ttl, None)]
    /\ handed' = Nothing
    /\ UNCHANGED <<now, secret, mcp, stdio, everOpen>>

\* An ungated secret: a new approved row per call, decided by nobody.
CheckoutOpen(i, p, l, ttl) ==
    /\ secret[p] = "open"
    /\ Fresh(l)
    /\ now + ttl <= Horizon
    /\ lease' = [lease EXCEPT ![l] = ApprovedRow(i, p, ttl, None)]
    /\ handed' = Nothing
    /\ UNCHANGED <<now, secret, mcp, stdio, everOpen>>

\* A gated secret: the approved lease is the access window and is reused.
CheckoutGated(i, p) ==
    /\ Gated(p)
    /\ \E l \in FindActiveApprovedLease(i, p) : HandOut("gate", i, {p}, {l})
    /\ UNCHANGED <<now, secret, lease, mcp, stdio, everOpen>>

\* A gated secret with no window, asked for from an allowlisted address.
CheckoutAuto(i, p, l) ==
    /\ secret[p] = "auto"
    /\ ActiveFor(i, p) = {}
    /\ Fresh(l)
    /\ now + AutoTtl <= Horizon
    /\ lease' = [lease EXCEPT ![l] = ApprovedRow(i, p, AutoTtl, "system")]
    /\ HandOut("gate", i, {p}, {l})
    /\ UNCHANGED <<now, secret, mcp, stdio, everOpen>>

\* The approval gate of a proxied call that references all of `paths`.  A
\* window is minted for each allowlisted path even if another path blocks
\* the call.
ProxyGate(i, paths, allowlisted) ==
    LET gated == GatedOf(paths)
        missing == {p \in gated : ActiveFor(i, p) = {}}
        auto == {p \in missing : allowlisted /\ secret[p] = "auto"}
    IN  /\ gated # {}
        /\ auto # {} => now + AutoTtl <= Horizon
        /\ \E mint \in [auto -> {l \in LeaseId : Fresh(l)}] :
              /\ \A p, q \in auto : mint[p] = mint[q] => p = q
              /\ lease' = [l \in LeaseId |->
                    IF \E p \in auto : mint[p] = l
                    THEN ApprovedRow(i, CHOOSE p \in auto : mint[p] = l, AutoTtl, "system")
                    ELSE lease[l]]
              /\ IF missing = auto
                 THEN \E pick \in [gated -> LeaseId] :
                        /\ \A p \in gated :
                              IF p \in auto THEN pick[p] = mint[p]
                              ELSE pick[p] \in FindActiveApprovedLease(i, p)
                        /\ HandOut("gate", i, gated, {pick[p] : p \in gated})
                 ELSE handed' = Nothing
        /\ UNCHANGED <<now, secret, mcp, stdio, everOpen>>

\* A checkout by an mcp-stdio process finds the secret ungated ...
StdioCheckoutLook(t, i, p) ==
    /\ side[t] = None
    /\ secret[p] = "open"
    /\ side' = [side EXCEPT ![t] = [op |-> "checkout", identity |-> i, path |-> p]]
    /\ handed' = Nothing
    /\ UNCHANGED <<now, secret, lease, mcp, asker, everOpen>>

\* ... and stores the row for whatever secret is at the path by now.
StdioCheckout(t, l, ttl) ==
    /\ side[t] # None /\ side[t].op = "checkout"
    /\ secret[side[t].path] # "none"
    /\ Fresh(l)
    /\ now + ttl <= Horizon
    /\ lease' = [lease EXCEPT ![l] =
                    ApprovedRow(side[t].identity, side[t].path, ttl, None)]
    /\ side' = [side EXCEPT ![t] = None]
    /\ handed' = Nothing
    /\ UNCHANGED <<now, secret, mcp, asker, everOpen>>

\* gatehouse_get and GET of a value or of a version: the read capability is
\* enough, gated or not.
ReadValue(i, p) ==
    /\ Gated(p)
    /\ HandOut("read", i, {p}, {})
    /\ UNCHANGED <<now, secret, lease, mcp, stdio, everOpen>>

\* gatehouse_proxy of an mcp-stdio process, which has no limiter and skips
\* the gate.
StdioProxy(i, paths) ==
    LET gated == GatedOf(paths)
    IN  /\ gated # {}
        /\ HandOut("stdio", i, gated, {})
        /\ UNCHANGED <<now, secret, lease, mcp, stdio, everOpen>>

\* gatehouse_lease found no window and an allowlist, and awaits a module.
McpLeaseAwait(i, p) ==
    /\ secret[p] = "auto"
    /\ ActiveFor(i, p) = {}
    /\ mcp' = mcp \cup {<<i, p>>}
    /\ handed' = Nothing
    /\ UNCHANGED <<now, secret, lease, stdio, everOpen>>

\* It resumes and does not look again: it mints a window under whatever
\* metadata the secret has by now, then checks out.
McpLeaseMint(i, p, l) ==
    /\ <<i, p>> \in mcp
    /\ Gated(p)
    /\ Fresh(l)
    /\ now + AutoTtl <= Horizon
    /\ mcp' = mcp \ {<<i, p>>}
    /\ lease' = [lease EXCEPT ![l] = ApprovedRow(i, p, AutoTtl, "system")]
    /\ \E m \in LeaseId :
          /\ m = l \/ m \in ActiveFor(i, p)
          /\ \A n \in ActiveFor(i, p) : lease[n].expiresAt <= lease'[m].expiresAt
          /\ now + AutoTtl <= lease'[m].expiresAt
          /\ HandOut("gate", i, {p}, {m})
    /\ UNCHANGED <<now, secret, stdio, everOpen>>

\* The gate vanished during the await: the checkout adds a row of its own.
McpLeaseMintOpen(i, p, l, m, ttl) ==
    /\ <<i, p>> \in mcp
    /\ secret[p] = "open"
    /\ Fresh(l) /\ Fresh(m) /\ l # m
    /\ now + AutoTtl <= Horizon /\ now + ttl <= Horizon
    /\ mcp' = mcp \ {<<i, p>>}
    /\ lease' = [lease EXCEPT ![l] = ApprovedRow(i, p, AutoTtl, "system"),
                              ![m] = ApprovedRow(i, p, ttl, None)]
    /\ handed' = Nothing
    /\ UNCHANGED <<now, secret, stdio, everOpen>>

\* The caller's address is not on the list, the secret is gone (the insert
\* breaks its foreign key), or the server restarted: the call ends.
McpLeaseFail(i, p) ==
    /\ <<i, p>> \in mcp
    /\ mcp' = mcp \ {<<i, p>>}
    /\ handed' = Nothing
    /\ UNCHANGED <<now, secret, lease, stdio, everOpen>>

-------------------------------------------------------------------------------
(* Time.                                                                   *)

\* Mutants: one of the reaper's two statements is missing.
Overdue_ApprovedOnly(l) ==
    /\ lease[l].status = "approved" /\ ~lease[l].revoked
    /\ lease[l].expiresAt <= now

Overdue_PendingOnly(l) == Pending(l) /\ lease[l].requestExpiresAt <= now

\* What a run of the reaper finds: approved rows past expires_at, pending
\* rows past request_expires_at.
Overdue(l) ==
    \/ /\ lease[l].status = "approved" /\ ~lease[l].revoked
       /\ lease[l].expiresAt <= now
    \/ Pending(l) /\ lease[l].requestExpiresAt <= now

Reaped(row) ==
    [row EXCEPT !.revoked = TRUE,
                !.status = IF row.status = "pending" THEN "expired" ELSE row.status]

ReapExpired ==
    /\ \E l \in LeaseId : Overdue(l)
    /\ lease' = [l \in LeaseId |-> IF Overdue(l) THEN Reaped(lease[l]) ELSE lease[l]]
    /\ handed' = Nothing
    /\ UNCHANGED <<now, secret, mcp, stdio, everOpen>>

Tick ==
    /\ now < Horizon
    /\ now' = now + 1
    /\ handed' = Nothing
    /\ UNCHANGED <<secret, lease, mcp, stdio, everOpen>>

-------------------------------------------------------------------------------
Secrets == \E p \in Path :
    \/ \E mode \in Mode : WriteSecret(p, mode)
    \/ DeleteSecret(p)

Requests == \E i \in Identity :
    \/ \E p \in Path, l \in LeaseId, ttl \in Ttl, requestTtl \in RequestTtl :
          RequestAccess(i, p, l, ttl, requestTtl)
    \/ DeletePendingForIdentity(i)

Decisions == \E l \in LeaseId :
    \/ Approve(l)
    \/ Deny(l)
    \/ Revoke(l)
    \/ \E ttl \in Ttl : Renew(l, ttl)

Checkouts == \E i \in Identity :
    \/ \E p \in Path :
          \/ CheckoutGated(i, p)
          \/ \E l \in LeaseId :
                \/ CheckoutAuto(i, p, l)
                \/ \E ttl \in Ttl : CheckoutOpen(i, p, l, ttl)
    \/ \E paths \in SUBSET Path, allowlisted \in BOOLEAN :
          ProxyGate(i, paths, allowlisted)

McpLeases == \E i \in Identity, p \in Path :
    \/ McpLeaseAwait(i, p)
    \/ McpLeaseFail(i, p)
    \/ \E l \in LeaseId :
          \/ McpLeaseMint(i, p, l)
          \/ \E m \in LeaseId, ttl \in Ttl : McpLeaseMintOpen(i, p, l, m, ttl)

Reads == \E i \in Identity, p \in Path : ReadValue(i, p)

StdioSteps == \E t \in Stdio :
    \/ \E i \in Identity, p \in Path :
          \/ StdioLook(t, i, p)
          \/ StdioCheckoutLook(t, i, p)
    \/ \E l \in LeaseId, ttl \in Ttl :
          \/ StdioCheckout(t, l, ttl)
          \/ \E requestTtl \in RequestTtl : StdioRequest(t, l, ttl, requestTtl)
    \/ StdioDrop(t)
    \/ \E i \in Identity, paths \in SUBSET Path : StdioProxy(i, paths)

Next ==
    \/ Secrets \/ Requests \/ Decisions \/ Checkouts \/ McpLeases
    \/ Reads \/ StdioSteps \/ ReapExpired \/ Tick

Spec == Init /\ [][Next]_vars

\* setInterval keeps calling the reaper and time passes; nobody is obliged
\* to ask, decide or check out.
FairSpec == Spec /\ WF_vars(ReapExpired) /\ WF_vars(Tick)

-------------------------------------------------------------------------------
(* Properties.                                                             *)

\* Every row and every in-flight call has the shape the code gives it.
TypeOK ==
    /\ now \in 0..Horizon
    /\ secret \in [Path -> Mode \cup {"none"}]
    /\ lease \in [LeaseId -> LeaseRow]
    /\ mcp \subseteq Identity \X Path
    /\ side \in [Stdio -> Call \cup {None}]
    /\ asker \in [LeaseId -> Stdio \cup {"server"}]
    /\ handed \in Handed
    /\ everOpen \subseteq Path

\* requestAccess deduplicates as far as one process goes: however requests of
\* all processes, decisions, expiry and role deletion interleave, two live
\* requests of one identity for one path were inserted by two processes, the
\* later one on a query older than the other's insert.
RequestDedup ==
    \A l, m \in LeaseId :
        ( /\ Pending(l) /\ lease[l].requestExpiresAt > now
          /\ Pending(m) /\ lease[m].requestExpiresAt > now
          /\ lease[l].identity = lease[m].identity
          /\ lease[l].path = lease[m].path
          /\ asker[l] = asker[m] ) => l = m

\* delete() removes the leases with the secret and every insert needs the
\* secret's row: no lease of a deleted secret is left to open the gate of a
\* secret created later at the same path.
NoOrphanLease ==
    \A l \in LeaseId : Stored(l) => lease[l].path \in Path /\ secret[lease[l].path] # "none"

\* The only rows that nobody approved come from checkouts that found the
\* secret ungated.  As long as a secret has always been gated, every approved
\* row for it was approved by an admin or by the allowlist, also when
\* gatehouse_lease resumes after the metadata changed; but for a checkout of
\* an mcp-stdio process that found an ungated secret at the path and stores its
\* row when that one is deleted and another is there.
GateNeedsApproval ==
    \A l \in LeaseId :
        lease[l].status = "approved" /\ lease[l].approvedBy = None
            => lease[l].path \in everOpen

\* A window that was opened stays usable for its full ttl: only its own
\* revocation or the deletion of the secret takes it away early, and not the
\* reaper, the deletion of a role, or another caller's request.
WindowHolds ==
    [][\A l \in LeaseId :
          Active(l) /\ lease[l].expiresAt > now'
              => Active(l)' \/ Revoke(l) \/ DeleteSecret(lease[l].path)]_vars

\* Where a lease row stands in its life, for the abstract specification.
phase == [l \in LeaseId |->
    CASE Fresh(l)   -> "none"
      [] Pending(l) -> "asked"
      [] Active(l)  -> "open"
      [] OTHER      -> "closed"]

\* What the last step released, as the abstract specification sees it: through
\* windows at the gate, past it by the other doors.
released ==
    [door |-> CASE handed.by = "nobody" -> "none"
                [] handed.by = "gate"   -> "window"
                [] OTHER                -> "bypass",
     through |-> handed.windows]

\* The table and its handlers implement the access window: ids open once,
\* closed ones stay closed (no approval of a revoked or denied request, no
\* renewal of a lapsed window), and the gate (checkout, gatehouse_lease, the
\* server's proxy) releases only through windows that are open in that very
\* step.  Reads and the proxy of mcp-stdio are the bypasses that AccessWindow
\* has an action for.
Window == INSTANCE AccessWindow
ImplementsWindow == Window!Spec

\* What the gate has just let through: each gated secret has a window among
\* those the call went through, and each window is open, the caller's own, for
\* one of these secrets, and approved by an admin or by the allowlist, or its
\* secret was ungated at some time.
ReleaseApproved ==
    handed.by = "gate" =>
        /\ \A p \in handed.paths : \E l \in handed.windows : lease[l].path = p
        /\ \A l \in handed.windows :
              /\ Active(l)
              /\ lease[l].identity = handed.to
              /\ lease[l].path \in handed.paths
              /\ lease[l].approvedBy = None => lease[l].path \in everOpen

\* WF_vars(ReapExpired) and WF_vars(Tick), said without ENABLED: a reaper that
\* has something to do is run, and time passes.
ReaperHasWork == \E l \in LeaseId : Overdue(l)
ReaperRuns == []([]ReaperHasWork => <><<ReapExpired>>_vars)
ClockRuns == <>(now = Horizon)

\* A request does not stay pending for ever: it is decided, revoked or
\* deleted, or the reaper expires it.
RequestsSettle == \A l \in LeaseId : Pending(l) ~> ~Pending(l)

\* The reaper ends up revoking every approved row that outlived its ttl.
Outlived(l) == lease[l].status = "approved" /\ ~lease[l].revoked /\ lease[l].expiresAt <= now
LapsedAreRevoked == \A l \in LeaseId : Outlived(l) ~> ~Outlived(l)

-------------------------------------------------------------------------------
(* Statements of the documentation that do not hold, see README.           *)

\* mcp/server.ts:265: "Re-requests for the same (identity, path) are
\* deduplicated to the same lease_id".
OneRequest ==
    \A l, m \in LeaseId :
        ( /\ Pending(l) /\ lease[l].requestExpiresAt > now
          /\ Pending(m) /\ lease[m].requestExpiresAt > now
          /\ lease[l].identity = lease[m].identity
          /\ lease[l].path = lease[m].path ) => l = m

\* CHANGELOG.md:184: agents "must call gatehouse_request_access(...) and wait
\* for a human approval before gatehouse_proxy or gatehouse_lease will succeed".
ProxyWaitsForApproval == handed.by # "stdio"
=============================================================================
