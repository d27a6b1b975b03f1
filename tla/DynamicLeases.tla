----------------------------- MODULE DynamicLeases -----------------------------
(***************************************************************************)
(* Dynamic secrets: the configs and leases DynamicSecretsManager keeps in  *)
(* SQLite, the credentials its providers create and destroy at a backend,  *)
(* and the calls in progress between the two.                              *)
(*                                                                         *)
(* Everything between two awaits is one action.  checkout awaits the       *)
(* provider before it inserts the row; revokeLease awaits it before it     *)
(* marks the row; reapExpired and deleteConfig await one revokeLease after *)
(* another.  Any number of these are in progress at once, one per Job.     *)
(***************************************************************************)
EXTENDS Naturals

CONSTANTS
    Path,           \* paths of dynamic secrets
    LeaseId,        \* checkouts the server may still serve (uuids: never reused)
    Backend,        \* databases a config can point to
    Request,        \* revocations and config deletions that can be in progress
    Reaper,         \* runs of the reaper that can overlap
    Ttl,            \* ttl of a checkout, scaled down
    Horizon,        \* bound of the clock: no deadline is set beyond it
    MaxRotations,   \* bound on key rotations
    MaxCrashes,     \* bound on server crashes
    None            \* no path, lease or backend

ASSUME ConstantsOK ==
    /\ Ttl \subseteq Nat \ {0}
    /\ Horizon \in Nat
    /\ MaxRotations \in Nat
    /\ MaxCrashes \in Nat
    /\ None \notin Path \cup LeaseId \cup Backend
    /\ Request \cap Reaper = {}

Job == Request \cup Reaper

VARIABLES
    now,            \* the clock expires_at is compared with
    configKey,      \* the key in memory: how many rotations came before it
    config,         \* backend of each row of dynamic_secrets, None if there is no row
    lease,          \* checkouts in progress and rows of dynamic_leases
    live,           \* the backend where each lease's credential exists, or None
    job,            \* the asynchronous calls in progress
    crashes,
    fault           \* history: leases the world around this code has disturbed

vars == <<now, configKey, config, lease, live, job, crashes, fault>>

LeaseRow ==
    [status : {"absent", "creating", "created", "failed", "stored", "dropped"},
     path : Path \cup {None}, backend : Backend \cup {None},
     expiresAt : Nat, revoked : BOOLEAN, key : 0..MaxRotations]

NoRow == [status |-> "absent", path |-> None, backend |-> None,
          expiresAt |-> 0, revoked |-> FALSE, key |-> 0]

\* A call of revokeLease ("revoke"), reapExpired ("reap") or deleteConfig
\* ("delete"): the leases its loop has left, the one it awaits the provider
\* for, the backend it was told to talk to and whether that has answered.
JobState ==
    [kind : {"idle", "revoke", "reap", "delete"}, path : Path \cup {None},
     queue : SUBSET LeaseId, at : LeaseId \cup {None},
     backend : Backend \cup {None}, answered : BOOLEAN]

Idle == [kind |-> "idle", path |-> None, queue |-> {}, at |-> None,
         backend |-> None, answered |-> FALSE]

Init ==
    /\ now = 0
    /\ configKey = 0
    /\ config = [p \in Path |-> None]
    /\ lease = [l \in LeaseId |-> NoRow]
    /\ live = [l \in LeaseId |-> None]
    /\ job = [j \in Job |-> Idle]
    /\ crashes = 0
    /\ fault = {}

-------------------------------------------------------------------------------
(* The queries of DynamicSecretsManager.                                   *)

InProgress(l) == lease[l].status \in {"creating", "created"}
Unrevoked(l) == lease[l].status = "stored" /\ ~lease[l].revoked
Lapsed(l) == Unrevoked(l) /\ lease[l].expiresAt <= now

\* getLease decrypts the stored credential with the key in memory, or throws.
Readable(l) == lease[l].key = configKey

ActiveLeases(p) ==
    {l \in LeaseId : Unrevoked(l) /\ lease[l].path = p /\ lease[l].expiresAt > now}

\* Mutant: the reaper's query has no condition on expires_at.
ExpiredLeases_All == {l \in LeaseId : Unrevoked(l)}

ExpiredLeases == {l \in LeaseId : Lapsed(l)}

LeasesOf(p) ==
    {l \in LeaseId : lease[l].path = p /\ (InProgress(l) \/ lease[l].status = "stored")}

-------------------------------------------------------------------------------
(* Configs.                                                                *)

\* A new row, or another connection for an old one: the leases stay.
SaveConfig(p, b) ==
    /\ config[p] # b
    /\ config' = [config EXCEPT ![p] = b]
    /\ fault' = fault \cup LeasesOf(p)
    /\ UNCHANGED <<now, configKey, lease, live, job, crashes>>

\* Configs are re-encrypted with the new key, stored credentials are not.
RotateConfigKey ==
    /\ configKey < MaxRotations
    /\ configKey' = configKey + 1
    /\ UNCHANGED <<now, config, lease, live, job, crashes, fault>>

-------------------------------------------------------------------------------
(* checkout.                                                               *)

CheckoutStart(p, l) ==
    /\ config[p] # None
    /\ lease[l].status = "absent"
    /\ lease' = [lease EXCEPT ![l].status = "creating", ![l].path = p,
                              ![l].backend = config[p]]
    /\ UNCHANGED <<now, configKey, config, live, job, crashes, fault>>

ProviderCreates(l) ==
    /\ lease[l].status = "creating"
    /\ live' = [live EXCEPT ![l] = lease[l].backend]
    /\ lease' = [lease EXCEPT ![l].status = "created"]
    /\ UNCHANGED <<now, configKey, config, job, crashes, fault>>

\* create throws.  The credential may exist all the same: the answer was
\* lost, or (mysql) a GRANT failed after CREATE USER.
CheckoutFails(l) ==
    /\ InProgress(l)
    /\ lease' = [lease EXCEPT ![l].status = "failed"]
    /\ fault' = fault \cup {l}
    /\ UNCHANGED <<now, configKey, config, live, job, crashes>>

\* Mutant: the insert leaves expires_at NULL.
CheckoutFinish_NoExpiry(l, ttl) ==
    /\ lease[l].status = "created"
    /\ now + ttl <= Horizon
    /\ lease' = IF config[lease[l].path] = None
                THEN [lease EXCEPT ![l].status = "failed"]
                ELSE [lease EXCEPT ![l].status = "stored",
                                   ![l].expiresAt = None,
                                   ![l].key = configKey]
    /\ UNCHANGED <<now, configKey, config, live, job, crashes, fault>>

\* The insert breaks its foreign key if the config was deleted meanwhile.
CheckoutFinish(l, ttl) ==
    /\ lease[l].status = "created"
    /\ now + ttl <= Horizon
    /\ lease' = IF config[lease[l].path] = None
                THEN [lease EXCEPT ![l].status = "failed"]
                ELSE [lease EXCEPT ![l].status = "stored",
                                   ![l].expiresAt = now + ttl,
                                   ![l].key = configKey]
    /\ UNCHANGED <<now, configKey, config, live, job, crashes, fault>>

-------------------------------------------------------------------------------
(* revokeLease, and the two loops around it.                               *)

\* revokeLease on l, up to its await: nothing to do for a row that is gone
\* or revoked, an exception (which both loops swallow) for one that cannot
\* be decrypted, or else a call to the backend the config names now.
Enter(state, l) ==
    [state EXCEPT
        !.queue = @ \ {l},
        !.at = IF Unrevoked(l) /\ Readable(l) THEN l ELSE None,
        !.backend = IF Unrevoked(l) /\ Readable(l) THEN config[lease[l].path] ELSE None,
        !.answered = FALSE]

\* The handlers look the lease up first and answer 404, or fail.
RevokeRequest(j, l) ==
    /\ job[j].kind = "idle"
    /\ Unrevoked(l) /\ Readable(l)
    /\ job' = [job EXCEPT ![j] = Enter([Idle EXCEPT !.kind = "revoke", !.queue = {l}], l)]
    /\ UNCHANGED <<now, configKey, config, lease, live, crashes, fault>>

ReapExpired(j) ==
    /\ job[j].kind = "idle"
    /\ \E l \in ExpiredLeases :
          job' = [job EXCEPT ![j] =
                    Enter([Idle EXCEPT !.kind = "reap", !.queue = ExpiredLeases], l)]
    /\ UNCHANGED <<now, configKey, config, lease, live, crashes, fault>>

\* Mutant: the row is marked before the provider is called.
NextInQueue_MarksFirst(j, l) ==
    /\ job[j].at = None
    /\ l \in job[j].queue
    /\ job' = [job EXCEPT ![j] = Enter(@, l)]
    /\ lease' = IF Unrevoked(l) THEN [lease EXCEPT ![l].revoked = TRUE] ELSE lease
    /\ UNCHANGED <<now, configKey, config, live, crashes, fault>>

NextInQueue(j, l) ==
    /\ job[j].at = None
    /\ l \in job[j].queue
    /\ job' = [job EXCEPT ![j] = Enter(@, l)]
    /\ UNCHANGED <<now, configKey, config, lease, live, crashes, fault>>

\* DROP ... IF EXISTS: a credential of another backend is not touched.
ProviderRevokes(j) ==
    /\ job[j].at # None
    /\ ~job[j].answered
    /\ live' = [live EXCEPT ![job[j].at] = IF @ = job[j].backend THEN None ELSE @]
    /\ job' = [job EXCEPT ![j].answered = TRUE]
    /\ UNCHANGED <<now, configKey, config, lease, crashes, fault>>

ProviderFails(j) ==
    /\ job[j].at # None
    /\ ~job[j].answered
    /\ fault' = fault \cup {job[j].at}
    /\ job' = [job EXCEPT ![j].answered = TRUE]
    /\ UNCHANGED <<now, configKey, config, lease, live, crashes>>

\* Mutant: the UPDATE is missing.
MarkRevoked_Not(j) ==
    /\ job[j].answered
    /\ job' = [job EXCEPT ![j].at = None, ![j].backend = None, ![j].answered = FALSE]
    /\ UNCHANGED <<now, configKey, config, lease, live, crashes, fault>>

\* Marked and scrubbed whatever the provider said, if the row is still there.
MarkRevoked(j) ==
    /\ job[j].answered
    /\ lease' = IF lease[job[j].at].status = "stored"
                THEN [lease EXCEPT ![job[j].at].revoked = TRUE]
                ELSE lease
    /\ job' = [job EXCEPT ![j].at = None, ![j].backend = None, ![j].answered = FALSE]
    /\ UNCHANGED <<now, configKey, config, live, crashes, fault>>

Finished(j) == job[j].kind # "idle" /\ job[j].queue = {} /\ job[j].at = None

JobEnds(j) ==
    /\ Finished(j)
    /\ job[j].kind # "delete"
    /\ job' = [job EXCEPT ![j] = Idle]
    /\ UNCHANGED <<now, configKey, config, lease, live, crashes, fault>>

\* All rows of the path go, revoked or not, then the config: two statements
\* that commit separately, so that the second may fail after the first.
DropConfig(p) ==
    /\ config' = [config EXCEPT ![p] = None] \/ UNCHANGED config
    /\ lease' = [l \in LeaseId |->
                    IF lease[l].status = "stored" /\ lease[l].path = p
                    THEN [lease[l] EXCEPT !.status = "dropped"] ELSE lease[l]]
    /\ fault' = fault \cup LeasesOf(p)

DeleteConfigEnds(j) ==
    /\ Finished(j)
    /\ job[j].kind = "delete"
    /\ DropConfig(job[j].path)
    /\ job' = [job EXCEPT ![j] = Idle]
    /\ UNCHANGED <<now, configKey, live, crashes>>

\* listActiveLeases throws if one of its rows cannot be decrypted.
DeleteConfig(j, p) ==
    /\ job[j].kind = "idle"
    /\ config[p] # None
    /\ \A l \in ActiveLeases(p) : Readable(l)
    /\ IF ActiveLeases(p) = {}
       THEN DropConfig(p) /\ UNCHANGED job
       ELSE /\ \E l \in ActiveLeases(p) :
                  job' = [job EXCEPT ![j] =
                            Enter([Idle EXCEPT !.kind = "delete", !.path = p,
                                               !.queue = ActiveLeases(p)], l)]
            /\ UNCHANGED <<config, lease, fault>>
    /\ UNCHANGED <<now, configKey, live, crashes>>

-------------------------------------------------------------------------------
(* The server and the clock.                                               *)

\* The process ends and is started again with the same key: rows and
\* credentials stay, calls in progress do not.
Crash ==
    /\ crashes < MaxCrashes
    /\ crashes' = crashes + 1
    /\ lease' = [l \in LeaseId |->
                    IF InProgress(l) THEN [lease[l] EXCEPT !.status = "failed"] ELSE lease[l]]
    /\ job' = [j \in Job |-> Idle]
    /\ fault' = fault \cup {l \in LeaseId : InProgress(l)}
                      \cup {l \in LeaseId : \E j \in Job : job[j].at = l /\ job[j].answered}
    /\ UNCHANGED <<now, configKey, config, live>>

Tick ==
    /\ now < Horizon
    /\ now' = now + 1
    /\ UNCHANGED <<configKey, config, lease, live, job, crashes, fault>>

-------------------------------------------------------------------------------
Configs ==
    \/ \E p \in Path, b \in Backend : SaveConfig(p, b)
    \/ RotateConfigKey

Checkouts == \E l \in LeaseId :
    \/ \E p \in Path : CheckoutStart(p, l)
    \/ ProviderCreates(l)
    \/ CheckoutFails(l)
    \/ \E ttl \in Ttl : CheckoutFinish(l, ttl)

Calls ==
    \/ \E j \in Request :
          \/ \E l \in LeaseId : RevokeRequest(j, l)
          \/ \E p \in Path : DeleteConfig(j, p)
    \/ \E j \in Reaper : ReapExpired(j)

\* What the event loop and the backends do for a call in progress.
Progress(j) ==
    \/ \E l \in LeaseId : NextInQueue(j, l)
    \/ ProviderRevokes(j)
    \/ ProviderFails(j)
    \/ MarkRevoked(j)
    \/ JobEnds(j)
    \/ DeleteConfigEnds(j)

Next == Configs \/ Checkouts \/ Calls \/ (\E j \in Job : Progress(j)) \/ Crash \/ Tick

Spec == Init /\ [][Next]_vars

\* setInterval keeps starting the reaper, a provider answers or times out,
\* the event loop resumes every continuation, and time passes.
FairSpec ==
    /\ Spec
    /\ WF_vars(\E j \in Reaper : ReapExpired(j))
    /\ \A j \in Job : WF_vars(Progress(j))
    /\ WF_vars(Tick)

-------------------------------------------------------------------------------
(* Properties.                                                             *)

\* Every row and every call in progress has the shape the code gives it.
TypeOK ==
    /\ now \in 0..Horizon
    /\ configKey \in 0..MaxRotations
    /\ config \in [Path -> Backend \cup {None}]
    /\ lease \in [LeaseId -> LeaseRow]
    /\ live \in [LeaseId -> Backend \cup {None}]
    /\ job \in [Job -> JobState]
    /\ crashes \in 0..MaxCrashes
    /\ fault \subseteq LeaseId

\* A credential that exists at a backend is known to the server: its
\* checkout is in progress or its row is there and unrevoked, so that the
\* reaper will find it.  Overlapping reapers, requests and key rotations
\* never lose one; only a provider that failed, a crash in mid-call, or a
\* config that was pointed elsewhere or deleted does.
NothingLost ==
    \A l \in LeaseId :
        live[l] # None => InProgress(l) \/ Unrevoked(l) \/ l \in fault

\* An unrevoked row stands for a credential that exists, up to the moment
\* between the provider's answer and the UPDATE: whoever else is revoking
\* or reaping, an agent's lease is not hollowed out and left to look good.
LeaseIsBacked ==
    \A l \in LeaseId :
        Unrevoked(l) /\ live[l] = None
            => l \in fault \/ \E j \in Job : job[j].at = l /\ job[j].answered

\* Where the credential of a lease is, for the abstract specification.  A row
\* that looks good with nothing behind it is "hollow", a credential no row
\* accounts for is "lost": neither is a place Custody knows.
CustodyOf(l) ==
    IF l \in fault THEN "adrift"
    ELSE CASE lease[l].status = "absent"   -> "none"
           [] lease[l].status = "creating" -> "asked"
           [] lease[l].status = "created" \/ Unrevoked(l) ->
                 IF live[l] # None THEN "held"
                 ELSE IF \E j \in Job : job[j].at = l /\ job[j].answered THEN "released"
                 ELSE "hollow"
           [] OTHER -> IF live[l] = None THEN "closed" ELSE "lost"

custody == [l \in LeaseId |-> CustodyOf(l)]

\* Leases that are over, and those a request is being served for.
due == {l \in LeaseId :
    \/ lease[l].status = "stored" /\ lease[l].expiresAt <= now
    \/ \E j \in Request : job[j].at = l}

\* Checkouts, overlapping reapers, requests, rotations and the clock implement
\* the custody of each credential: created once, released once and only when
\* due, its row closed after that and not before.
Credentials == INSTANCE Custody WITH custody <- custody, due <- due
ImplementsCustody == Credentials!Spec

\* A credential is destroyed before its lease expired only by a call that
\* was asked to: the reaper, whose list may be as old as its slowest
\* provider, never takes a lease that still has time.
ReaperSparesActive ==
    [][\A l \in LeaseId :
          live[l] # None /\ live'[l] = None
              => \/ lease[l].expiresAt <= now
                 \/ \E j \in Request : job[j].at = l]_vars

\* "Lease expires or is revoked -> provider destroys the temp credential"
\* (dynamic/provider.ts:10), as far as the key allows it: an expired row is
\* eventually revoked through its provider or dropped, through crashes and
\* provider errors, unless a rotation has made it unreadable.
LapsedAreRevoked ==
    \A l \in LeaseId : Lapsed(l) ~> (~Lapsed(l) \/ ~Readable(l))

\* "auto-revoked when the TTL expires" (mcp/server.ts:106): an expired lease
\* does not stay in the table unrevoked for ever.
AutoRevoked == \A l \in LeaseId : Lapsed(l) ~> ~Lapsed(l)

\* "Revokes all active leases for this path first" (api/dynamic.ts:354): no
\* lease that is active and unrevoked is dropped with its config.
DeleteRevokesFirst ==
    [][\A p \in Path : config[p] # None /\ config'[p] = None => ActiveLeases(p) = {}]_vars
=============================================================================
