# Gatehouse in TLA+

Gatehouse keeps secrets for software agents. Agents authenticate, then check
secrets out, have them injected into proxied HTTP calls, or lease credentials
that are created for them in a database. Humans administer it and approve
requests. One Bun process serves HTTP and MCP from one SQLite file; `mcp-stdio`
processes can open the same file.

This directory holds specifications of that server, the TLC configurations that
check them on small instances, and proofs, checked by TLAPS, of theorems about
them for every value of their constants. Paths below are relative to the
repository (`src/...` is the TypeScript, `docs/...` the documentation).

    tlc -config MCUsers.cfg MCUsers      # a run
    tlapm Users_proofs.tla               # a module's proofs

## The unit of atomicity

SQLite is called synchronously and JavaScript is single-threaded, so a handler is
atomic from one `await` to the next. That is the rule by which every module was cut
into actions: a handler without an await is one action with everything it calls; a
handler with awaits is one action per stretch, and what it carries across an await
sits in a `call` or `job` variable, because it may be out of date when it is used.
`Request.json()` is an await, and so are password hashing and checking, a provider's
`create` and `revoke`, a dynamic `import`, and the identity provider. The second
source of interleaving is another process on the database: an `mcp-stdio` process has a vault of its own (Vault) and
a `LeaseManager` of its own on the same `leases` table (Leases). No transaction joins the statements of its tools, so a query
and the insert that relies on it are two actions there (`StdioLook`, `StdioRequest`; `StdioCheckoutLook`, `StdioCheckout`). A server handler
whose statements an `mcp-stdio` process comes between might as well have run before or after that process' statement, so it stays
one action. Two pairs of reads are not taken apart: the windows of one call on several secrets, and a window
and the value then checked out through it, which another process could change in between.
One abstraction: the awaits of `jwtVerify` and `SignJWT.sign` are no steps of their own. The claims of
a token, its `exp` included, are fixed before signing is awaited, so it counts from there; a verified
token is used together with the row its handler reads next.

## Inventory

| part | source | state | operations | how it must behave |
|---|---|---|---|---|
| Static leases, approval gate | `lease/manager.ts`, `api/lease.ts`, `api/proxyGates.ts`, `mcp/server.ts` | `leases`; metadata of `secrets` | request, approve, deny, renew, revoke, checkout, auto-approve, reap; deletion with a secret or a role | what the gate releases goes through a window that is open and that somebody approved, and the releases that pass no gate are known; requests are deduplicated in each process and settle; a window lasts its ttl and no longer |
| Dynamic secrets | `dynamic/manager.ts`, `api/dynamic.ts` | `dynamic_secrets`, `dynamic_leases`, the config key in memory, credentials at backends | save and delete config, checkout, revoke, reap, re-encrypt | no credential is forgotten at a backend; a lease in the table is backed by a credential; expired ones get revoked |
| Providers | `dynamic/{postgresql,mysql,mongodb,redis,ssh}.ts` | external databases | create, revoke | revoke is idempotent and touches only what create made |
| Secrets engine, keys | `secrets/engine.ts`, `api/secrets.ts`, `index.ts`, `mcp-stdio.ts` | `secrets`, `secret_versions`, KEK of each process, `GATEHOUSE_MASTER_KEY` | put, setMetadata, rollback, delete, rotate-key, restart | no version is lost; all rows stay under one key; configs follow |
| AppRoles and links | `api/auth.ts`, `api/onboard.ts`, `api/rotate.ts` | `app_roles`, `onboarding_tokens`, `rotate_tokens`, signed JWTs | create, update, suspend, delete, login, refresh, link exchange | a link works once; suspension and policy changes take hold |
| Users, TOTP, SSO | `api/auth.ts`, `api/me.ts`, `auth/{totp,sso,oidc,middleware}.ts` | `users`, `sso_login_state`, `failedAttempts`, signed JWTs | login, second factor, recovery codes, refresh, self-service, administration, SSO | a factor that is on was verified; one-time things work once; a disabled user gets no session; failures are limited |
| Proxy, rate limiter, limits setting | `api/proxy.ts`, `mcp/server.ts`, `rateLimits/`, `settings/proxyLimits.ts` | counters per role and secret in fixed windows, `settings`, a cached copy per process | check, forward, count, answer, scrub; set limits | limits exceeded by less than the calls in progress and those never counted; a result is handed out with one audit row and one count |
| Policies | `policy/engine.ts`, `api/policy.ts`, `mcp-stdio.ts` | YAML files, `policies`, the map of each process | import, reload, save, delete, restart | the map every check is answered from is the table's; an import never changes a stored policy |
| Pattern learning | `patterns/engine.ts`, `api/patterns.ts` | `proxy_patterns` | record, suggest, summarise, pin, delete | a row tells the calls recorded in it; what has begun to fail is no longer offered |
| CIDR, scrubber, SSRF guard | `auth/{cidr,sourceIp}.ts`, `scrub/`, `security/ssrf.ts` | none | pure functions of strings | agree with their reference definitions |
| Audit log, event bus, webhook, UI, docs | `audit/`, `events/`, `lease/webhook.ts`, `ui/`, `docs/` | append-only output | log, publish, notify | no handler depends on them |

How the parts meet:

- a secret's metadata is the gate of its leases, and its deletion removes them
  (`secrets/engine.ts:298`);
- deleting an AppRole removes its identity's pending requests
  (`api/auth.ts:785`) and, by a cascade, its links;
- `POST /v1/rotate-key` (`index.ts:405`) re-wraps the secrets' DEKs, then
  re-encrypts the dynamic configurations, in a transaction each;
- timers in `index.ts` run both reapers, the token clean-up and the SSO clean-up
  between any two awaits of a request;
- the proxy and `gatehouse_lease` ask the lease manager for windows on behalf of
  their callers, and may mint them;
- a proxied call reads the limits setting, the policies' answer, the limiter, the gate and
  the secrets in one step, goes upstream, and then reports to the limiter, the audit log and the
  patterns;
- a `mcp-stdio` process has a vault key, a lease manager, a limits cache and a policy map of its own and no limiter; without a
  limiter its `gatehouse_proxy` skips the approval gate too (`mcp/server.ts:652`), and a read of a value
  (`mcp/server.ts:305`, `api/secrets.ts:261`) has no gate anywhere.

What is hard about it: rows read before an await and trusted after it (login, link
exchange, `PUT` of a role, recovery codes, TOTP activation); loops that await once
per element while the table they listed changes (both dynamic loops); two
transactions that should be one (rotate-key); a query and an insert in each of two processes; processes with keys, policies and cached settings
of different age; tokens whose validity outlives what they were signed for; limits that are checked before an await
and counted after it. `PROJECT.json` lists the
hazards one by one, each with its line and the properties that would catch it, or a note on why none does: several are behaviour the
properties have to excuse (a crash, a provider's error, a key from another time), and say so.

## Modules

| module | what | proofs |
|---|---|---|
| `AccessWindow` | abstract: what the gate promises about a lease id | |
| `Leases` | static leases and the gate; implements `AccessWindow` | `Leases_proofs` |
| `Custody` | abstract: what happens to one dynamic credential, and in which order | |
| `DynamicLeases` | dynamic secrets, providers, reapers; implements `Custody` | `DynamicLeases_proofs` |
| `VersionedStore` | abstract: what the vault promises about a path's versions | |
| `Vault` | secrets, versions, keys, rotation; implements `VersionedStore` | `Vault_proofs` |
| `AppRoles` | roles, links, agents' JWTs | `AppRoles_proofs` |
| `Lockout` | `AppRoles` with a history: how long each role's standing has been calm | `AppRoles_proofs` |
| `Users` | accounts, second factor, SSO, failure limiter | `Users_proofs` |
| `Proxy` | proxied calls, limiter, limits setting and its caches | `Proxy_proofs` |
| `Policies` | files, table and maps of policies | `Policies_proofs` |
| `Patterns` | learned patterns and what is offered from them | `Patterns_proofs` |
| `MC*` | symmetry sets for the configurations of the same prefix | |

Operators named `X_Something`, each placed before `X` and marked `Mutant` in its
comment, are variants of `X` with one plausible mistake. No specification uses them.
`PROJECT.json` says which property each is to break; a property no mistake breaks
says nothing.

### Leases

`lease[l]` is the row of an id, `"absent"` before it is drawn and `"deleted"` after its
`DELETE`. `expires_at` and `request_expires_at` are compared with the clock `now`.
`secret[p]` is the path's approval metadata only: no row, ungated, gated, or gated with
an allowlist. Each method of `LeaseManager` that writes is an action of its name.
`CheckoutOpen`, `CheckoutGated` and `CheckoutAuto` are the outcomes of a checkout by
path; `ProxyGate` is gate 3 of `proxyGates.ts` on a whole set of secrets, including
that it keeps windows it minted before another path blocked the call. `McpLease*` is
`gatehouse_lease`, the one handler here with an await between gate and insert. `side[t]` is what a tool of the `mcp-stdio`
process `t` has found between its query and its insert; everything else such a process does is the same action as the server's.
`asker` (the process that inserted a request) and `everOpen` are history.

The gate is not the only door. `handed` says what the last step released and by which: `"gate"` through windows, `"read"` on the read
capability alone (`ReadValue`: `gatehouse_get` and `GET` of a value or a version), `"stdio"` by the `gatehouse_proxy` of an `mcp-stdio`
process (`StdioProxy`). The properties about windows are about the first; nothing is promised of the other two, and
`ProxyWaitsForApproval` below says of the last that the changelog promises otherwise.

`AccessWindow` knows only a phase per id and the door of the last release. An id is asked for, opened and closed, in that
order and never back, a release by the gate names windows that are open in that very step, and the other doors are a
`Bypass`, which moves no phase. The
refinement mapping is `phase`, computed from the row and the clock, so an approval of a
request past its deadline or a renewal is a stutter or an opening, and an
approval of a revoked request or a renewal of a lapsed window is a violation.

### DynamicLeases

A lease is `"creating"` while the provider is asked, `"created"` between its answer and the
`INSERT`, then a stored row. `live[l]` is the backend where its credential really exists.
`job` holds the calls in progress of `revokeLease`, `reapExpired` and `deleteConfig`: the
ids their loop has left, the one awaited, the backend asked, and whether it answered. `Request`
and `Reaper` bound how many there are at once. A provider's failure, a crash in
mid-call, a config pointed elsewhere or deleted put the lease in `fault`: properties that would
otherwise be false say "unless in `fault`", and what puts a lease there is listed by the
actions. Overlapping reapers and revocations excuse nothing; of the interleavings one does, a checkout that finishes while `deleteConfig`
awaits its revocations and is dropped with the path's rows, which `MCDynamicLeasesDelete` shows. The two `DELETE`s at the end of `deleteConfig` commit
separately: `DropConfig` lets the second fail after the first. A stored credential carries the `configKey`
it was encrypted with; after `RotateConfigKey`, `getLease` throws on the older ones.

`Custody` knows one credential per lease: nobody asked for it, asked for, held, released, its lease closed. It
moves on by one at a time and never back, and is released only while `due`: its lease is over, or a request to end it
is being served. A fault may set it adrift, after which nothing is promised of it. `CustodyOf` computes the stage from
the row, the credential at the backend and the jobs; `"hollow"` (a row for a credential that is gone, with nobody about to close it) and `"lost"` (a
credential that no row stands for) are no stages of `Custody`, so no step may reach them.

### Vault

`secret`, `archive` and `config` are the three tables with the label of the key that
wraps each row. `kek` is per process, `configKey` the server's; `env` is what the
environment variable would give a process that started now. Between `RotateKEK` and
`RotateConfigKey` the server does nothing else (there is no await), but other processes do,
and it may crash. `VersionedStore` knows a numbered history per path, which grows by one version at a
time and is removed whole; `history`, what `listVersions` and the two reads show, maps the two tables to it, and
wrapping keys, rotations and restarts are invisible there. A rotation's key may be a new one or an earlier one. `stale` marks rows
written by a process whose key was not the store's.

### AppRoles

Lifetimes are stored as what is left of them, so `Tick` needs no clock bound and
liveness is meaningful. A JWT carries the policies signed into it and, as history, the
secret_id that led to it. `call` is what `login`, an exchange, or `PUT` read before
their awaits. Onboarding and rotation links are one table with a `kind`; they differ in
revocation, clean-up and whether an exchange also signs a JWT.

`Lockout` adds `calm[r]`: the ticks, up to a JWT's lifetime, since the role's standing (there or not, suspended or not,
policies) last changed and since the end of the last login or exchange that had read another. `StandingTakesHold`
compares it with the age of each JWT. It is the bound behind the two liveness properties: not only do a suspension and a change
of policies take hold at some time, they do so within one lifetime.

### Users

A request enters past the limiter (`Enter`, `SsoCallback`) or past the session check (`Begin`),
proceeds by reading a row (`Proceed`) and ends with its write (`Resume`). TOTP secrets and
sets of recovery codes are numbered as they are drawn. `Patched` is an `UPDATE ... WHERE
username = ?`, which does nothing if the row is gone; a username may be created again.
`verified`, `raced`, `used`, `overtaken` and `signedIn` are history. `DisabledOnlyDrain` says what is left of a disabled
user: logins that had read the row before, which only become fewer, and what they sign when they end. Passwords are a
choice between the right and the wrong one. The caller of user administration is left open, as
`requireAdmin` (`api/auth.ts:76`) looks only at a JWT's signature and policies.

### Proxy

A call is `"reading"` while its body is awaited, `"sent"` until the upstream's headers are there, then `"body"`; its
`door` is the route, the server's tool or the tool of `mcp-stdio`. Everything between two awaits is one action: `HttpForward` and
`McpForward` pass the checks, ask the limiter and start the request; `Headers` clears the timer and counts; `BodyRead` writes the audit row and
hands the result out. Only the server builds its handlers with a limiter, so a call of `mcp-stdio` meets no limit and is
not counted. The approval gate of the forwarding step is `Leases!ProxyGate` for the first two doors; the third has none (`Leases!StdioProxy`).

Every write after the upstream call can fail, as another process may hold the database, and the order of what came before
matters. `Reported` is the catch block when its audit row is written: it tells the limiter next, a second time if the headers had been there, and over
HTTP it then looks up suggestions, which can throw again. `Unreported` is the catch block whose row is refused: the limiter is never told. A call
of the route whose look-up fails after its success row (`LookupFails`) gets a second row and a second count. `answer` is history: what the last
step told its caller, with the rows and counts its call left; `lost` is history too: the calls of a window that ended uncounted.

A bucket is a role and axis or a secret and
minute; its counter restarts when it is next looked at in a new window. What policies, allowlists and the private-network
guard decide is `Reject`, possible in any state. `sent` is history,
in windows like the counters'. A restart of the server loses calls and counters. The text of an answer, and what the scrubber takes out of
it, are not modelled: that is a matter of strings, of their encodings and of the order of parsing and replacing.

### Policies

`row` is the table, `map` the server's `PolicyEngine.policies`, `stdio` that of a `mcp-stdio` process, which is built without the
database. `file` is a set of pairs, so that several files may declare one name, in which case the directory's order, any
choice here, decides. `Import` is `importFromYaml` with its two passes and skipped failures: any subset of the
names without a row comes in. `SaveStart` and `SaveFinish` are the halves of `POST` and `PUT` around their body.

### Patterns

A row is known by its secret and its shape (a method and URL template, taken as given). `ForwardHttp` is a call its upstream answered: it records and
then answers in one step, as there is no await in between; `written` is the part of the call's secrets the loop reached before an error, which the handler
swallows, and a look-up of suggestions that fails turns the answer into that of a lost call. `LoseHttp` is the catch block, which records nothing and
offers patterns all the same. `ForwardMcp` is `gatehouse_proxy`, which does neither. `heard` is history, the calls recorded in each row; `answer` is what the last
call was told, numbered 0 and 1 in turn so that two equal answers are two steps. `Surer` and `Proven` compare confidences as
fractions.

## Runs

| run | instance | shows |
|---|---|---|
| `leases` | 1 identity, 2 paths, 2 ids, ttl 1 or 2, horizon 2; 754k states | `ReleaseApproved`, `ImplementsWindow` |
| `leases_live` | 1 identity, 1 path, 2 ids, the server and 1 stdio process, fair reaper; 524k | `RequestDedup`, `NoOrphanLease`, `GateNeedsApproval`, `WindowHolds`, and that requests and lapsed windows are settled |
| `dynamic` | 2 leases, 2 backends, 1 request, 2 reapers, 1 rotation, 1 crash; 3.3M | `NothingLost`, `ImplementsCustody`, `ReaperSparesActive` |
| `dynamic_live` | 2 leases, 1 backend, 1 request, 1 reaper, 1 rotation, 1 crash; 192k | expired leases are revoked, as far as they are readable |
| `dynamic_rotate` | 1 lease | **violated**: a rotation makes leases irrevocable |
| `vault` | 1 path, 1 config, 2 values, 2 metadata, server and 1 stdio process, 3 versions, 3 keys; 425k | `ImplementsStore`, `OneWrappingKey`, `ConfigsFollowKey` |
| `approles` | 1 role, 2 policies, 1 link, 2 handlers, JWT of 2 ticks; 382k | `SingleUse`, `StandingTakesHold`, `LockoutTakesHold`, `PolicyTakesHold` |
| `users` | 1 user, 1 address, 1 SSO state, 2 requests; 2.8M | `ActiveWasVerified`, `ConsumedUnlessOvertaken`, `FailuresBounded`, `SsoOnce`, `DisabledOnlyDrain` |
| `users_recovery` | 2 codes | **violated**: a recovery code logs in twice |
| `proxy` | 2 calls by 3 doors, 1 role, 1 secret, a limit of 1, 2 windows, 2 ceilings; 3.6M | `Covered`, `Throttled`, `Accounted`, `CacheCoherent` |
| `policies` | 2 stored names and admin, 2 rules, 2 callers, every set of files; 76k | `MapFollowsRows`, `ImportOnlyAdds` |
| `patterns` | 2 agents, 2 secrets, window of 3, 4 calls a row; 814k | `Tallied`, `FailingIsDropped` |

A violated run checks one sentence of the documentation or of a comment; the finding in
`PROJECT.json` quotes it and says what the code does instead. Neither is an
artefact of a bound: each counterexample is a short sequence that any larger instance contains too.

**More statements that do not hold.** The modules state further sentences of the repository that the code does not keep,
each marked `Violated` or listed at the module's end. Their configurations are not among the runs of `PROJECT.json`: they are started by hand
(`tlc -config MCLeasesDedup.cfg MCLeases`), and each ends with the counterexample described:

| configuration | the sentence | what the code does |
|---|---|---|
| `MCLeasesDedup` | "Re-requests for the same (identity, path) are deduplicated to the same lease_id" (`mcp/server.ts:265`) | the server and an `mcp-stdio` process both find no request and both insert (`lease/manager.ts:204`, `:218`) |
| `MCLeasesStdio` | agents "must call `gatehouse_request_access(...)` and wait for a human approval before `gatehouse_proxy` or `gatehouse_lease` will succeed" (`CHANGELOG.md:184`) | `gatehouse_proxy` of `mcp-stdio` has no limiter and skips the gate with it (`mcp/server.ts:652`) |
| `MCDynamicLeasesDelete` | "Revokes all active leases for this path first" (`api/dynamic.ts:354`) | `deleteConfig` lists the leases, awaits their revocations and deletes every row of the path; a checkout that finished meanwhile is dropped unrevoked (`dynamic/manager.ts:293`) |
| `MCVaultAtomic` | "re-wrapped atomically" (`docs/integrations.md:687`) | two transactions; a crash between them leaves two keys (`index.ts:405`) |
| `MCAppRolesRotation` | "rotate the secret_id ... to invalidate any in-flight JWTs at next refresh" (`auth/middleware.ts:38`) | refresh does not look at the secret_id (`api/auth.ts:482`) |
| `MCProxyCounted` | "Count this call" (`api/proxy.ts:636`), "calls in the last" (`limiter.ts:84`) | a call whose body cannot be read is counted before the read and again in the catch block (`api/proxy.ts:640`, `:749`) |
| `MCProxySetting` | "Changes take effect on the next proxy request, no restart needed" (`web-ui.mdx:64`) | a `mcp-stdio` process keeps what it cached (`settings/proxyLimits.ts:83`) |
| `MCProxyLimits` | "Missing-field semantics are "leave unchanged"" (`api/auth.ts:687`) | an update that names one limit clears the others (`api/auth.ts:695`) |
| `MCPoliciesReload` | "Use **Reload** to pick up YAML changes" (`web-ui.mdx:30`) | a file whose name has a row is not read (`policy/engine.ts:73`) |
| `MCPoliciesDelete` | "This cannot be undone." (`ui/index.html:4901`) | the next import brings a deleted policy back from its file (`policy/engine.ts:219`) |
| `MCPoliciesStdio` | "DB-backed policies merge with the YAML ones" (`concepts.mdx:78`) | a `mcp-stdio` process has the files alone (`mcp-stdio.ts:29`) |
| `MCPatternsPinned` | "pin patterns (to prevent deletion)" (`web-ui.mdx:50`) | deletion does not look at the pin (`patterns/engine.ts:331`) |
| `MCPatternsAgents` | "the list of agents that have verified it" (`web-ui.mdx:50`) | agents whose calls failed are in it (`patterns/engine.ts:175`) |
| `MCPatternsTop` | "preview of the highest-confidence pattern" (`agent-api-reference.md:195`) | a pinned one goes first (`patterns/engine.ts:304`) |
| `MCPatternsFailures` | "Failed proxy calls include pattern suggestions automatically" (`mcp/server.ts:196`) | `gatehouse_proxy` never does (`mcp/server.ts:847`) |

**Bounds.** Two of a kind are what the hazards need: two ids to have a duplicate or a second window,
two handlers to overlap, two reapers to hold stale lists, two backends to redirect a config,
two policies or values to tell an old one from a new one, three versions so that
a history has a gap to have, three keys so that a rotation can be followed by another and by a restart with
either. One path suffices where paths do not interact (Vault, DynamicLeases); the proxy gate works on
several and `leases` has two. The runs of Leases have one identity: the doors and the second process
took the states that a second one needs; callers who get in each other's way are left to the proofs, which have any number, of processes too. A time to live of 2 lets a second row be written with a later
deadline, and a JWT of 2 ticks be refreshed at half its life. `Horizon`, `MaxRotations`,
`MaxCrashes`, `MaxVersion`, `MaxKey`, `MaxSecret`, `MaxDraw`, `MaxSent`, `MaxLost` and `MaxCalls` are guards on what is
drawn or scheduled, never on what is checked. Where ids or the clock run out the model may stop, and its
configuration says `CHECK_DEADLOCK FALSE`; the others check for deadlock. In `users`
two sets of codes hold one code each, which keeps every way a list can be restored or replaced;
`users_recovery` takes one set of two, so that one login can undo another's.
In `proxy` a window is one tick and `Horizon` 1, so that windows roll over under a call; `MaxSent` 3 is one more than a limit of
1 allows two parallel calls, so that a larger overshoot would be seen, and `MaxLost` 1 lets one call of a window go uncounted, so that the bound's
own allowance is used. Counters of different buckets never meet, so one axis
does; the proofs have any. A due timer is taken to run before the clock moves on. The run's `VIEW`, `Seen`, shows a counter by what it
counts in the current window: a counter of an earlier one is 0 to every reader and is never current again, as the clock only goes on, so states
that differ in its remains have the same steps up to those remains, and no property looks at them but `TypeOK`. In `patterns` a row takes one call more than its
window holds, so that the window slides; a window of 3 is the least whose half is more than one call; what it offers depends on one row at a time, and
one shape per secret is enough to tell "before the call" from "after" it. In `policies` nothing is bounded.

**Symmetry** is over ids, values or requests and only in runs without liveness.

**Fairness.** `ReapExpired`: `setInterval` starts it again and again. `Tick`: time passes.
`Progress` and `Resume`: the event loop resumes every continuation, and a provider answers or
its driver times out (either outcome is allowed). All of it is weak fairness, of actions that stay enabled until
taken. Requests, approvals and administration are never assumed to happen. The properties under
it are `RequestsSettle` and `LapsedAreRevoked` (Leases), `LapsedAreRevoked` (DynamicLeases),
`LockoutTakesHold` and `PolicyTakesHold` (AppRoles). The two of Leases are proved as well.

## Proofs

Every theorem holds for any sets and bounds that satisfy the module's `ConstantsOK`: time to live and
limits are positive, `None` is not one of the values it stands in for, and concurrent requests of
`Users` and calls of `Proxy` are finitely many, since they are counted.

- **Leases.** `TypeCorrect`, `NoOrphans`, `Deduplicated` (any number of processes; `DedupInv` adds to `RequestDedup` that
  a process between its query and its insert has no live request of its own for what it asks, which holds although
  others may insert meanwhile), `GateHolds` (needs `OpenIsRecorded`: a
  path ungated now, or found ungated by a checkout still to be stored, is in `everOpen`), and `WindowsHold`, an action property, by cases on the actions.
  `ReleasesApproved` is about the moment of a release by the gate: each gated secret of the call has a window among those it went
  through, each of these is open in that very step and the caller's own, and a secret that was always gated has only windows that somebody approved. It says
  nothing of the doors that have no gate.
- **Leases, liveness.** The prover knows no ENABLED, so the theorems take fairness as `ReaperRuns` (whenever
  `ReaperHasWork`, that is some row is `Overdue`, stays true, a reaper step that changes something comes) and
  `ClockRuns` (the clock arrives at `Horizon`). The first is `WF_vars(ReapExpired)` with its guard written out: a reaper with an overdue row
  changes that row. The second is what `WF_vars(Tick)` comes to, for a tick that only `Horizon` holds up; it is assumed
  because the induction over the ticks left would need a theorem with an operator parameter. `LapsedAreEnded` needs only the first:
  a row that outlived its ttl keeps the reaper supplied with work, and `ReaperSweeps` says one run leaves no such row.
  `RequestsAreSettled` needs both, and `RequestsBounded`: a pending request's deadline is within the horizon.
- **Leases implements AccessWindow.** `WindowImplemented`: the initial phases are `"none"`, and every step is a
  step of the abstract module or a stutter, for the phases computed before and after. `RowShape` is what this needs of
  rows beyond their type. A release by another door is a `Bypass` of the abstract module,
  which promises nothing of it but that it moves no phase. `Tick` closes a set of windows at once, which is why `Close` takes a set.
- **DynamicLeases.** `TypeInv` adds to the types what a job's fields say of each other. `NothingLost` and
  `LeaseIsBacked` are proved together as `SoundInv`: for each lease, how its row, its credential and the jobs at it
  agree. The conjunct that carries the argument is that a job that has its provider's answer finds the
  credential gone or the lease in `fault`, so marking the row loses nothing.
  `CustodyImplemented` is the refinement: it uses `SoundInv` for what each stage of `CustodyOf` looks like, and one lemma per
  step for the stage it moves. The case to watch is a second reaper that holds an outdated list: its provider is asked again for
  a credential that is gone, and `MarkRevoked` of either job must find the stage `"released"` or be a stutter.
  `ActiveAreSpared` rests on `Spared`: the reaper holds only rows that lapsed, and a lapsed row's deadline no longer moves.
- **Vault.** `HistoryIsComplete` and `OneKeyWraps` are inductive; `HistoryIsKept` follows from completeness (the
  version `INSERT OR IGNORE` writes was free); `ConfigsFollow` is a case split on the actions.
- **Vault implements VersionedStore.** `StoreImplemented`: completeness says which versions can be seen (`Seen`), so that the version a
  write takes is the next one there; `WriteAdds` shows that archiving the current row and replacing it changes that
  version and no other as readers see them.
- **AppRoles.** `LinksAreSingleUse` needs `References` (a live link and a call in progress name a stored role) and
  `SpentLinks` (a link that gave out a secret_id, or was cancelled, is consumed or gone).
  `StandingPrevails` is about `LSpec`, whose steps are those of `AppRoles` (`HistoryWatches`). `HandlersSign` says that a handler
  signs either by the row as it is or by what it had read; if that is another standing, the role is `Outdated` and its `calm` starts again
  from 0, where the claim holds of a JWT of any age. A tick ages every JWT by what it adds to `calm`.
- **Users.** Each theorem has an invariant of its own on top of `TypeOK` and `References` (a request at a stage has
  the address, user or state that stage needs). `Activation`: a secret being verified was shown a code for.
  `Recovery`: codes in a row were drawn, and are disjoint from the used ones on accounts where no login
  wrote back an outdated list. `Limited`: the count of an open window plus the requests in flight from the
  address is at most `MaxFailed + Cardinality(Call)`, which a failure leaves equal and an entry below the
  limit keeps. `OneCallback`: the callback that holds a state is alone and the state is gone.
  `DisabledIsDrained` goes through the actions: only the end of a login signs for a user whose row is not read again, and it takes that
  login out of `Signing`; time only shortens what is left of a token.
- **Proxy.** `CoverInv` strengthens `Covered`: no window is ahead of the clock, so that a reset counter is that of the
  current window, and calls of the stdio process are charged to no bucket, so that its restart forgets none. `Throttled` follows: a
  call is forwarded with the counter below the limit, and what the counter lacks is in flight, at most `Cardinality(Call) - 1` others, or in `lost`.
  `RateBounded` sums it up for a limit that is left alone, as an invariant: within a window by `CoverStep`, and a new window has seen nothing.
  `Accounted` and `CacheCoherent` are one invariant, `CallInv`: what the rows and counts of a call in progress are at each stage, and that the
  last answer balances; each step that answers is one lemma away (`AnswerBalanced`).
- **Policies.** `SeededRows` says what an import leaves: rows that were there, and new ones under names that `Fresh` had, which never
  contains a stored name or `admin`. `MapFollows` and `ImportAdds` follow from it; the case to watch is an import whose first pass
  inserts nothing.
- **Patterns.** `TableOK` states `TypeOK` and `Tallied` key by key, which makes a recording in several rows one argument
  about one row (`UpdatedTally`: sliding the window keeps it the end of the history). `FailingDropped` joins the two sides of a row: what is offered is
  proven in its window, a window of which more than half worked has a success among its last half (`ProvenLately`, by counting), and by `Tallied` the window is the end of
  the row's history. It needs that an offer is computed from the table after recording.

The proof modules first sort the actions by what they change (`QuietAccounts`, `QuietLimiter`, ...), so that each invariant is
argued only for the steps that can disturb it.

Only model-checked: `LapsedAreRevoked` of DynamicLeases and `LockoutTakesHold`, `PolicyTakesHold` of AppRoles. Each needs that
finitely many calls in progress all end, or that a queue is worked off: an induction over data under a temporal operator, which no
installed prover can instantiate. Of the last two the part that is safety, how late a change takes hold, is `StandingTakesHold` and proved;
what is left to TLC is that handlers end and time passes.

## Not modelled

- Cryptography, TOTP arithmetic, JWT encoding: a row is labelled with its key, a code is right or
  wrong, a token says who and how long.
- What providers send to their backends; `revoke` is taken to affect the named credential at
  the backend it is pointed to.
- The migration of plaintext dynamic configurations at start-up (`dynamic/manager.ts:118`), last_accessed_at,
  audit rows, events, webhooks, pages: nothing here depends on them.
- SSO settings, the linking of identities, display names, e-mail and password columns of `users`.
- What a policy's glob matches and how legacy rules are normalised; what the proxy's allowlists and the private-network guard decide;
  header and template substitution; URL templates and body schemas of patterns. They are functions of strings: the models take their
  result as given, or leave it open.
- CIDR matching, the scrubber's substitution and the SSRF classifier, for the same reason: a model over short
  strings would repeat the code. So nothing here says what an answer of the proxy repeats of the secrets injected: `scrubResponseBody`
  (`security/ssrf.ts:199`) replaces the raw and base64 texts of values of 8 characters or more, in the body before it is parsed, and the message of the catch
  block (`api/proxy.ts:735`) does not pass through it.
- A `SELECT` that fails in the middle of `loadFromDb` (`policy/engine.ts:115`), after the map was cleared; the writes of policies that
  fail are modelled.
- How long an upstream takes with its body, which nothing bounds (`api/proxy.ts:616`).
- Clean-up of used links that only bounds a table (`index.ts:80`), and bulk imports, which are loops of `Put`.

## Plan

Done, in this order because a lost or leaked credential is the worst the server can do: `AccessWindow` and `Leases`,
`Custody` and `DynamicLeases`, `Vault` with `VersionedStore`, `AppRoles`, `Users`, then what is decided for every call: `Proxy`, `Policies`,
`Patterns`; each with its runs and theorems.

Next:

1. `Identities`, composing `AppRoles` with `Leases`: requests are keyed by display name, so renaming a role and
   deleting it leaves requests behind (`api/auth.ts:785`).
2. A theorem that `DynamicLeases`' reaper works off its list, for as much of `LapsedAreRevoked` as needs no induction.
3. Two axes of different length for a role in `Proxy`'s run, if its states can be made fewer; the proofs cover them.
4. CIDR matching on narrow addresses against a reference definition.
