--------------------------------- MODULE Vault ---------------------------------
(***************************************************************************)
(* The vault: the rows SecretsEngine keeps in `secrets` and                *)
(* `secret_versions`, the master key that wraps them and the dynamic       *)
(* configs, and the key rotation ceremony.                                 *)
(*                                                                         *)
(* Several processes open the database: the server and any number of       *)
(* mcp-stdio processes, each with the key it read at its start.  Every     *)
(* engine call is one SQLite transaction, so it is one action.  The        *)
(* rotate-key handler is two transactions, between which the other         *)
(* processes may run and the server may crash.                             *)
(***************************************************************************)
EXTENDS Naturals

CONSTANTS
    Path,           \* paths of static secrets
    DynPath,        \* paths of dynamic secret configs
    Value,          \* secret values
    Metadata,       \* metadata objects
    Stdio,          \* mcp-stdio processes
    MaxVersion,     \* bound on the versions of a secret
    MaxKey,         \* bound on the master keys the operator generates
    None            \* no row, key or rotation

Process == {"server"} \cup Stdio

\* The master key the deployment starts with is 0, the others are new ones.
Key == 0..MaxKey
Version == 1..MaxVersion

\* `stale` is history: the DEK was wrapped by a process whose key was not
\* the one the last rotation had wrapped the store with.
Row == [version : Version, value : Value, meta : Metadata, key : Key, stale : BOOLEAN]

ASSUME ConstantsOK ==
    /\ MaxVersion \in Nat
    /\ MaxKey \in Nat
    /\ "server" \notin Stdio
    /\ None \notin Nat
    /\ None \notin Row \cup (Value \X Metadata)

VARIABLES
    secret,         \* the current row of each path, or None
    archive,        \* secret_versions: archive[p][n] is version n of p, or None
    config,         \* the key that encrypts each row of dynamic_secrets, or None
    kek,            \* the key each process wraps DEKs with
    configKey,      \* the key the server encrypts configs with
    rotating,       \* the new key between the two transactions of rotate-key
    env,            \* GATEHOUSE_MASTER_KEY as a process would read it now
    newest,         \* keys generated so far
    storeKey        \* history: the key of the last committed rotation

vars == <<secret, archive, config, kek, configKey, rotating, env, newest, storeKey>>

Init ==
    /\ secret = [p \in Path |-> None]
    /\ archive = [p \in Path |-> [n \in Version |-> None]]
    /\ config = [d \in DynPath |-> None]
    /\ kek = [x \in Process |-> 0]
    /\ configKey = 0
    /\ rotating = None
    /\ env = 0
    /\ newest = 0
    /\ storeKey = 0

-------------------------------------------------------------------------------
(* SecretsEngine.                                                          *)

\* The server does nothing else between the two halves of a rotation.
Free(x) == x = "server" => rotating = None

\* Mutant: versions count from 0.
NextVersion_Zero(p) == IF secret[p] = None THEN 0 ELSE secret[p].version + 1

NextVersion(p) == IF secret[p] = None THEN 1 ELSE secret[p].version + 1

\* INSERT OR IGNORE INTO secret_versions: a version already there stays.
Archived(p) ==
    IF secret[p] = None \/ archive[p][secret[p].version] # None
    THEN archive[p]
    ELSE [archive[p] EXCEPT ![secret[p].version] = secret[p]]

Put(x, p, value, meta) ==
    /\ Free(x)
    /\ NextVersion(p) <= MaxVersion
    /\ secret' = [secret EXCEPT ![p] =
            [version |-> NextVersion(p), value |-> value, meta |-> meta,
             key |-> kek[x], stale |-> kek[x] # storeKey]]
    /\ archive' = [archive EXCEPT ![p] = Archived(p)]
    /\ UNCHANGED <<config, kek, configKey, rotating, env, newest, storeKey>>

\* Mutant: the metadata is edited in place.
SetMetadata_InPlace(p, meta) ==
    /\ Free("server")
    /\ secret[p] # None
    /\ secret' = [secret EXCEPT ![p].meta = meta]
    /\ UNCHANGED <<archive, config, kek, configKey, rotating, env, newest, storeKey>>

\* The value and its wrapped DEK are kept, under whatever key they are.
SetMetadata(p, meta) ==
    /\ Free("server")
    /\ secret[p] # None
    /\ NextVersion(p) <= MaxVersion
    /\ secret' = [secret EXCEPT ![p].meta = meta, ![p].version = NextVersion(p)]
    /\ archive' = [archive EXCEPT ![p] = Archived(p)]
    /\ UNCHANGED <<config, kek, configKey, rotating, env, newest, storeKey>>

\* getVersion, which throws on a DEK under another key, then put.
Rollback(p, n) ==
    /\ archive[p][n] # None
    /\ archive[p][n].key = kek["server"]
    /\ Put("server", p, archive[p][n].value, archive[p][n].meta)

Delete(p) ==
    /\ Free("server")
    /\ secret[p] # None
    /\ secret' = [secret EXCEPT ![p] = None]
    /\ archive' = [archive EXCEPT ![p] = [n \in Version |-> None]]
    /\ UNCHANGED <<config, kek, configKey, rotating, env, newest, storeKey>>

-------------------------------------------------------------------------------
(* Dynamic configs, as far as the key goes.                                *)

SaveConfig(d) ==
    /\ Free("server")
    /\ config' = [config EXCEPT ![d] = configKey]
    /\ UNCHANGED <<secret, archive, kek, configKey, rotating, env, newest, storeKey>>

DeleteConfig(d) ==
    /\ Free("server")
    /\ config[d] # None
    /\ config' = [config EXCEPT ![d] = None]
    /\ UNCHANGED <<secret, archive, kek, configKey, rotating, env, newest, storeKey>>

-------------------------------------------------------------------------------
(* The key rotation ceremony.                                              *)

Rewrapped(row, key) ==
    IF row = None THEN None ELSE [row EXCEPT !.key = key, !.stale = FALSE]

\* A row the server cannot unwrap aborts the whole transaction.
AllUnwrap ==
    /\ \A p \in Path : secret[p] # None => secret[p].key = kek["server"]
    /\ \A p \in Path, n \in Version :
          archive[p][n] # None => archive[p][n].key = kek["server"]

\* Mutant: archived versions are not re-wrapped.
RotateKEK_CurrentOnly(key) ==
    /\ rotating = None
    /\ key <= newest + 1
    /\ AllUnwrap
    /\ secret' = [p \in Path |-> Rewrapped(secret[p], key)]
    /\ kek' = [kek EXCEPT !["server"] = key]
    /\ rotating' = key
    /\ newest' = IF key > newest THEN key ELSE newest
    /\ storeKey' = key
    /\ UNCHANGED <<archive, config, configKey, env>>

\* First transaction: every current and archived DEK.  The key is a new one,
\* or one of an earlier rotation when the operator tries again or goes back.
RotateKEK(key) ==
    /\ rotating = None
    /\ key <= newest + 1
    /\ AllUnwrap
    /\ secret' = [p \in Path |-> Rewrapped(secret[p], key)]
    /\ archive' = [p \in Path |-> [n \in Version |-> Rewrapped(archive[p][n], key)]]
    /\ kek' = [kek EXCEPT !["server"] = key]
    /\ rotating' = key
    /\ newest' = IF key > newest THEN key ELSE newest
    /\ storeKey' = key
    /\ UNCHANGED <<config, configKey, env>>

ConfigsDecrypt == \A d \in DynPath : config[d] \in {None, configKey}

\* Mutant: the key in memory is left behind.
RotateConfigKey_OldKey ==
    /\ rotating # None
    /\ ConfigsDecrypt
    /\ config' = [d \in DynPath |-> IF config[d] = None THEN None ELSE rotating]
    /\ rotating' = None
    /\ UNCHANGED <<secret, archive, kek, configKey, env, newest, storeKey>>

\* Second transaction: every dynamic config.
RotateConfigKey ==
    /\ rotating # None
    /\ ConfigsDecrypt
    /\ config' = [d \in DynPath |-> IF config[d] = None THEN None ELSE rotating]
    /\ configKey' = rotating
    /\ rotating' = None
    /\ UNCHANGED <<secret, archive, kek, env, newest, storeKey>>

\* A config that does not decrypt: the handler answers "Rotation failed",
\* the secrets stay rotated.
RotateConfigKeyFails ==
    /\ rotating # None
    /\ ~ConfigsDecrypt
    /\ rotating' = None
    /\ UNCHANGED <<secret, archive, config, kek, configKey, env, newest, storeKey>>

\* "Update GATEHOUSE_MASTER_KEY env var to the new key before restarting": the
\* operator sets it to any key there has been.
UpdateEnv(key) ==
    /\ key <= newest
    /\ env' = key
    /\ UNCHANGED <<secret, archive, config, kek, configKey, rotating, newest, storeKey>>

\* The process ends, in the middle of a rotation or not, and a new one reads
\* the environment.  Nothing compares its key with the store.
Restart(x) ==
    /\ kek' = [kek EXCEPT ![x] = env]
    /\ IF x = "server"
       THEN configKey' = env /\ rotating' = None
       ELSE UNCHANGED <<configKey, rotating>>
    /\ UNCHANGED <<secret, archive, config, env, newest, storeKey>>

-------------------------------------------------------------------------------
Writes == \E p \in Path :
    \/ \E x \in Process, value \in Value, meta \in Metadata : Put(x, p, value, meta)
    \/ \E meta \in Metadata : SetMetadata(p, meta)
    \/ \E n \in Version : Rollback(p, n)
    \/ Delete(p)

Configs == \E d \in DynPath : SaveConfig(d) \/ DeleteConfig(d)

Rotation ==
    \/ \E key \in Key : RotateKEK(key) \/ UpdateEnv(key)
    \/ RotateConfigKey
    \/ RotateConfigKeyFails

Next == Writes \/ Configs \/ Rotation \/ \E x \in Process : Restart(x)

Spec == Init /\ [][Next]_vars

-------------------------------------------------------------------------------
(* Properties.                                                             *)

\* Rows, keys and the rotation in progress have the shape the code gives them.
TypeOK ==
    /\ secret \in [Path -> Row \cup {None}]
    /\ archive \in [Path -> [Version -> Row \cup {None}]]
    /\ config \in [DynPath -> Key \cup {None}]
    /\ kek \in [Process -> Key]
    /\ configKey \in Key
    /\ rotating \in Key \cup {None}
    /\ env \in Key
    /\ newest \in Key
    /\ storeKey \in Key

\* The version history of a secret has no gap and nothing left over from an
\* earlier secret at the same path: versions 1 to n-1 are archived when n is
\* current, whoever wrote them, and nothing is archived without a secret.
HistoryComplete ==
    \A p \in Path, n \in Version :
        /\ archive[p][n] # None <=> secret[p] # None /\ n < secret[p].version
        /\ archive[p][n] # None => archive[p][n].version = n

Contents(p) ==
    {<<row.version, row.value, row.meta>> :
        row \in ({secret[p]} \cup {archive[p][n] : n \in Version}) \ {None}}

\* As long as a secret exists no write loses what it held: every version
\* stays readable with the value and the metadata it had, through concurrent
\* puts of two processes, metadata edits, rollbacks and rotations.
HistoryKept ==
    [][\A p \in Path :
          secret[p] # None /\ secret'[p] # None => Contents(p) \subseteq Contents(p)']_vars

\* What a row holds for its readers, and a path's versions, current or archived.
Shown(row) == IF row = None THEN None ELSE <<row.value, row.meta>>

history ==
    [p \in Path |-> [n \in Version |->
        IF secret[p] # None /\ secret[p].version = n
        THEN Shown(secret[p])
        ELSE Shown(archive[p][n])]]

\* The two tables together are a versioned store: two processes that put, edit
\* metadata and roll back add one version at a time to a history that is
\* otherwise left alone (engine.ts:44), a deletion removes it whole, and no
\* rotation, half of one, failure or restart shows.
Store == INSTANCE VersionedStore WITH history <- history, Entry <- Value \X Metadata
ImplementsStore == Store!Spec

\* rotateKEK is all or nothing: outside a stale process's own writes, every
\* current and archived DEK is under the key of the last committed rotation,
\* also when a rotation aborts, or the server crashes around it.
OneWrappingKey ==
    /\ \A p \in Path : secret[p] # None => secret[p].key = storeKey \/ secret[p].stale
    /\ \A p \in Path, n \in Version :
          archive[p][n] # None => archive[p][n].key = storeKey \/ archive[p][n].stale

\* A server that never restarted can decrypt every dynamic config: the key
\* in memory follows the table through each rotation, and after a failed one
\* neither has moved.  Only a restart with another key breaks this.
ConfigsFollowKey ==
    [][ConfigsDecrypt => ConfigsDecrypt' \/ \E x \in Process : Restart(x)]_vars

\* "All secret DEKs and encrypted dynamic configs are re-wrapped atomically"
\* (docs/integrations.md:687): no rotation ends, in success, failure or a
\* crash, with the secrets under the new key and a config under another.
RotatedTogether ==
    [][rotating # None /\ rotating' = None
          => \A d \in DynPath : config'[d] \in {None, storeKey}]_vars
=============================================================================
