------------------------------ MODULE Vault_proofs ------------------------------
(***************************************************************************)
(* Proofs about Vault, for every set of paths, values, metadata objects    *)
(* and processes, and every bound on versions and keys.                    *)
(***************************************************************************)
EXTENDS Vault, TLAPS

\* Re-wrapping a row changes its key and nothing a reader would see.
LEMMA RewrappedOK ==
    ASSUME NEW row \in Row \cup {None}, NEW key \in Key
    PROVE  /\ Rewrapped(row, key) \in Row \cup {None}
           /\ Rewrapped(row, key) = None <=> row = None
           /\ row # None => /\ Rewrapped(row, key).key = key
                            /\ Rewrapped(row, key).version = row.version
                            /\ Rewrapped(row, key).value = row.value
                            /\ Rewrapped(row, key).meta = row.meta
<1>1. CASE row = None
  BY <1>1 DEF Rewrapped
<1>2. CASE row # None
  <2>1. row \in Row
    BY <1>2
  <2>2. Rewrapped(row, key) = [row EXCEPT !.key = key, !.stale = FALSE]
    BY <1>2 DEF Rewrapped
  <2>3. /\ Rewrapped(row, key) \in Row
        /\ Rewrapped(row, key).key = key
        /\ Rewrapped(row, key).version = row.version
        /\ Rewrapped(row, key).value = row.value
        /\ Rewrapped(row, key).meta = row.meta
    BY <2>1, <2>2 DEF Row
  <2> QED
    BY <1>2, <2>3, ConstantsOK
<1> QED
  BY <1>1, <1>2

\* The version a write gives a secret is one more than the row had.
LEMMA NextVersionOK ==
    ASSUME TypeOK, NEW p \in Path, NextVersion(p) <= MaxVersion
    PROVE  /\ NextVersion(p) \in Version
           /\ secret[p] # None => /\ secret[p] \in Row
                                  /\ secret[p].version \in Version
                                  /\ NextVersion(p) = secret[p].version + 1
<1>1. CASE secret[p] = None
  BY <1>1, ConstantsOK DEF NextVersion, Version
<1>2. CASE secret[p] # None
  <2>1. secret[p] \in Row
    BY <1>2 DEF TypeOK
  <2>2. secret[p].version \in Version
    BY <2>1 DEF Row
  <2> QED
    BY <1>2, <2>1, <2>2, ConstantsOK DEF NextVersion, Version
<1> QED
  BY <1>1, <1>2

LEMMA ArchivedOK ==
    ASSUME TypeOK, NEW p \in Path
    PROVE  Archived(p) \in [Version -> Row \cup {None}]
<1>1. archive[p] \in [Version -> Row \cup {None}] /\ secret[p] \in Row \cup {None}
  BY DEF TypeOK
<1> QED
  BY <1>1 DEF Archived

-------------------------------------------------------------------------------
(* Type correctness.                                                       *)

LEMMA TypeInit == Init => TypeOK
BY ConstantsOK DEF Init, TypeOK, Key, Version

\* What put does to the types, for its direct callers and for rollback.
LEMMA PutTypes ==
    ASSUME TypeOK, NEW x \in Process, NEW p \in Path, NEW value \in Value,
           NEW meta \in Metadata, Put(x, p, value, meta)
    PROVE  TypeOK'
<1> DEFINE row == [version |-> NextVersion(p), value |-> value, meta |-> meta,
                   key |-> kek[x], stale |-> kek[x] # storeKey]
<1>1. NextVersion(p) \in Version /\ kek[x] \in Key
  BY NextVersionOK DEF Put, TypeOK
<1>2. row \in Row
  BY <1>1 DEF Row
<1>3. secret' = [secret EXCEPT ![p] = row]
  BY DEF Put
<1>4. secret' \in [Path -> Row \cup {None}]
  BY <1>2, <1>3 DEF TypeOK
<1>5. archive' \in [Path -> [Version -> Row \cup {None}]]
  BY ArchivedOK DEF Put, TypeOK
<1> QED
  BY <1>4, <1>5 DEF Put, TypeOK

\* What a rollback puts is what an archived row holds.
LEMMA RollbackPuts ==
    ASSUME TypeOK, NEW p \in Path, NEW n \in Version, Rollback(p, n)
    PROVE  /\ archive[p][n] \in Row
           /\ archive[p][n].value \in Value
           /\ archive[p][n].meta \in Metadata
           /\ Put("server", p, archive[p][n].value, archive[p][n].meta)
<1>1. archive[p][n] \in Row
  BY DEF Rollback, TypeOK
<1>2. archive[p][n].value \in Value /\ archive[p][n].meta \in Metadata
  BY <1>1 DEF Row
<1> QED
  BY <1>1, <1>2 DEF Rollback

LEMMA SetMetadataTypes ==
    ASSUME TypeOK, NEW p \in Path, NEW meta \in Metadata, SetMetadata(p, meta)
    PROVE  TypeOK'
<1>1. secret[p] \in Row /\ NextVersion(p) \in Version
  BY NextVersionOK DEF SetMetadata
<1>2. secret' = [secret EXCEPT ![p] =
          [secret[p] EXCEPT !.meta = meta, !.version = NextVersion(p)]]
  BY DEF SetMetadata
<1>3. [secret[p] EXCEPT !.meta = meta, !.version = NextVersion(p)] \in Row
  BY <1>1 DEF Row
<1>4. secret' \in [Path -> Row \cup {None}]
  BY <1>2, <1>3 DEF TypeOK
<1>5. archive' \in [Path -> [Version -> Row \cup {None}]]
  BY ArchivedOK DEF SetMetadata, TypeOK
<1> QED
  BY <1>4, <1>5 DEF SetMetadata, TypeOK

LEMMA RotateKEKTypes ==
    ASSUME TypeOK, NEW key \in Key, RotateKEK(key)
    PROVE  TypeOK'
<1>1. \A p \in Path : Rewrapped(secret[p], key) \in Row \cup {None}
  BY RewrappedOK DEF TypeOK
<1>2. \A p \in Path, n \in Version : Rewrapped(archive[p][n], key) \in Row \cup {None}
  <2> TAKE p \in Path, n \in Version
  <2>1. archive[p][n] \in Row \cup {None}
    BY DEF TypeOK
  <2> QED
    BY <2>1, RewrappedOK
<1>3. secret' \in [Path -> Row \cup {None}]
  BY <1>1 DEF RotateKEK
<1>4. archive' \in [Path -> [Version -> Row \cup {None}]]
  BY <1>2 DEF RotateKEK
<1>5. kek' \in [Process -> Key] /\ newest' \in Key /\ rotating' \in Key /\ storeKey' \in Key
  BY DEF RotateKEK, TypeOK
<1> QED
  BY <1>3, <1>4, <1>5 DEF RotateKEK, TypeOK

LEMMA TypeStep == TypeOK /\ [Next]_vars => TypeOK'
<1> SUFFICES ASSUME TypeOK, [Next]_vars PROVE TypeOK'
  OBVIOUS
<1>1. ASSUME NEW x \in Process, NEW p \in Path, NEW value \in Value, NEW meta \in Metadata,
             Put(x, p, value, meta)
      PROVE  TypeOK'
  BY <1>1, PutTypes
<1>2. ASSUME NEW p \in Path, NEW meta \in Metadata, SetMetadata(p, meta) PROVE TypeOK'
  BY <1>2, SetMetadataTypes
<1>3. ASSUME NEW p \in Path, NEW n \in Version, Rollback(p, n) PROVE TypeOK'
  <2>1. "server" \in Process
    BY DEF Process
  <2> QED
    BY <1>3, <2>1, RollbackPuts, PutTypes
<1>4. ASSUME NEW p \in Path, Delete(p) PROVE TypeOK'
  BY <1>4 DEF TypeOK, Delete
<1>5. ASSUME NEW d \in DynPath, SaveConfig(d) PROVE TypeOK'
  BY <1>5 DEF TypeOK, SaveConfig
<1>6. ASSUME NEW d \in DynPath, DeleteConfig(d) PROVE TypeOK'
  BY <1>6 DEF TypeOK, DeleteConfig
<1>7. ASSUME NEW key \in Key, RotateKEK(key) PROVE TypeOK'
  BY <1>7, RotateKEKTypes
<1>8. CASE RotateConfigKey
  BY <1>8 DEF TypeOK, RotateConfigKey
<1>9. CASE RotateConfigKeyFails
  BY <1>9 DEF TypeOK, RotateConfigKeyFails
<1>10. ASSUME NEW key \in Key, UpdateEnv(key) PROVE TypeOK'
  BY <1>10 DEF TypeOK, UpdateEnv
<1>11. ASSUME NEW x \in Process, Restart(x) PROVE TypeOK'
  BY <1>11 DEF TypeOK, Restart
<1>12. CASE UNCHANGED vars
  BY <1>12 DEF TypeOK, vars
<1> QED
  BY <1>1, <1>2, <1>3, <1>4, <1>5, <1>6, <1>7, <1>8, <1>9, <1>10, <1>11, <1>12
     DEF Next, Writes, Configs, Rotation

\* Every row, key and rotation keeps the shape the tables and the two key
\* fields give it, through any interleaving of processes and restarts.
THEOREM TypeCorrect == Spec => []TypeOK
<1> QED
  BY TypeInit, TypeStep, PTL DEF Spec

-------------------------------------------------------------------------------
(* The version history.                                                    *)

\* What archiving the current row of p does to p's history, given that the
\* history was complete: the one new entry is the current row.
LEMMA ArchivedEntry ==
    ASSUME TypeOK, HistoryComplete, NEW p \in Path, NEW n \in Version
    PROVE  Archived(p)[n] =
              IF secret[p] # None /\ n = secret[p].version THEN secret[p] ELSE archive[p][n]
<1>1. CASE secret[p] = None
  BY <1>1 DEF Archived
<1>2. CASE secret[p] # None
  <2>1. secret[p].version \in Version
    BY <1>2 DEF TypeOK, Row
  <2>2. archive[p][secret[p].version] = None
    BY <1>2, <2>1, ConstantsOK DEF HistoryComplete, Version
  <2>3. Archived(p) = [archive[p] EXCEPT ![secret[p].version] = secret[p]]
    BY <1>2, <2>2 DEF Archived
  <2>4. archive[p] \in [Version -> Row \cup {None}]
    BY DEF TypeOK
  <2> QED
    BY <1>2, <2>1, <2>3, <2>4
<1> QED
  BY <1>1, <1>2

\* A write that archives the current row and gives the secret the next
\* version leaves a complete history.
LEMMA HistoryGrows ==
    ASSUME TypeOK, HistoryComplete, NEW p \in Path, NEW row \in Row,
           NextVersion(p) <= MaxVersion, row.version = NextVersion(p),
           secret' = [secret EXCEPT ![p] = row],
           archive' = [archive EXCEPT ![p] = Archived(p)]
    PROVE  HistoryComplete'
<1> SUFFICES ASSUME NEW q \in Path, NEW n \in Version
             PROVE  /\ archive'[q][n] # None <=> secret'[q] # None /\ n < secret'[q].version
                    /\ archive'[q][n] # None => archive'[q][n].version = n
  BY DEF HistoryComplete
<1>1. CASE q # p
  <2>1. secret'[q] = secret[q] /\ archive'[q] = archive[q]
    BY <1>1 DEF TypeOK
  <2> QED
    BY <2>1 DEF HistoryComplete
<1>2. CASE q = p
  <2>1. secret'[p] = row /\ archive'[p][n] = Archived(p)[n] /\ row # None
    BY ConstantsOK DEF TypeOK
  <2>2. archive[p][n] # None <=> secret[p] # None /\ n < secret[p].version
    BY DEF HistoryComplete
  <2>3. archive[p][n] # None => archive[p][n].version = n
    BY DEF HistoryComplete
  <2>4. CASE secret[p] = None
    <3>1. row.version = 1 /\ Archived(p)[n] = archive[p][n]
      BY <2>4, ArchivedEntry DEF NextVersion
    <3> QED
      BY <1>2, <2>1, <2>2, <2>4, <3>1, ConstantsOK DEF Version
  <2>5. CASE secret[p] # None
    <3>1. row.version = secret[p].version + 1 /\ secret[p].version \in Version
      BY <2>5, NextVersionOK
    <3>2. CASE n = secret[p].version
      <4>1. Archived(p)[n] = secret[p]
        BY <2>5, <3>2, ArchivedEntry
      <4> QED
        BY <1>2, <2>1, <2>5, <3>1, <3>2, <4>1, ConstantsOK DEF Version
    <3>3. CASE n # secret[p].version
      <4>1. Archived(p)[n] = archive[p][n]
        BY <3>3, ArchivedEntry
      <4> QED
        BY <1>2, <2>1, <2>2, <2>3, <2>5, <3>1, <3>3, <4>1, ConstantsOK DEF Version
    <3> QED
      BY <3>2, <3>3
  <2> QED
    BY <2>4, <2>5
<1> QED
  BY <1>1, <1>2

\* Every version of p a put, a metadata edit or a rollback finds is there
\* after it.
LEMMA ContentsGrow ==
    ASSUME TypeOK, HistoryComplete, NEW p \in Path, NEW row \in Row,
           secret' = [secret EXCEPT ![p] = row],
           archive' = [archive EXCEPT ![p] = Archived(p)],
           NEW q \in Path, secret[q] # None
    PROVE  Contents(q) \subseteq Contents(q)'
<1>1. CASE q # p
  <2>1. secret'[q] = secret[q] /\ archive'[q] = archive[q]
    BY <1>1 DEF TypeOK
  <2> QED
    BY <2>1 DEF Contents
<1>2. CASE q = p
  <2>1. archive'[p] = Archived(p)
    BY DEF TypeOK
  <2>2. secret[p].version \in Version
    BY <1>2 DEF TypeOK, Row
  <2>3. archive'[p][secret[p].version] = secret[p]
    BY <1>2, <2>1, <2>2, ArchivedEntry
  <2>4. ASSUME NEW n \in Version, archive[p][n] # None
        PROVE  archive'[p][n] = archive[p][n]
    <3>1. n # secret[p].version
      BY <1>2, <2>4, ConstantsOK DEF HistoryComplete, Version
    <3> QED
      BY <2>1, <3>1, ArchivedEntry
  <2>5. ({secret[p]} \cup {archive[p][n] : n \in Version}) \ {None}
           \subseteq ({secret'[p]} \cup {archive'[p][n] : n \in Version}) \ {None}
    BY <1>2, <2>2, <2>3, <2>4
  <2> QED
    BY <1>2, <2>5 DEF Contents
<1> QED
  BY <1>1, <1>2

\* The same history, row for row, with the same contents.
LEMMA SameContents ==
    ASSUME NEW p \in Path,
           secret[p] = None <=> secret'[p] = None,
           secret[p] # None => /\ secret'[p].version = secret[p].version
                               /\ secret'[p].value = secret[p].value
                               /\ secret'[p].meta = secret[p].meta,
           \A n \in Version :
              /\ archive[p][n] = None <=> archive'[p][n] = None
              /\ archive[p][n] # None => /\ archive'[p][n].version = archive[p][n].version
                                         /\ archive'[p][n].value = archive[p][n].value
                                         /\ archive'[p][n].meta = archive[p][n].meta
    PROVE  Contents(p) \subseteq Contents(p)'
<1> SUFFICES ASSUME NEW row \in ({secret[p]} \cup {archive[p][n] : n \in Version}) \ {None}
             PROVE  \E new \in ({secret'[p]} \cup {archive'[p][n] : n \in Version}) \ {None} :
                       <<row.version, row.value, row.meta>> = <<new.version, new.value, new.meta>>
  BY DEF Contents
<1>1. CASE row = secret[p]
  BY <1>1
<1>2. ASSUME NEW n \in Version, row = archive[p][n]
      PROVE  \E new \in ({secret'[p]} \cup {archive'[p][m] : m \in Version}) \ {None} :
                <<row.version, row.value, row.meta>> = <<new.version, new.value, new.meta>>
  BY <1>2
<1> QED
  BY <1>1, <1>2

\* The row a put or a metadata edit leaves.
LEMMA PutRow ==
    ASSUME TypeOK, NEW x \in Process, NEW p \in Path, NEW value \in Value,
           NEW meta \in Metadata, Put(x, p, value, meta)
    PROVE  \E row \in Row :
              /\ row.version = NextVersion(p)
              /\ row.key = kek[x] /\ row.stale = (kek[x] # storeKey)
              /\ secret' = [secret EXCEPT ![p] = row]
<1> DEFINE row == [version |-> NextVersion(p), value |-> value, meta |-> meta,
                   key |-> kek[x], stale |-> kek[x] # storeKey]
<1>1. NextVersion(p) \in Version /\ kek[x] \in Key
  BY NextVersionOK DEF Put, TypeOK
<1>2. row \in Row
  BY <1>1 DEF Row
<1>3. secret' = [secret EXCEPT ![p] = row]
  BY DEF Put
<1> QED
  BY <1>2, <1>3

LEMMA SetMetadataRow ==
    ASSUME TypeOK, NEW p \in Path, NEW meta \in Metadata, SetMetadata(p, meta)
    PROVE  /\ secret[p] \in Row
           /\ \E row \in Row :
                 /\ row.version = NextVersion(p)
                 /\ row.key = secret[p].key /\ row.stale = secret[p].stale
                 /\ secret' = [secret EXCEPT ![p] = row]
<1> DEFINE row == [secret[p] EXCEPT !.meta = meta, !.version = NextVersion(p)]
<1>1. secret[p] \in Row /\ NextVersion(p) \in Version
  BY NextVersionOK DEF SetMetadata
<1>2. /\ row \in Row
      /\ row.version = NextVersion(p)
      /\ row.key = secret[p].key /\ row.stale = secret[p].stale
  BY <1>1 DEF Row
<1>3. secret' = [secret EXCEPT ![p] = row]
  BY DEF SetMetadata
<1> QED
  BY <1>1, <1>2, <1>3

\* A rotation changes no row but for its key.
LEMMA RotateKEKRows ==
    ASSUME TypeOK, NEW key \in Key, RotateKEK(key), NEW p \in Path
    PROVE  /\ secret'[p] = Rewrapped(secret[p], key)
           /\ secret[p] \in Row \cup {None}
           /\ \A n \in Version : /\ archive'[p][n] = Rewrapped(archive[p][n], key)
                                 /\ archive[p][n] \in Row \cup {None}
BY DEF TypeOK, RotateKEK

\* Steps that write no row of the vault.
Elsewhere ==
    \/ \E d \in DynPath : SaveConfig(d) \/ DeleteConfig(d)
    \/ RotateConfigKey
    \/ RotateConfigKeyFails
    \/ \E key \in Key : UpdateEnv(key)
    \/ \E x \in Process : Restart(x)
    \/ UNCHANGED vars

LEMMA ElsewhereKeeps == Elsewhere => UNCHANGED <<secret, archive, storeKey>>
BY DEF Elsewhere, SaveConfig, DeleteConfig, RotateConfigKey, RotateConfigKeyFails,
       UpdateEnv, Restart, vars

LEMMA Steps ==
    ASSUME [Next]_vars
    PROVE  \/ \E x \in Process, p \in Path, value \in Value, meta \in Metadata :
                 Put(x, p, value, meta)
           \/ \E p \in Path, meta \in Metadata : SetMetadata(p, meta)
           \/ \E p \in Path, n \in Version : Rollback(p, n)
           \/ \E p \in Path : Delete(p)
           \/ \E key \in Key : RotateKEK(key)
           \/ Elsewhere
BY DEF Next, Writes, Configs, Rotation, Elsewhere

LEMMA HistoryStep == TypeOK /\ HistoryComplete /\ [Next]_vars => HistoryComplete'
<1> SUFFICES ASSUME TypeOK, HistoryComplete, [Next]_vars PROVE HistoryComplete'
  OBVIOUS
<1>1. ASSUME NEW x \in Process, NEW p \in Path, NEW value \in Value, NEW meta \in Metadata,
             Put(x, p, value, meta)
      PROVE  HistoryComplete'
  <2>1. PICK row \in Row : /\ row.version = NextVersion(p)
                           /\ secret' = [secret EXCEPT ![p] = row]
    BY <1>1, PutRow
  <2>2. archive' = [archive EXCEPT ![p] = Archived(p)] /\ NextVersion(p) <= MaxVersion
    BY <1>1 DEF Put
  <2> QED
    BY <2>1, <2>2, HistoryGrows
<1>2. ASSUME NEW p \in Path, NEW meta \in Metadata, SetMetadata(p, meta)
      PROVE  HistoryComplete'
  <2>1. PICK row \in Row : /\ row.version = NextVersion(p)
                           /\ secret' = [secret EXCEPT ![p] = row]
    BY <1>2, SetMetadataRow
  <2>2. archive' = [archive EXCEPT ![p] = Archived(p)] /\ NextVersion(p) <= MaxVersion
    BY <1>2 DEF SetMetadata
  <2> QED
    BY <2>1, <2>2, HistoryGrows
<1>3. ASSUME NEW p \in Path, NEW n \in Version, Rollback(p, n) PROVE HistoryComplete'
  <2>1. "server" \in Process
    BY DEF Process
  <2> QED
    BY <1>1, <1>3, <2>1, RollbackPuts
<1>4. ASSUME NEW p \in Path, Delete(p) PROVE HistoryComplete'
  BY <1>4 DEF Delete, HistoryComplete, TypeOK
<1>5. ASSUME NEW key \in Key, RotateKEK(key) PROVE HistoryComplete'
  <2> SUFFICES ASSUME NEW p \in Path, NEW n \in Version
               PROVE  /\ archive'[p][n] # None <=> secret'[p] # None /\ n < secret'[p].version
                      /\ archive'[p][n] # None => archive'[p][n].version = n
    BY DEF HistoryComplete
  <2>1. /\ archive[p][n] # None <=> secret[p] # None /\ n < secret[p].version
        /\ archive[p][n] # None => archive[p][n].version = n
    BY DEF HistoryComplete
  <2>2. secret'[p] = None <=> secret[p] = None
    BY <1>5, RotateKEKRows, RewrappedOK
  <2>3. secret[p] # None => secret'[p].version = secret[p].version
    BY <1>5, RotateKEKRows, RewrappedOK
  <2>4. /\ archive'[p][n] = None <=> archive[p][n] = None
        /\ archive[p][n] # None => archive'[p][n].version = archive[p][n].version
    <3>1. archive'[p][n] = Rewrapped(archive[p][n], key) /\ archive[p][n] \in Row \cup {None}
      BY <1>5, RotateKEKRows
    <3> QED
      BY <3>1, RewrappedOK
  <2> QED
    BY <2>1, <2>2, <2>3, <2>4
<1>6. CASE Elsewhere
  BY <1>6, ElsewhereKeeps DEF HistoryComplete
<1> QED
  BY <1>1, <1>2, <1>3, <1>4, <1>5, <1>6, Steps

\* The version history of every secret is complete: no gap, no leftover of an
\* earlier secret at the path, whoever writes and whatever rotates.
THEOREM HistoryIsComplete == Spec => []HistoryComplete
<1>1. Init => HistoryComplete
  BY DEF Init, HistoryComplete
<1> QED
  BY <1>1, HistoryStep, TypeCorrect, PTL DEF Spec

LEMMA KeptStep ==
    ASSUME TypeOK, HistoryComplete, [Next]_vars,
           NEW q \in Path, secret[q] # None, secret'[q] # None
    PROVE  Contents(q) \subseteq Contents(q)'
<1>1. ASSUME NEW x \in Process, NEW p \in Path, NEW value \in Value, NEW meta \in Metadata,
             Put(x, p, value, meta)
      PROVE  Contents(q) \subseteq Contents(q)'
  <2>1. PICK row \in Row : secret' = [secret EXCEPT ![p] = row]
    BY <1>1, PutRow
  <2>2. archive' = [archive EXCEPT ![p] = Archived(p)]
    BY <1>1 DEF Put
  <2> QED
    BY <2>1, <2>2, ContentsGrow
<1>2. ASSUME NEW p \in Path, NEW meta \in Metadata, SetMetadata(p, meta)
      PROVE  Contents(q) \subseteq Contents(q)'
  <2>1. PICK row \in Row : secret' = [secret EXCEPT ![p] = row]
    BY <1>2, SetMetadataRow
  <2>2. archive' = [archive EXCEPT ![p] = Archived(p)]
    BY <1>2 DEF SetMetadata
  <2> QED
    BY <2>1, <2>2, ContentsGrow
<1>3. ASSUME NEW p \in Path, NEW n \in Version, Rollback(p, n)
      PROVE  Contents(q) \subseteq Contents(q)'
  <2>1. "server" \in Process
    BY DEF Process
  <2> QED
    BY <1>1, <1>3, <2>1, RollbackPuts
<1>4. ASSUME NEW p \in Path, Delete(p) PROVE Contents(q) \subseteq Contents(q)'
  <2>1. q # p
    BY <1>4 DEF Delete, TypeOK
  <2>2. secret'[q] = secret[q] /\ archive'[q] = archive[q]
    BY <1>4, <2>1 DEF Delete, TypeOK
  <2> QED
    BY <2>2 DEF Contents
<1>5. ASSUME NEW key \in Key, RotateKEK(key) PROVE Contents(q) \subseteq Contents(q)'
  <2>1. /\ secret'[q].version = secret[q].version
        /\ secret'[q].value = secret[q].value
        /\ secret'[q].meta = secret[q].meta
    BY <1>5, RotateKEKRows, RewrappedOK
  <2>2. \A n \in Version :
           /\ archive[q][n] = None <=> archive'[q][n] = None
           /\ archive[q][n] # None => /\ archive'[q][n].version = archive[q][n].version
                                      /\ archive'[q][n].value = archive[q][n].value
                                      /\ archive'[q][n].meta = archive[q][n].meta
    BY <1>5, RotateKEKRows, RewrappedOK
  <2> QED
    BY <2>1, <2>2, SameContents
<1>6. CASE Elsewhere
  BY <1>6, ElsewhereKeeps DEF Contents
<1> QED
  BY <1>1, <1>2, <1>3, <1>4, <1>5, <1>6, Steps

\* No write loses a version: while a secret exists, every value it had stays
\* in the table or its history.
THEOREM HistoryIsKept == Spec => HistoryKept
<1>1. TypeOK /\ HistoryComplete /\ [Next]_vars
         => [\A p \in Path : secret[p] # None /\ secret'[p] # None
                => Contents(p) \subseteq Contents(p)']_vars
  BY KeptStep
<1> QED
  BY <1>1, TypeCorrect, HistoryIsComplete, PTL DEF Spec, HistoryKept

-------------------------------------------------------------------------------
(* The vault implements the versioned store.                               *)

\* A version as its readers see it, before a step and after it.
At(p, n) ==
    IF secret[p] # None /\ secret[p].version = n THEN Shown(secret[p]) ELSE Shown(archive[p][n])

LEMMA HistoryAt == history = [p \in Path |-> [n \in Version |-> At(p, n)]]
BY DEF history, At

LEMMA HistoryAtNext == history' = [p \in Path |-> [n \in Version |-> At(p, n)']]
BY DEF history, At

\* A row that is there is seen.
LEMMA ShownSeen ==
    ASSUME NEW row \in Row
    PROVE  row # None /\ Shown(row) = <<row.value, row.meta>> /\ Shown(row) # None
           /\ Shown(row) \in Value \X Metadata
BY ConstantsOK DEF Shown, Row

\* The versions that can be seen are those up to the current one.
LEMMA Seen ==
    ASSUME TypeOK, HistoryComplete, NEW p \in Path, NEW n \in Version
    PROVE  At(p, n) # None <=> n < NextVersion(p)
<1>1. archive[p][n] # None <=> secret[p] # None /\ n < secret[p].version
  BY DEF HistoryComplete
<1>2. Shown(archive[p][n]) # None <=> archive[p][n] # None
  <2>1. archive[p][n] \in Row \cup {None}
    BY DEF TypeOK
  <2> QED
    BY <2>1, ShownSeen DEF Shown
<1>3. CASE secret[p] = None
  BY <1>1, <1>2, <1>3 DEF At, NextVersion, Version
<1>4. CASE secret[p] # None
  <2>1. secret[p] \in Row /\ secret[p].version \in Nat
    BY <1>4 DEF TypeOK, Row, Version
  <2>2. Shown(secret[p]) # None
    BY <2>1, ShownSeen
  <2>3. n \in Nat
    BY DEF Version
  <2> QED
    BY <1>1, <1>2, <1>4, <2>1, <2>2, <2>3 DEF At, NextVersion
<1> QED
  BY <1>3, <1>4

\* A write that archives the current row and gives the secret the next
\* version adds that version.
LEMMA WriteAdds ==
    ASSUME TypeOK, HistoryComplete, NEW p \in Path, NEW row \in Row,
           NextVersion(p) <= MaxVersion, row.version = NextVersion(p),
           secret' = [secret EXCEPT ![p] = row],
           archive' = [archive EXCEPT ![p] = Archived(p)]
    PROVE  Store!Next
<1> DEFINE next == NextVersion(p)
<1>1. next \in Version
  BY NextVersionOK
<1>2. \A n \in Version : history[p][n] # None <=> n < next
  BY HistoryAt, Seen
<1>3. ASSUME NEW q \in Path, NEW n \in Version
      PROVE  At(q, n)' = IF q = p /\ n = next THEN Shown(row) ELSE At(q, n)
  <2>1. CASE q # p
    <3>1. secret'[q] = secret[q] /\ archive'[q] = archive[q]
      BY <2>1 DEF TypeOK
    <3> QED
      BY <2>1, <3>1 DEF At
  <2>2. CASE q = p /\ n = next
    <3>1. secret'[q] = row /\ row # None
      BY <2>2, ShownSeen DEF TypeOK
    <3> QED
      BY <2>2, <3>1 DEF At
  <2>3. CASE q = p /\ n # next
    <3>1. secret'[q] = row /\ archive'[q][n] = Archived(p)[n]
      BY <2>3 DEF TypeOK
    <3>2. At(q, n)' = Shown(Archived(p)[n])
      BY <2>3, <3>1 DEF At
    <3>3. Shown(Archived(p)[n]) = At(p, n)
      BY ArchivedEntry DEF At
    <3> QED
      BY <2>3, <3>2, <3>3
  <2> QED
    BY <2>1, <2>2, <2>3
<1>4. history' = [history EXCEPT ![p][next] = Shown(row)]
  BY <1>1, <1>3, HistoryAt, HistoryAtNext
<1>5. Shown(row) \in Value \X Metadata
  BY ShownSeen
<1>6. Store!Write(p, next, Shown(row))
  BY <1>2, <1>4 DEF Store!Write
<1> QED
  BY <1>1, <1>5, <1>6 DEF Store!Next

LEMMA StoreStep == TypeOK /\ HistoryComplete /\ [Next]_vars => [Store!Next]_history
<1> SUFFICES ASSUME TypeOK, HistoryComplete, [Next]_vars PROVE Store!Next \/ UNCHANGED history
  OBVIOUS
<1>1. ASSUME NEW x \in Process, NEW p \in Path, NEW value \in Value, NEW meta \in Metadata,
             Put(x, p, value, meta)
      PROVE  Store!Next
  <2>1. PICK row \in Row : /\ row.version = NextVersion(p)
                           /\ secret' = [secret EXCEPT ![p] = row]
    BY <1>1, PutRow
  <2>2. archive' = [archive EXCEPT ![p] = Archived(p)] /\ NextVersion(p) <= MaxVersion
    BY <1>1 DEF Put
  <2> QED
    BY <2>1, <2>2, WriteAdds
<1>2. ASSUME NEW p \in Path, NEW meta \in Metadata, SetMetadata(p, meta)
      PROVE  Store!Next
  <2>1. PICK row \in Row : /\ row.version = NextVersion(p)
                           /\ secret' = [secret EXCEPT ![p] = row]
    BY <1>2, SetMetadataRow
  <2>2. archive' = [archive EXCEPT ![p] = Archived(p)] /\ NextVersion(p) <= MaxVersion
    BY <1>2 DEF SetMetadata
  <2> QED
    BY <2>1, <2>2, WriteAdds
<1>3. ASSUME NEW p \in Path, NEW n \in Version, Rollback(p, n) PROVE Store!Next
  <2>1. "server" \in Process
    BY DEF Process
  <2> QED
    BY <1>1, <1>3, <2>1, RollbackPuts
<1>4. ASSUME NEW p \in Path, Delete(p) PROVE Store!Next
  <2>1. ASSUME NEW q \in Path, NEW n \in Version
        PROVE  At(q, n)' = IF q = p THEN None ELSE At(q, n)
    <3>1. CASE q = p
      BY <1>4, <3>1 DEF Delete, TypeOK, At, Shown
    <3>2. CASE q # p
      <4>1. secret'[q] = secret[q] /\ archive'[q] = archive[q]
        BY <1>4, <3>2 DEF Delete, TypeOK
      <4> QED
        BY <3>2, <4>1 DEF At
    <3> QED
      BY <3>1, <3>2
  <2>2. history' = [history EXCEPT ![p] = [n \in Version |-> None]]
    BY <2>1, HistoryAt, HistoryAtNext
  <2> QED
    BY <2>2 DEF Store!Next, Store!Remove, Store!Nothing
<1>5. ASSUME NEW key \in Key, RotateKEK(key) PROVE UNCHANGED history
  <2>1. ASSUME NEW p \in Path, NEW n \in Version PROVE At(p, n)' = At(p, n)
    <3>1. /\ secret'[p] = Rewrapped(secret[p], key) /\ secret[p] \in Row \cup {None}
          /\ archive'[p][n] = Rewrapped(archive[p][n], key) /\ archive[p][n] \in Row \cup {None}
      BY <1>5, RotateKEKRows
    <3>2. /\ secret'[p] # None <=> secret[p] # None
          /\ secret[p] # None => secret'[p].version = secret[p].version
      BY <3>1, RewrappedOK
    <3>3. Shown(secret'[p]) = Shown(secret[p]) /\ Shown(archive'[p][n]) = Shown(archive[p][n])
      BY <3>1, RewrappedOK DEF Shown
    <3> QED
      BY <3>2, <3>3 DEF At
  <2> QED
    BY <2>1, HistoryAt, HistoryAtNext
<1>6. CASE Elsewhere
  BY <1>6, ElsewhereKeeps DEF history
<1> QED
  BY <1>1, <1>2, <1>3, <1>4, <1>5, <1>6, Steps

\* The two tables implement the versioned store: every put, metadata edit and
\* rollback of any process adds one version to a history that is otherwise
\* left alone, a deletion removes it whole, and nothing else shows.
THEOREM StoreImplemented == Spec => ImplementsStore
<1>1. Init => Store!Init
  BY DEF Init, Store!Init, Store!Nothing, history, Shown
<1>2. TypeOK /\ HistoryComplete /\ [Next]_vars => [Store!Next]_history
  BY StoreStep
<1> QED
  BY <1>1, <1>2, TypeCorrect, HistoryIsComplete, PTL DEF Spec, ImplementsStore, Store!Spec

-------------------------------------------------------------------------------
(* The keys.                                                               *)

LEMMA WrappingStep == TypeOK /\ OneWrappingKey /\ [Next]_vars => OneWrappingKey'
<1> SUFFICES ASSUME TypeOK, OneWrappingKey, [Next]_vars PROVE OneWrappingKey'
  OBVIOUS
<1> DEFINE Wrapped(row, key) == row # None => row.key = key \/ row.stale
<1>0. /\ \A p \in Path : Wrapped(secret[p], storeKey)
      /\ \A p \in Path, n \in Version : Wrapped(archive[p][n], storeKey)
  BY DEF OneWrappingKey
\* A write leaves the store's key alone and archives only rows that were there.
<1>1. ASSUME NEW p \in Path, NEW row \in Row, Wrapped(row, storeKey), storeKey' = storeKey,
             secret' = [secret EXCEPT ![p] = row],
             archive' = [archive EXCEPT ![p] = Archived(p)]
      PROVE  OneWrappingKey'
  <2>1. \A q \in Path : Wrapped(secret'[q], storeKey)
    BY <1>0, <1>1 DEF TypeOK
  <2>2. \A n \in Version : Archived(p)[n] \in {archive[p][n], secret[p]}
    BY DEF Archived, TypeOK
  <2>3. ASSUME NEW q \in Path, NEW n \in Version PROVE Wrapped(archive'[q][n], storeKey)
    <3>1. archive'[q][n] = archive[q][n] \/ archive'[q][n] = secret[p]
      BY <1>1, <2>2 DEF TypeOK
    <3> QED
      BY <1>0, <3>1
  <2> QED
    BY <1>1, <2>1, <2>3 DEF OneWrappingKey
<1>2. ASSUME NEW x \in Process, NEW p \in Path, NEW value \in Value, NEW meta \in Metadata,
             Put(x, p, value, meta)
      PROVE  OneWrappingKey'
  <2>1. PICK row \in Row : /\ row.key = kek[x] /\ row.stale = (kek[x] # storeKey)
                           /\ secret' = [secret EXCEPT ![p] = row]
    BY <1>2, PutRow
  <2>2. archive' = [archive EXCEPT ![p] = Archived(p)] /\ storeKey' = storeKey
    BY <1>2 DEF Put
  <2> QED
    BY <1>1, <2>1, <2>2
<1>3. ASSUME NEW p \in Path, NEW meta \in Metadata, SetMetadata(p, meta)
      PROVE  OneWrappingKey'
  <2>1. PICK row \in Row : /\ row.key = secret[p].key /\ row.stale = secret[p].stale
                           /\ secret' = [secret EXCEPT ![p] = row]
    BY <1>3, SetMetadataRow
  <2>2. /\ archive' = [archive EXCEPT ![p] = Archived(p)] /\ storeKey' = storeKey
        /\ secret[p] # None
    BY <1>3 DEF SetMetadata
  <2>3. Wrapped(row, storeKey)
    BY <1>0, <2>1, <2>2
  <2> QED
    BY <1>1, <2>1, <2>2, <2>3
<1>4. ASSUME NEW p \in Path, NEW n \in Version, Rollback(p, n) PROVE OneWrappingKey'
  <2>1. "server" \in Process
    BY DEF Process
  <2> QED
    BY <1>2, <1>4, <2>1, RollbackPuts
<1>5. ASSUME NEW p \in Path, Delete(p) PROVE OneWrappingKey'
  <2>1. \A q \in Path : secret'[q] \in {secret[q], None}
    BY <1>5 DEF Delete, TypeOK
  <2>2. \A q \in Path, n \in Version : archive'[q][n] \in {archive[q][n], None}
    BY <1>5 DEF Delete, TypeOK
  <2>3. storeKey' = storeKey
    BY <1>5 DEF Delete
  <2> QED
    BY <1>0, <2>1, <2>2, <2>3 DEF OneWrappingKey
<1>6. ASSUME NEW key \in Key, RotateKEK(key) PROVE OneWrappingKey'
  <2>1. storeKey' = key
    BY <1>6 DEF RotateKEK
  <2>2. \A p \in Path : secret'[p] # None => secret'[p].key = key
    BY <1>6, RotateKEKRows, RewrappedOK
  <2>3. \A p \in Path, n \in Version : archive'[p][n] # None => archive'[p][n].key = key
    BY <1>6, RotateKEKRows, RewrappedOK
  <2> QED
    BY <2>1, <2>2, <2>3 DEF OneWrappingKey
<1>7. CASE Elsewhere
  BY <1>7, ElsewhereKeeps DEF OneWrappingKey
<1> QED
  BY <1>2, <1>3, <1>4, <1>5, <1>6, <1>7, Steps

\* rotateKEK is all or nothing: the store is under one key, but for the rows a
\* process with an outdated key wrote since.
THEOREM OneKeyWraps == Spec => []OneWrappingKey
<1>1. Init => OneWrappingKey
  BY DEF Init, OneWrappingKey
<1> QED
  BY <1>1, WrappingStep, TypeCorrect, PTL DEF Spec

LEMMA ConfigStep ==
    ASSUME TypeOK, [Next]_vars, ConfigsDecrypt
    PROVE  ConfigsDecrypt' \/ \E x \in Process : Restart(x)
<1>1. ASSUME NEW d \in DynPath, SaveConfig(d) \/ DeleteConfig(d) PROVE ConfigsDecrypt'
  BY <1>1 DEF SaveConfig, DeleteConfig, ConfigsDecrypt, TypeOK
<1>2. CASE RotateConfigKey
  BY <1>2 DEF RotateConfigKey, ConfigsDecrypt
<1>3. CASE UNCHANGED <<config, configKey>>
  BY <1>3 DEF ConfigsDecrypt
<1>4. CASE \E x \in Process : Restart(x)
  BY <1>4
<1> QED
  BY <1>1, <1>2, <1>3, <1>4
     DEF Next, Writes, Configs, Rotation, Put, SetMetadata, Rollback, Delete, RotateKEK,
         RotateConfigKeyFails, UpdateEnv, vars

\* A server that can decrypt every dynamic config still can after any step
\* but a restart: the key in memory and the table move together.
THEOREM ConfigsFollow == Spec => ConfigsFollowKey
<1>1. TypeOK /\ [Next]_vars
         => [ConfigsDecrypt => ConfigsDecrypt' \/ \E x \in Process : Restart(x)]_vars
  BY ConfigStep
<1> QED
  BY <1>1, TypeCorrect, PTL DEF Spec, ConfigsFollowKey
=============================================================================
