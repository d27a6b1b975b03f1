---------------------------- MODULE Policies_proofs ----------------------------
(***************************************************************************)
(* What holds of Policies for any names, rules, callers and files.         *)
(***************************************************************************)
EXTENDS Policies, TLAPS

LEMMA WithAdminType ==
    ASSUME NEW p \in [Name -> Policy]
    PROVE  WithAdmin(p) \in [Name -> Policy]
BY ConstantsOK DEF WithAdmin, Policy

LEMMA FromFilesType == FromFiles \subseteq [Name -> Policy]
<1> SUFFICES ASSUME NEW m \in FromFiles PROVE m \in [Name -> Policy]
  OBVIOUS
<1>1. PICK q \in [Name -> Rules \cup {None}] : m = WithAdmin(q)
  BY DEF FromFiles
<1> QED
  BY <1>1, WithAdminType DEF Policy

\* Seeding writes only the rows of the names it was asked for, with rules.
LEMMA SeededRows ==
    ASSUME NEW names \in SUBSET Name, NEW r \in Seeded(names), row \in [Name -> Policy]
    PROVE  /\ r \in [Name -> Policy]
           /\ \A n \in Name \ names : r[n] = row[n]
           /\ \A n \in names : r[n] \in Rules
<1>1. PICK pick \in [Name -> Rules] :
        r = [n \in Name |-> IF n \in names THEN pick[n] ELSE row[n]]
  BY DEF Seeded
<1> QED
  BY <1>1 DEF Policy

LEMMA TypeInit == Init => TypeOK
<1> SUFFICES ASSUME Init PROVE TypeOK
  OBVIOUS
<1>1. PICK p \in FromFiles : row = [n \in Name |-> IF n \in Declared \ {Admin} THEN p[n] ELSE None]
  BY DEF Init
<1>2. p \in [Name -> Policy]
  BY FromFilesType
<1>3. row \in [Name -> Policy] /\ row[Admin] = None
  BY <1>1, <1>2, ConstantsOK DEF Policy
<1>4. map \in [Name -> Policy] /\ stdio \in [Name -> Policy]
  BY <1>3, WithAdminType, FromFilesType DEF Init
<1> QED
  BY <1>3, <1>4 DEF Init, TypeOK

LEMMA FreshNames == TypeOK => Fresh \subseteq Name \ ({Admin} \cup Stored)
BY DEF TypeOK, Fresh, Declared

LEMMA TypeStep == TypeOK /\ [Next]_vars => TypeOK'
<1> SUFFICES ASSUME TypeOK, [Next]_vars PROVE TypeOK'
  OBVIOUS
<1> USE DEF TypeOK
<1>1. ASSUME NEW files \in SUBSET (Name \X Rules), EditFiles(files) PROVE TypeOK'
  BY <1>1 DEF EditFiles
<1>2. ASSUME NEW imported \in SUBSET Name, Restart(imported) PROVE TypeOK'
  <2>1. Admin \notin imported
    BY <1>2, FreshNames DEF Restart
  <2>2. row' \in [Name -> Policy] /\ row'[Admin] = None
    BY <1>2, <2>1, SeededRows, ConstantsOK DEF Restart
  <2>3. map' \in [Name -> Policy]
    BY <1>2, <2>2, WithAdminType DEF Restart
  <2> QED
    BY <1>2, <2>2, <2>3 DEF Restart
<1>3. CASE StartStdio
  BY <1>3, FromFilesType DEF StartStdio
<1>4. ASSUME NEW c \in Caller, NEW imported \in SUBSET Name, Reload(c, imported) PROVE TypeOK'
  <2>1. Admin \notin imported
    BY <1>4, FreshNames DEF Reload
  <2>2. row' \in [Name -> Policy] /\ row'[Admin] = None
    BY <1>4, <2>1, SeededRows, ConstantsOK DEF Reload, Import
  <2>3. map' \in [Name -> Policy]
    BY <1>4, <2>2, WithAdminType DEF Reload, Import
  <2> QED
    BY <1>4, <2>2, <2>3 DEF Reload
<1>5. ASSUME NEW c \in Caller, SaveStart(c) PROVE TypeOK'
  BY <1>5 DEF SaveStart
<1>6. ASSUME NEW c \in Caller, NEW n \in Name, NEW rules \in Rules, NEW works \in BOOLEAN,
             SaveFinish(c, n, rules, works)
      PROVE  TypeOK'
  BY <1>6, ConstantsOK DEF SaveFinish, SavePolicy, Policy
<1>7. ASSUME NEW c \in Caller, NEW n \in Name, DeletePolicy(c, n) PROVE TypeOK'
  BY <1>7, ConstantsOK DEF DeletePolicy, Policy
<1>8. CASE UNCHANGED vars
  BY <1>8 DEF vars
<1> QED
  BY <1>1, <1>2, <1>3, <1>4, <1>5, <1>6, <1>7, <1>8 DEF Next

\* Files, rows, maps and requests keep their shape, and "admin" never has a row.
THEOREM TypeCorrect == Spec => []TypeOK
<1>1. Init => TypeOK
  BY TypeInit
<1>2. TypeOK /\ [Next]_vars => TypeOK'
  BY TypeStep
<1> QED
  BY <1>1, <1>2, PTL DEF Spec

LEMMA MapStep == TypeOK /\ MapFollowsRows /\ [Next]_vars => MapFollowsRows'
<1> SUFFICES ASSUME TypeOK, map = WithAdmin(row), [Next]_vars PROVE map' = WithAdmin(row')
  BY DEF MapFollowsRows
<1> USE DEF WithAdmin
<1>1. ASSUME NEW files \in SUBSET (Name \X Rules), EditFiles(files) PROVE map' = WithAdmin(row')
  BY <1>1 DEF EditFiles
<1>2. ASSUME NEW imported \in SUBSET Name, Restart(imported) PROVE map' = WithAdmin(row')
  BY <1>2 DEF Restart
<1>3. CASE StartStdio
  BY <1>3 DEF StartStdio
<1>4. ASSUME NEW c \in Caller, NEW imported \in SUBSET Name, Reload(c, imported)
      PROVE  map' = WithAdmin(row')
  <2>1. CASE imported = {}
    <3>1. row' \in [Name -> Policy] /\ row \in [Name -> Policy]
      BY <1>4, SeededRows DEF Reload, Import, TypeOK
    <3>2. \A n \in Name : row'[n] = row[n]
      BY <1>4, <2>1, SeededRows DEF Reload, Import, TypeOK
    <3>3. row' = row
      BY <3>1, <3>2
    <3> QED
      BY <1>4, <2>1, <3>3 DEF Reload, Import
  <2>2. CASE imported # {}
    BY <1>4, <2>2 DEF Reload, Import
  <2> QED
    BY <2>1, <2>2
<1>5. ASSUME NEW c \in Caller, SaveStart(c) PROVE map' = WithAdmin(row')
  BY <1>5 DEF SaveStart
<1>6. ASSUME NEW c \in Caller, NEW n \in Name, NEW rules \in Rules, NEW works \in BOOLEAN,
             SaveFinish(c, n, rules, works)
      PROVE  map' = WithAdmin(row')
  BY <1>6 DEF SaveFinish, SavePolicy, TypeOK
<1>7. ASSUME NEW c \in Caller, NEW n \in Name, DeletePolicy(c, n) PROVE map' = WithAdmin(row')
  BY <1>7 DEF DeletePolicy, TypeOK
<1>8. CASE UNCHANGED vars
  BY <1>8 DEF vars
<1> QED
  BY <1>1, <1>2, <1>3, <1>4, <1>5, <1>6, <1>7, <1>8 DEF Next

\* Checks are answered from the stored policies and the built-in one, whatever was imported,
\* restarted or failed to be written.
THEOREM MapFollows == Spec => []MapFollowsRows
<1>1. Init => MapFollowsRows
  BY DEF Init, MapFollowsRows
<1>2. TypeOK /\ MapFollowsRows /\ [Next]_vars => MapFollowsRows'
  BY MapStep
<1> QED
  BY <1>1, <1>2, TypeCorrect, PTL DEF Spec

\* No import, at start-up or by Reload, changes a stored policy.
THEOREM ImportAdds == Spec => ImportOnlyAdds
<1>1. ASSUME TypeOK, NEW imported \in SUBSET Name,
             Restart(imported) \/ \E c \in Caller : Reload(c, imported),
             NEW n \in Stored
      PROVE  row'[n] = row[n]
  <2>1. imported \subseteq Fresh /\ row' \in Seeded(imported)
    BY <1>1 DEF Restart, Reload, Import
  <2>2. n \in Name \ imported
    BY <1>1, <2>1, FreshNames DEF Stored
  <2> QED
    BY <1>1, <2>1, <2>2, SeededRows DEF TypeOK
<1>2. TypeOK /\ [Next]_vars =>
        [\A imported \in SUBSET Name :
            (Restart(imported) \/ \E c \in Caller : Reload(c, imported)) =>
                \A n \in Stored : row'[n] = row[n]]_vars
  BY <1>1
<1> QED
  BY <1>2, TypeCorrect, PTL DEF Spec, ImportOnlyAdds
===============================================================================
