-------------------------------- MODULE Policies --------------------------------
(***************************************************************************)
(* Where policies come from: the YAML files, the `policies` table, the map *)
(* the server answers every capability check from, and the map of an       *)
(* mcp-stdio process, which has only the files.  POST and PUT await their  *)
(* body between the admin check and the write; every other handler is one  *)
(* step.  A write to the table can fail, as the database may be locked by  *)
(* another process.                                                        *)
(*                                                                         *)
(* A policy's rules are one value: what matters of them here is whether    *)
(* they grant admin on "*".  Normalisation of legacy rules is the same on  *)
(* all ways in and is left out.                                            *)
(***************************************************************************)
CONSTANTS
    Name,           \* policy names
    Admin,          \* the built-in one
    Rules,          \* what policies may say
    AdminRules,     \* what the built-in one says
    Granting,       \* the rules that grant admin on "*"
    Caller,         \* requests by callers with fixed tokens
    PoliciesOf,     \* the policies of each caller's token
    None

ASSUME ConstantsOK ==
    /\ Admin \in Name
    /\ AdminRules \in Granting /\ Granting \subseteq Rules
    /\ PoliciesOf \in [Caller -> SUBSET Name]
    /\ None \notin Rules

VARIABLES
    file,           \* what the YAML files declare: pairs of a name and rules
    row,            \* the policies table
    map,            \* PolicyEngine.policies of the server
    stdio,          \* the same of the mcp-stdio process, which has no table
    waiting,        \* callers whose POST or PUT awaits its body
    deleted         \* history: names deleted and not saved since

vars == <<file, row, map, stdio, waiting, deleted>>

Stored == {n \in Name : row[n] # None}
Declared == {f[1] : f \in file}
-------------------------------------------------------------------------------
(* Loading. *)

WithAdmin(policies) == [policies EXCEPT ![Admin] = AdminRules]

\* Mutant: a file replaces the row of its name.
Seeded_Replace(names) ==
    {[n \in Name |-> IF n \in names \cup (Declared \ {Admin}) THEN pick[n] ELSE row[n]] :
        pick \in {p \in [Name -> Rules] : \A n \in Declared : <<n, p[n]>> \in file}}

\* seedYamlPolicies when its inserts succeed for the given names.  Of files that declare one
\* name, the directory's order decides.
Seeded(names) ==
    {[n \in Name |-> IF n \in names THEN pick[n] ELSE row[n]] :
        pick \in {p \in [Name -> Rules] : \A n \in names : <<n, p[n]>> \in file}}

\* Mutant: a file may redefine the built-in policy.
Fresh_Admin == Declared \ Stored

Fresh == Declared \ (Stored \cup {Admin})

\* A process without a table has the files' policies, and the built-in one over any file of
\* its name.
FromFiles == {WithAdmin(p) : p \in {q \in [Name -> Rules \cup {None}] :
                \A n \in Name : IF n \in Declared THEN <<n, q[n]>> \in file ELSE q[n] = None}}

Init ==
    /\ file \in SUBSET (Name \X Rules)
    /\ row \in {[n \in Name |-> IF n \in Declared \ {Admin} THEN p[n] ELSE None] : p \in FromFiles}
    /\ map = WithAdmin(row)
    /\ stdio \in FromFiles
    /\ waiting = {}
    /\ deleted = {}

\* An operator edits the directory.
EditFiles(files) ==
    /\ file' = files
    /\ UNCHANGED <<row, map, stdio, waiting, deleted>>

\* loadPolicies of a server that starts; requests in progress are gone with the old one.
Restart(imported) ==
    /\ imported \subseteq Fresh
    /\ row' \in Seeded(imported)
    /\ map' = WithAdmin(row')
    /\ waiting' = {}
    /\ UNCHANGED <<file, stdio, deleted>>

StartStdio ==
    /\ stdio' \in FromFiles
    /\ UNCHANGED <<file, row, map, waiting, deleted>>
-------------------------------------------------------------------------------
(* The handlers. *)

\* policies.check(auth.policies, "*", "admin")
Authorised(c) == \E n \in PoliciesOf[c] : map[n] \in Granting

\* importFromYaml.  A first pass that imports nothing ends it; otherwise the map is loaded anew,
\* with a second pass that may import what the first one failed to.
Import(imported) ==
    /\ row' \in Seeded(imported)
    /\ map' = IF imported = {} THEN map ELSE WithAdmin(row')

Reload(c, imported) ==
    /\ Authorised(c)
    /\ imported \subseteq Fresh
    /\ Import(imported)
    /\ UNCHANGED <<file, stdio, waiting, deleted>>

SaveStart(c) ==
    /\ Authorised(c)
    /\ c \notin waiting
    /\ waiting' = waiting \cup {c}
    /\ UNCHANGED <<file, row, map, stdio, deleted>>

\* Mutant: the map is set before the row.
SavePolicy_MapFirst(n, rules, works) ==
    /\ n # Admin
    /\ map' = [map EXCEPT ![n] = rules]
    /\ IF works
       THEN /\ row' = [row EXCEPT ![n] = rules]
            /\ deleted' = deleted \ {n}
       ELSE UNCHANGED <<row, deleted>>

SavePolicy(n, rules, works) ==
    IF works /\ n # Admin
    THEN /\ row' = [row EXCEPT ![n] = rules]
         /\ map' = [map EXCEPT ![n] = rules]
         /\ deleted' = deleted \ {n}
    ELSE UNCHANGED <<row, map, deleted>>

\* The body is there: it is refused, or the write fails, or it is stored.
SaveFinish(c, n, rules, works) ==
    /\ c \in waiting
    /\ waiting' = waiting \ {c}
    /\ SavePolicy(n, rules, works)
    /\ UNCHANGED <<file, stdio>>

DeletePolicy(c, n) ==
    /\ Authorised(c)
    /\ n # Admin
    /\ n \in Stored
    /\ row' = [row EXCEPT ![n] = None]
    /\ map' = [map EXCEPT ![n] = None]
    /\ deleted' = deleted \cup {n}
    /\ UNCHANGED <<file, stdio, waiting>>

Next ==
    \/ \E files \in SUBSET (Name \X Rules) : EditFiles(files)
    \/ \E imported \in SUBSET Name : Restart(imported)
    \/ StartStdio
    \/ \E c \in Caller :
        \/ \E imported \in SUBSET Name : Reload(c, imported)
        \/ SaveStart(c)
        \/ \E n \in Name, rules \in Rules, works \in BOOLEAN : SaveFinish(c, n, rules, works)
        \/ \E n \in Name : DeletePolicy(c, n)

Spec == Init /\ [][Next]_vars
-------------------------------------------------------------------------------
(* Properties. *)

Policy == Rules \cup {None}

\* Every variable keeps its shape, and the built-in policy has no row.
TypeOK ==
    /\ file \subseteq Name \X Rules
    /\ row \in [Name -> Policy] /\ row[Admin] = None
    /\ map \in [Name -> Policy]
    /\ stdio \in [Name -> Policy]
    /\ waiting \subseteq Caller
    /\ deleted \subseteq Name \ {Admin}

\* Every check is answered from the rows as they are and the built-in policy as it was built,
\* whatever imports, failed writes and restarts came before: no policy that was deleted still
\* grants anything, and nothing takes the built-in one away (engine.ts:193).
MapFollowsRows == map = WithAdmin(row)

\* An import, at start-up or by Reload, never changes a policy that is stored, whatever the
\* files have come to say (engine.ts:146, "Does NOT overwrite existing DB policies").
ImportOnlyAdds ==
    [][\A imported \in SUBSET Name :
        (Restart(imported) \/ \E c \in Caller : Reload(c, imported)) =>
            \A n \in Stored : row'[n] = row[n]]_vars

\* Violated.  "Use Reload to pick up YAML changes" (web-ui.mdx:30): after a reload that imported
\* all it could, each declared policy says what a file says.
ReloadPicksUp ==
    [][\A c \in Caller : Reload(c, Fresh) =>
        \A n \in Declared \ {Admin} : <<n, map'[n]>> \in file]_vars

\* Violated.  "This cannot be undone" (ui/index.html:4901): a deleted policy is back only if it
\* was saved again.
DeletedForGood == \A n \in deleted : map[n] = None

\* Violated.  "DB-backed policies merge with the YAML ones" (concepts.mdx:78): a process that
\* starts has the stored policies too.
StdioMerges == [][StartStdio => \A n \in Stored : stdio'[n] # None]_vars
===============================================================================
