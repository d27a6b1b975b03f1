-------------------------- MODULE DynamicLeases_proofs --------------------------
(***************************************************************************)
(* Proofs about DynamicLeases, for any number of paths, leases, backends,  *)
(* concurrent calls, rotations and crashes.                                *)
(***************************************************************************)
EXTENDS DynamicLeases, TLAPS

Row(l) == lease[l].status \in {"stored", "dropped"}

\* A call that is over holds nothing; one in progress only deals with rows.
JobShape(state) ==
    /\ state.kind = "idle" => state = Idle
    /\ state.kind = "delete" => state.path \in Path
    /\ state.answered => state.at # None
    /\ \A l \in state.queue : Row(l)
    /\ state.at # None => Row(state.at)

\* What the type invariant rests on.
Shape ==
    /\ \A l \in LeaseId : lease[l].status # "absent" => lease[l].path \in Path
    /\ \A j \in Job : JobShape(job[j])

TypeInv == TypeOK /\ Shape

\* The rows the updates leave are rows of the table.
LEMMA UpdatesOK ==
    ASSUME NEW row \in LeaseRow
    PROVE  /\ \A p \in Path, b \in Backend \cup {None} :
                [row EXCEPT !.status = "creating", !.path = p, !.backend = b] \in LeaseRow
           /\ [row EXCEPT !.status = "created"] \in LeaseRow
           /\ [row EXCEPT !.status = "failed"] \in LeaseRow
           /\ [row EXCEPT !.status = "dropped"] \in LeaseRow
           /\ \A deadline \in Nat, k \in 0..MaxRotations :
                [row EXCEPT !.status = "stored", !.expiresAt = deadline, !.key = k] \in LeaseRow
           /\ [row EXCEPT !.revoked = TRUE] \in LeaseRow
<1>1. ASSUME NEW p \in Path, NEW b \in Backend \cup {None}
      PROVE  [row EXCEPT !.status = "creating", !.path = p, !.backend = b] \in LeaseRow
  BY DEF LeaseRow
<1>2. [row EXCEPT !.status = "created"] \in LeaseRow
  BY DEF LeaseRow
<1>3. [row EXCEPT !.status = "failed"] \in LeaseRow
  BY DEF LeaseRow
<1>4. [row EXCEPT !.status = "dropped"] \in LeaseRow
  BY DEF LeaseRow
<1>5. ASSUME NEW deadline \in Nat, NEW k \in 0..MaxRotations
      PROVE  [row EXCEPT !.status = "stored", !.expiresAt = deadline, !.key = k] \in LeaseRow
  BY DEF LeaseRow
<1>6. [row EXCEPT !.revoked = TRUE] \in LeaseRow
  BY DEF LeaseRow
<1> QED
  BY <1>1, <1>2, <1>3, <1>4, <1>5, <1>6

LEMMA IdleOK == Idle \in JobState /\ JobShape(Idle)
BY DEF Idle, JobState, JobShape

\* Calling revokeLease keeps a call well formed.
LEMMA EnterOK ==
    ASSUME TypeInv, NEW state \in JobState, NEW l \in LeaseId,
           state.kind # "idle", state.kind = "delete" => state.path \in Path,
           \A m \in state.queue : Row(m)
    PROVE  Enter(state, l) \in JobState /\ JobShape(Enter(state, l))
<1>1. Unrevoked(l) => Row(l) /\ config[lease[l].path] \in Backend \cup {None}
  BY DEF TypeInv, TypeOK, Shape, Unrevoked, Row
<1>2. Enter(state, l) \in JobState
  BY <1>1 DEF Enter, JobState
<1>3. /\ Enter(state, l).kind = state.kind
      /\ Enter(state, l).path = state.path
      /\ Enter(state, l).queue \subseteq state.queue
      /\ Enter(state, l).at # None => Enter(state, l).at = l /\ Unrevoked(l)
      /\ ~Enter(state, l).answered
  BY DEF Enter, JobState
<1> QED
  BY <1>1, <1>2, <1>3 DEF JobShape

\* A step that replaces rows by rows and calls by well-formed calls.
LEMMA ShapeKept ==
    ASSUME TypeInv,
           now' \in 0..Horizon, configKey' \in 0..MaxRotations,
           config' \in [Path -> Backend \cup {None}], live' \in [LeaseId -> Backend \cup {None}],
           crashes' \in 0..MaxCrashes, fault' \subseteq LeaseId,
           lease' \in [LeaseId -> LeaseRow],
           \A l \in LeaseId : lease'[l].status # "absent" => lease'[l].path \in Path,
           \A l \in LeaseId : Row(l) => Row(l)',
           job' \in [Job -> JobState],
           \A j \in Job : job'[j] = job[j] \/ JobShape(job'[j])
    PROVE  TypeInv'
<1>1. TypeOK'
  BY DEF TypeOK
<1>2. ASSUME NEW j \in Job PROVE JobShape(job[j])'
  <2>1. job'[j].queue \subseteq LeaseId /\ job'[j].at \in LeaseId \cup {None}
    BY DEF JobState
  <2>2. JobShape(job'[j])
    BY DEF TypeInv, Shape
  <2> QED
    BY <2>1, <2>2 DEF JobShape
<1> QED
  BY <1>1, <1>2 DEF TypeInv, Shape

\* So does deleting a config, if the calls stay well formed.
LEMMA DropConfigOK ==
    ASSUME TypeInv, NEW p \in Path, DropConfig(p),
           UNCHANGED <<now, configKey, live, crashes>>,
           job' \in [Job -> JobState],
           \A j \in Job : job'[j] = job[j] \/ JobShape(job'[j])
    PROVE  TypeInv'
<1>1. \A l \in LeaseId : [lease[l] EXCEPT !.status = "dropped"] \in LeaseRow
  BY UpdatesOK DEF TypeInv, TypeOK
<1>2. \A l \in LeaseId : /\ [lease[l] EXCEPT !.status = "dropped"].path = lease[l].path
                         /\ [lease[l] EXCEPT !.status = "dropped"].status = "dropped"
  BY DEF TypeInv, TypeOK, LeaseRow
<1>3. /\ lease' \in [LeaseId -> LeaseRow]
      /\ \A l \in LeaseId : lease'[l].status # "absent" => lease'[l].path \in Path
      /\ \A l \in LeaseId : Row(l) => Row(l)'
  BY <1>1, <1>2 DEF TypeInv, TypeOK, Shape, DropConfig, Row
<1>4. config' \in [Path -> Backend \cup {None}] /\ fault' \subseteq LeaseId
  BY DEF TypeInv, TypeOK, DropConfig, LeasesOf
<1> QED
  BY <1>3, <1>4, ShapeKept DEF TypeInv, TypeOK

\* A provider's answer and the end of revokeLease leave a call well formed.
LEMMA AnswerOK ==
    ASSUME NEW state \in JobState, JobShape(state), state.at # None
    PROVE  /\ [state EXCEPT !.answered = TRUE] \in JobState
           /\ JobShape([state EXCEPT !.answered = TRUE])
<1>1. [state EXCEPT !.answered = TRUE] \in JobState
  BY DEF JobState
<1>2. state.kind # "idle"
  BY DEF JobShape, Idle
<1>3. /\ [state EXCEPT !.answered = TRUE].kind = state.kind
      /\ [state EXCEPT !.answered = TRUE].path = state.path
      /\ [state EXCEPT !.answered = TRUE].queue = state.queue
      /\ [state EXCEPT !.answered = TRUE].at = state.at
  BY DEF JobState
<1> QED
  BY <1>1, <1>2, <1>3 DEF JobShape

LEMMA LeaveOK ==
    ASSUME NEW state \in JobState, JobShape(state), state.kind # "idle"
    PROVE  /\ [state EXCEPT !.at = None, !.backend = None, !.answered = FALSE] \in JobState
           /\ JobShape([state EXCEPT !.at = None, !.backend = None, !.answered = FALSE])
<1> DEFINE left == [state EXCEPT !.at = None, !.backend = None, !.answered = FALSE]
<1>1. left \in JobState
  BY DEF JobState
<1>2. /\ left.kind = state.kind /\ left.path = state.path /\ left.queue = state.queue
      /\ left.at = None /\ ~left.answered
  BY DEF JobState
<1> HIDE DEF left
<1>3. JobShape(left)
  BY <1>2 DEF JobShape
<1> QED
  BY <1>1, <1>3 DEF left

LEMMA TypeInit == Init => TypeInv
BY ConstantsOK, IdleOK DEF Init, TypeInv, TypeOK, Shape, LeaseRow, NoRow

LEMMA TypeStep == TypeInv /\ [Next]_vars => TypeInv'
<1> SUFFICES ASSUME TypeInv, [Next]_vars PROVE TypeInv'
  OBVIOUS
<1> USE ConstantsOK
<1>0. /\ now \in 0..Horizon /\ configKey \in 0..MaxRotations /\ crashes \in 0..MaxCrashes
      /\ config \in [Path -> Backend \cup {None}]
      /\ live \in [LeaseId -> Backend \cup {None}]
      /\ lease \in [LeaseId -> LeaseRow]
      /\ job \in [Job -> JobState]
      /\ fault \subseteq LeaseId
      /\ \A l \in LeaseId : lease[l].status # "absent" => lease[l].path \in Path
      /\ \A j \in Job : JobShape(job[j])
  BY DEF TypeInv, TypeOK, Shape
<1>1. ASSUME NEW p \in Path, NEW b \in Backend, SaveConfig(p, b) PROVE TypeInv'
  BY <1>0, <1>1, ShapeKept DEF SaveConfig, LeasesOf, Row
<1>2. ASSUME RotateConfigKey PROVE TypeInv'
  BY <1>0, <1>2, ShapeKept DEF RotateConfigKey, Row
<1>3. ASSUME NEW p \in Path, NEW l \in LeaseId, CheckoutStart(p, l) PROVE TypeInv'
  <2> DEFINE row == [lease[l] EXCEPT !.status = "creating", !.path = p,
                                     !.backend = config[p]]
  <2>1. lease' = [lease EXCEPT ![l] = row]
    BY <1>3 DEF CheckoutStart
  <2>2. row \in LeaseRow
    BY <1>0, UpdatesOK
  <2>3. row.path = p
    BY <1>0 DEF LeaseRow
  <2>4. \A m \in LeaseId : Row(m) => Row(m)'
    BY <1>0, <1>3, <2>1 DEF CheckoutStart, Row
  <2> HIDE DEF row
  <2>5. /\ lease' \in [LeaseId -> LeaseRow]
        /\ \A m \in LeaseId : lease'[m].status # "absent" => lease'[m].path \in Path
    BY <1>0, <2>1, <2>2, <2>3
  <2>6. UNCHANGED <<now, configKey, config, live, job, crashes, fault>>
    BY <1>3 DEF CheckoutStart
  <2> QED
    BY <1>0, <2>4, <2>5, <2>6, ShapeKept
<1>4. ASSUME NEW l \in LeaseId, ProviderCreates(l) PROVE TypeInv'
  <2> DEFINE row == [lease[l] EXCEPT !.status = "created"]
  <2>1. lease' = [lease EXCEPT ![l] = row] /\ lease[l].status # "absent"
    BY <1>4 DEF ProviderCreates
  <2>2. row \in LeaseRow
    BY <1>0, UpdatesOK
  <2>3. row.path = lease[l].path /\ lease[l].backend \in Backend \cup {None}
    BY <1>0 DEF LeaseRow
  <2>4. \A m \in LeaseId : Row(m) => Row(m)'
    BY <1>0, <1>4, <2>1 DEF ProviderCreates, Row
  <2> HIDE DEF row
  <2> QED
    BY <1>0, <1>4, <2>1, <2>2, <2>3, <2>4, ShapeKept DEF ProviderCreates
<1>5. ASSUME NEW l \in LeaseId, CheckoutFails(l) PROVE TypeInv'
  <2> DEFINE row == [lease[l] EXCEPT !.status = "failed"]
  <2>1. lease' = [lease EXCEPT ![l] = row] /\ lease[l].status # "absent"
    BY <1>5 DEF CheckoutFails, InProgress
  <2>2. row \in LeaseRow
    BY <1>0, UpdatesOK
  <2>3. row.path = lease[l].path
    BY <1>0 DEF LeaseRow
  <2>4. \A m \in LeaseId : Row(m) => Row(m)'
    BY <1>0, <1>5, <2>1 DEF CheckoutFails, InProgress, Row
  <2> HIDE DEF row
  <2> QED
    BY <1>0, <1>5, <2>1, <2>2, <2>3, <2>4, ShapeKept DEF CheckoutFails
<1>6. ASSUME NEW l \in LeaseId, NEW ttl \in Ttl, CheckoutFinish(l, ttl) PROVE TypeInv'
  <2> DEFINE failed == [lease[l] EXCEPT !.status = "failed"]
             stored == [lease[l] EXCEPT !.status = "stored", !.expiresAt = now + ttl,
                                        !.key = configKey]
  <2>1. /\ lease' = [lease EXCEPT ![l] = failed] \/ lease' = [lease EXCEPT ![l] = stored]
        /\ lease[l].status = "created"
    BY <1>6 DEF CheckoutFinish
  <2>2. now + ttl \in Nat
    BY <1>0
  <2>3. failed \in LeaseRow /\ stored \in LeaseRow
    BY <1>0, <2>2, UpdatesOK
  <2>4. failed.path = lease[l].path /\ stored.path = lease[l].path
    BY <1>0 DEF LeaseRow
  <2> HIDE DEF failed, stored
  <2>5. \A m \in LeaseId : Row(m) => Row(m)'
    BY <1>0, <2>1 DEF Row
  <2> QED
    BY <1>0, <1>6, <2>1, <2>3, <2>4, <2>5, ShapeKept DEF CheckoutFinish
<1>7. ASSUME NEW j \in Request, NEW l \in LeaseId, RevokeRequest(j, l) PROVE TypeInv'
  <2> DEFINE state == [Idle EXCEPT !.kind = "revoke", !.queue = {l}]
  <2>1. state \in JobState /\ state.kind = "revoke" /\ state.queue = {l}
    BY DEF Idle, JobState
  <2>2. Row(l)
    BY <1>7 DEF RevokeRequest, Unrevoked, Row
  <2> HIDE DEF state
  <2>3. Enter(state, l) \in JobState /\ JobShape(Enter(state, l))
    BY <2>1, <2>2, EnterOK
  <2>4. job' = [job EXCEPT ![j] = Enter(state, l)] /\ j \in Job
    BY <1>7 DEF RevokeRequest, Job, state
  <2> QED
    BY <1>0, <1>7, <2>3, <2>4, ShapeKept DEF RevokeRequest, Row
<1>8. ASSUME NEW j \in Request, NEW p \in Path, DeleteConfig(j, p) PROVE TypeInv'
  <2>1. CASE ActiveLeases(p) = {}
    BY <1>0, <1>8, <2>1, DropConfigOK DEF DeleteConfig
  <2>2. CASE ActiveLeases(p) # {}
    <3> DEFINE state == [Idle EXCEPT !.kind = "delete", !.path = p, !.queue = ActiveLeases(p)]
    <3>1. /\ state \in JobState /\ state.kind = "delete" /\ state.path = p
          /\ state.queue = ActiveLeases(p)
      BY DEF Idle, JobState, ActiveLeases
    <3>2. \A m \in ActiveLeases(p) : Row(m)
      BY DEF ActiveLeases, Unrevoked, Row
    <3>3. PICK l \in ActiveLeases(p) : job' = [job EXCEPT ![j] = Enter(state, l)]
      BY <1>8, <2>2 DEF DeleteConfig
    <3> HIDE DEF state
    <3>4. l \in LeaseId /\ j \in Job
      BY DEF ActiveLeases, Job
    <3>5. Enter(state, l) \in JobState /\ JobShape(Enter(state, l))
      BY <3>1, <3>2, <3>4, EnterOK
    <3> QED
      BY <1>0, <1>8, <2>2, <3>3, <3>4, <3>5, ShapeKept DEF DeleteConfig, Row
  <2> QED
    BY <2>1, <2>2
<1>9. ASSUME NEW j \in Reaper, ReapExpired(j) PROVE TypeInv'
  <2> DEFINE state == [Idle EXCEPT !.kind = "reap", !.queue = ExpiredLeases]
  <2>1. state \in JobState /\ state.kind = "reap" /\ state.queue = ExpiredLeases
    BY DEF Idle, JobState, ExpiredLeases
  <2>2. \A m \in ExpiredLeases : Row(m)
    BY DEF ExpiredLeases, Lapsed, Unrevoked, Row
  <2>3. PICK l \in ExpiredLeases : job' = [job EXCEPT ![j] = Enter(state, l)]
    BY <1>9 DEF ReapExpired
  <2> HIDE DEF state
  <2>4. l \in LeaseId /\ j \in Job
    BY DEF ExpiredLeases, Job
  <2>5. Enter(state, l) \in JobState /\ JobShape(Enter(state, l))
    BY <2>1, <2>2, <2>4, EnterOK
  <2> QED
    BY <1>0, <1>9, <2>3, <2>4, <2>5, ShapeKept DEF ReapExpired, Row
<1>10. ASSUME NEW j \in Job, NEW l \in LeaseId, NextInQueue(j, l) PROVE TypeInv'
  <2>1. /\ job[j].kind # "idle"
        /\ job[j].kind = "delete" => job[j].path \in Path
        /\ \A m \in job[j].queue : Row(m)
    BY <1>0, <1>10 DEF NextInQueue, JobShape, Idle
  <2>2. Enter(job[j], l) \in JobState /\ JobShape(Enter(job[j], l))
    BY <1>0, <2>1, EnterOK
  <2>3. job' = [job EXCEPT ![j] = Enter(job[j], l)]
    BY <1>10 DEF NextInQueue
  <2> QED
    BY <1>0, <1>10, <2>2, <2>3, ShapeKept DEF NextInQueue, Row
<1>11. ASSUME NEW j \in Job, ProviderRevokes(j) PROVE TypeInv'
  <2>1. job' = [job EXCEPT ![j] = [job[j] EXCEPT !.answered = TRUE]]
    BY <1>11 DEF ProviderRevokes
  <2>2. live' \in [LeaseId -> Backend \cup {None}]
    BY <1>0, <1>11 DEF ProviderRevokes
  <2> QED
    BY <1>0, <1>11, <2>1, <2>2, AnswerOK, ShapeKept DEF ProviderRevokes, Row
<1>12. ASSUME NEW j \in Job, ProviderFails(j) PROVE TypeInv'
  <2>1. job' = [job EXCEPT ![j] = [job[j] EXCEPT !.answered = TRUE]]
    BY <1>12 DEF ProviderFails
  <2>2. job[j].at \in LeaseId
    BY <1>0, <1>12 DEF ProviderFails, JobState
  <2> QED
    BY <1>0, <1>12, <2>1, <2>2, AnswerOK, ShapeKept DEF ProviderFails, Row
<1>13. ASSUME NEW j \in Job, MarkRevoked(j) PROVE TypeInv'
  <2> DEFINE at == job[j].at
  <2>1. at \in LeaseId
    BY <1>0, <1>13 DEF MarkRevoked, JobShape, JobState
  <2>2. [lease[at] EXCEPT !.revoked = TRUE] \in LeaseRow
    BY <1>0, <2>1, UpdatesOK
  <2>3. /\ [lease[at] EXCEPT !.revoked = TRUE].path = lease[at].path
        /\ [lease[at] EXCEPT !.revoked = TRUE].status = lease[at].status
    BY <1>0, <2>1 DEF LeaseRow
  <2>4. lease' = lease \/ lease' = [lease EXCEPT ![at] = [lease[at] EXCEPT !.revoked = TRUE]]
    BY <1>13 DEF MarkRevoked
  <2>5. job' = [job EXCEPT ![j] = [job[j] EXCEPT !.at = None, !.backend = None, !.answered = FALSE]]
    BY <1>13 DEF MarkRevoked
  <2>6. job[j].kind # "idle"
    BY <1>0, <1>13 DEF MarkRevoked, JobShape, Idle
  <2>7. /\ lease' \in [LeaseId -> LeaseRow]
        /\ \A l \in LeaseId : lease'[l].status # "absent" => lease'[l].path \in Path
        /\ \A l \in LeaseId : Row(l) => Row(l)'
    <3>1. /\ lease \in [LeaseId -> LeaseRow]
          /\ \A l \in LeaseId : lease[l].status # "absent" => lease[l].path \in Path
      BY <1>0
    <3>2. lease' \in [LeaseId -> LeaseRow]
      BY <2>2, <2>4, <3>1
    <3>3. \A l \in LeaseId : lease'[l].path = lease[l].path /\ lease'[l].status = lease[l].status
      BY <2>3, <2>4, <3>1
    <3> QED
      BY <3>1, <3>2, <3>3 DEF Row
  <2>8. /\ job' \in [Job -> JobState]
        /\ \A i \in Job : job'[i] = job[i] \/ JobShape(job'[i])
    BY <1>0, <2>5, <2>6, LeaveOK
  <2>9. UNCHANGED <<now, configKey, config, live, crashes, fault>>
    BY <1>13 DEF MarkRevoked
  <2> QED
    BY <1>0, <2>7, <2>8, <2>9, ShapeKept
<1>14. ASSUME NEW j \in Job, JobEnds(j) PROVE TypeInv'
  BY <1>0, <1>14, IdleOK, ShapeKept DEF JobEnds, Row
<1>15. ASSUME NEW j \in Job, DeleteConfigEnds(j) PROVE TypeInv'
  <2>1. job[j].path \in Path
    BY <1>0, <1>15 DEF DeleteConfigEnds, JobShape
  <2>2. /\ job' \in [Job -> JobState]
        /\ \A i \in Job : job'[i] = job[i] \/ JobShape(job'[i])
    BY <1>0, <1>15, IdleOK DEF DeleteConfigEnds
  <2> QED
    BY <1>0, <1>15, <2>1, <2>2, DropConfigOK DEF DeleteConfigEnds
<1>16. ASSUME Crash PROVE TypeInv'
  <2>1. \A l \in LeaseId : [lease[l] EXCEPT !.status = "failed"] \in LeaseRow
    BY <1>0, UpdatesOK
  <2>2. \A l \in LeaseId : [lease[l] EXCEPT !.status = "failed"].path = lease[l].path
    BY <1>0 DEF LeaseRow
  <2>3. \A l \in LeaseId : InProgress(l) => ~Row(l) /\ lease[l].status # "absent"
    BY DEF InProgress, Row
  <2>4. /\ lease' \in [LeaseId -> LeaseRow]
        /\ \A l \in LeaseId : lease'[l].status # "absent" => lease'[l].path \in Path
        /\ \A l \in LeaseId : Row(l) => Row(l)'
    BY <1>0, <1>16, <2>1, <2>2, <2>3 DEF Crash, Row
  <2> QED
    BY <1>0, <1>16, <2>4, IdleOK, ShapeKept DEF Crash
<1>17. ASSUME Tick PROVE TypeInv'
  BY <1>0, <1>17, ShapeKept DEF Tick, Row
<1>18. CASE UNCHANGED vars
  BY <1>0, <1>18, ShapeKept DEF vars, Row
<1> QED
  BY <1>1, <1>2, <1>3, <1>4, <1>5, <1>6, <1>7, <1>8, <1>9, <1>10,
     <1>11, <1>12, <1>13, <1>14, <1>15, <1>16, <1>17, <1>18
  DEF Next, Configs, Checkouts, Calls, Progress

\* The two tables, the credentials and the calls in progress always have the
\* shape the code gives them, whatever is interleaved and interrupted.
THEOREM TypeCorrect == Spec => []TypeOK
<1>1. Init => TypeInv
  BY TypeInit
<1>2. TypeInv /\ [Next]_vars => TypeInv'
  BY TypeStep
<1>3. TypeInv => TypeOK
  BY DEF TypeInv
<1> QED
  BY <1>1, <1>2, <1>3, PTL DEF Spec

-------------------------------------------------------------------------------
(* No credential is lost, none is hollowed out.                            *)

\* What the two properties rest on, lease by lease.  As long as the world
\* outside has not disturbed a lease, its credential is where its config says,
\* every call in progress on it talks to that backend, and the credential is
\* gone exactly when some call has been told so or the row is marked.
Sound(l) ==
    /\ lease[l].status \in {"absent", "creating"} => live[l] = None
    /\ lease[l].status \in {"absent", "creating", "created"} => ~lease[l].revoked
    /\ l \notin fault =>
          /\ lease[l].status \in {"absent", "creating", "created", "stored"}
          /\ InProgress(l) => /\ lease[l].backend = config[lease[l].path]
                              /\ lease[l].backend # None
          /\ lease[l].status = "created" => live[l] = lease[l].backend
          /\ lease[l].status = "stored" /\ live[l] # None => live[l] = config[lease[l].path]
          /\ lease[l].status = "stored" /\ lease[l].revoked => live[l] = None
          /\ \A j \in Job : job[j].at = l =>
                IF job[j].answered THEN live[l] = None
                                   ELSE job[j].backend = config[lease[l].path]
          /\ Unrevoked(l) /\ live[l] = None =>
                \E j \in Job : job[j].at = l /\ job[j].answered

SoundInv == \A l \in LeaseId : Sound(l)

LEMMA SoundInit == Init => SoundInv
BY ConstantsOK DEF Init, SoundInv, Sound, NoRow, Idle, InProgress, Unrevoked

\* A call that turns to its next lease leaves every lease sound.
LEMMA EntersSound ==
    ASSUME TypeInv, NEW x \in LeaseId, Sound(x), NEW j \in Job, NEW l \in LeaseId,
           NEW state \in JobState, job[j].at = None,
           job' = [job EXCEPT ![j] = Enter(state, l)],
           UNCHANGED <<config, lease, live, fault>>
    PROVE  Sound(x)'
<1>1. /\ ~job'[j].answered
      /\ job'[j].at = x => job'[j].backend = config[lease[x].path]
  BY ConstantsOK DEF TypeInv, TypeOK, Enter, JobState
<1>2. \A i \in Job \ {j} : job'[i] = job[i]
  BY DEF TypeInv, TypeOK
<1> QED
  BY <1>1, <1>2, ConstantsOK DEF Sound, InProgress, Unrevoked

\* Deleting a config disturbs the leases of its path and no other.
LEMMA DropsSound ==
    ASSUME TypeInv, NEW x \in LeaseId, Sound(x), NEW p \in Path, DropConfig(p),
           UNCHANGED live,
           \A i \in Job : job[i].at = x \/ job'[i].at = x => job'[i] = job[i]
    PROVE  Sound(x)'
<1>1. CASE x \in LeasesOf(p)
  <2>1. x \in fault' /\ lease'[x] \in {lease[x], [lease[x] EXCEPT !.status = "dropped"]}
    BY <1>1 DEF TypeInv, TypeOK, DropConfig
  <2> QED
    BY <2>1 DEF TypeInv, TypeOK, LeaseRow, Sound
<1>2. CASE x \notin LeasesOf(p)
  <2>1. /\ lease'[x] = lease[x] /\ fault \subseteq fault'
        /\ \/ lease[x].path # p
           \/ ~InProgress(x) /\ lease[x].status # "stored"
    BY <1>2 DEF TypeInv, TypeOK, DropConfig, LeasesOf
  <2>2. lease[x].path # p => config'[lease[x].path] = config[lease[x].path]
    <3>1. CASE config' = [config EXCEPT ![p] = None]
      BY <3>1 DEF TypeInv, TypeOK
    <3>2. CASE UNCHANGED config
      BY <3>2
    <3>3. QED
      BY <3>1, <3>2 DEF DropConfig
  <2>3. \A i \in Job : job[i].at = x => Row(x)
    BY ConstantsOK DEF TypeInv, Shape, JobShape
  <2> QED
    BY <2>1, <2>2, <2>3 DEF Sound, InProgress, Unrevoked, Row
<1> QED
  BY <1>1, <1>2

LEMMA SoundStep == TypeInv /\ SoundInv /\ [Next]_vars => SoundInv'
<1> SUFFICES ASSUME TypeInv, SoundInv, [Next]_vars, NEW x \in LeaseId PROVE Sound(x)'
  BY DEF SoundInv
<1> USE ConstantsOK
<1>0. /\ Sound(x)
      /\ config \in [Path -> Backend \cup {None}]
      /\ live \in [LeaseId -> Backend \cup {None}]
      /\ lease \in [LeaseId -> LeaseRow]
      /\ job \in [Job -> JobState]
      /\ \A l \in LeaseId : lease[l].status # "absent" => lease[l].path \in Path
      /\ \A j \in Job : JobShape(job[j])
  BY DEF TypeInv, TypeOK, Shape, SoundInv
<1>1. ASSUME NEW p \in Path, NEW b \in Backend, SaveConfig(p, b) PROVE Sound(x)'
  <2>1. CASE x \in LeasesOf(p)
    BY <1>0, <1>1, <2>1 DEF Sound, SaveConfig
  <2>2. CASE x \notin LeasesOf(p)
    <3>1. \/ lease[x].path # p
          \/ ~InProgress(x) /\ lease[x].status # "stored"
      BY <2>2 DEF LeasesOf
    <3>2. \A j \in Job : job[j].at = x => Row(x)
      BY <1>0 DEF JobShape
    <3> QED
      BY <1>0, <1>1, <2>2, <3>1, <3>2 DEF Sound, InProgress, Unrevoked, Row, SaveConfig
  <2> QED
    BY <2>1, <2>2
<1>2. ASSUME RotateConfigKey PROVE Sound(x)'
  BY <1>0, <1>2 DEF Sound, InProgress, Unrevoked, RotateConfigKey
<1>3. ASSUME NEW p \in Path, NEW l \in LeaseId, CheckoutStart(p, l)
      PROVE  Sound(x)'
  BY <1>0, <1>3 DEF Sound, InProgress, Unrevoked, LeaseRow, JobShape, Row, CheckoutStart
<1>4. ASSUME NEW l \in LeaseId, ProviderCreates(l) PROVE Sound(x)'
  <2>1. \A j \in Job : job[j].at = x => Row(x)
    BY <1>0 DEF JobShape
  <2> QED
    BY <1>0, <1>4, <2>1 DEF Sound, InProgress, Unrevoked, Row, LeaseRow, ProviderCreates
<1>5. ASSUME NEW l \in LeaseId, CheckoutFails(l) PROVE Sound(x)'
  BY <1>0, <1>5 DEF Sound, InProgress, Unrevoked, LeaseRow, CheckoutFails
<1>6. ASSUME NEW l \in LeaseId, NEW ttl \in Ttl, CheckoutFinish(l, ttl)
      PROVE  Sound(x)'
  BY <1>0, <1>6 DEF Sound, InProgress, Unrevoked, LeaseRow, JobShape, Row, CheckoutFinish
<1>7. ASSUME NEW j \in Request, NEW l \in LeaseId, RevokeRequest(j, l)
      PROVE  Sound(x)'
  <2> DEFINE state == [Idle EXCEPT !.kind = "revoke", !.queue = {l}]
  <2>1. state \in JobState
    BY DEF Idle, JobState
  <2>2. job' = [job EXCEPT ![j] = Enter(state, l)] /\ j \in Job /\ job[j].at = None
    BY <1>0, <1>7 DEF RevokeRequest, Job, JobShape, Idle
  <2> HIDE DEF state
  <2>3. UNCHANGED <<config, lease, live, fault>>
    BY <1>7 DEF RevokeRequest
  <2> QED
    BY <1>0, <2>1, <2>2, <2>3, EntersSound
<1>8. ASSUME NEW j \in Request, NEW p \in Path, DeleteConfig(j, p)
      PROVE  Sound(x)'
  <2>1. CASE ActiveLeases(p) = {}
    BY <1>0, <1>8, <2>1, DropsSound DEF DeleteConfig
  <2>2. CASE ActiveLeases(p) # {}
    <3> DEFINE state == [Idle EXCEPT !.kind = "delete", !.path = p, !.queue = ActiveLeases(p)]
    <3>1. state \in JobState
      BY DEF Idle, JobState, ActiveLeases
    <3>2. PICK l \in ActiveLeases(p) : job' = [job EXCEPT ![j] = Enter(state, l)]
      BY <1>8, <2>2 DEF DeleteConfig
    <3> HIDE DEF state
    <3>3. l \in LeaseId /\ j \in Job
      BY DEF ActiveLeases, Job
    <3>4. job[j].at = None
      BY <1>0, <1>8, <3>3 DEF DeleteConfig, JobShape, Idle
    <3>5. UNCHANGED <<config, lease, live, fault>>
      BY <1>8, <2>2 DEF DeleteConfig
    <3> QED
      BY <1>0, <3>1, <3>2, <3>3, <3>4, <3>5, EntersSound
  <2> QED
    BY <2>1, <2>2
<1>9. ASSUME NEW j \in Reaper, ReapExpired(j) PROVE Sound(x)'
  <2> DEFINE state == [Idle EXCEPT !.kind = "reap", !.queue = ExpiredLeases]
  <2>1. state \in JobState
    BY DEF Idle, JobState, ExpiredLeases
  <2>2. PICK l \in ExpiredLeases : job' = [job EXCEPT ![j] = Enter(state, l)]
    BY <1>9 DEF ReapExpired
  <2>3. l \in LeaseId /\ j \in Job /\ job[j].at = None
    BY <1>0, <1>9 DEF ReapExpired, ExpiredLeases, Job, JobShape, Idle
  <2> HIDE DEF state
  <2>4. UNCHANGED <<config, lease, live, fault>>
    BY <1>9 DEF ReapExpired
  <2> QED
    BY <1>0, <2>1, <2>2, <2>3, <2>4, EntersSound
<1>10. ASSUME NEW j \in Job, NEW l \in LeaseId, NextInQueue(j, l)
      PROVE  Sound(x)'
  BY <1>0, <1>10, EntersSound DEF NextInQueue
<1>11. ASSUME NEW j \in Job, ProviderRevokes(j) PROVE Sound(x)'
  <2>1. job[j].at \in LeaseId
    BY <1>0, <1>11 DEF ProviderRevokes, JobState
  <2>2. /\ job'[j].at = job[j].at /\ job'[j].answered
        /\ \A i \in Job \ {j} : job'[i] = job[i]
    BY <1>0, <1>11 DEF ProviderRevokes, JobState
  <2>3. UNCHANGED <<config, lease, fault>>
    BY <1>11 DEF ProviderRevokes
  <2>4. CASE job[j].at = x
    <3>1. Row(x)
      BY <1>0, <2>4 DEF JobShape
    <3>2. x \notin fault => live[x] \in {None, job[j].backend}
      BY <1>0, <1>11, <2>4, <3>1 DEF Sound, ProviderRevokes, Row
    <3>3. x \notin fault => live'[x] = None
      BY <1>0, <1>11, <2>4, <3>2 DEF ProviderRevokes
    <3> QED
      BY <1>0, <2>2, <2>3, <2>4, <3>1, <3>3 DEF Sound, InProgress, Unrevoked, Row
  <2>5. CASE job[j].at # x
    <3>1. live'[x] = live[x]
      BY <1>0, <1>11, <2>5 DEF ProviderRevokes
    <3> QED
      BY <1>0, <2>2, <2>3, <2>5, <3>1 DEF Sound, InProgress, Unrevoked
  <2> QED
    BY <2>4, <2>5
<1>12. ASSUME NEW j \in Job, ProviderFails(j) PROVE Sound(x)'
  BY <1>0, <1>12 DEF Sound, InProgress, Unrevoked, JobState, ProviderFails
<1>13. ASSUME NEW j \in Job, MarkRevoked(j) PROVE Sound(x)'
  BY <1>0, <1>13 DEF Sound, InProgress, Unrevoked, LeaseRow, JobState, MarkRevoked
<1>14. ASSUME NEW j \in Job, JobEnds(j) PROVE Sound(x)'
  <2>1. job' = [job EXCEPT ![j] = Idle] /\ job[j].at = None
    BY <1>14 DEF JobEnds, Finished
  <2>2. \A i \in Job : job[i].at = x \/ job'[i].at = x => job'[i] = job[i]
    BY <1>0, <2>1 DEF Idle
  <2> QED
    BY <1>0, <1>14, <2>2 DEF Sound, InProgress, Unrevoked, JobEnds
<1>15. ASSUME NEW j \in Job, DeleteConfigEnds(j) PROVE Sound(x)'
  <2>1. job' = [job EXCEPT ![j] = Idle] /\ job[j].at = None
    BY <1>15 DEF DeleteConfigEnds, Finished
  <2>2. \A i \in Job : job[i].at = x \/ job'[i].at = x => job'[i] = job[i]
    BY <1>0, <2>1 DEF Idle
  <2>3. job[j].path \in Path
    BY <1>0, <1>15 DEF DeleteConfigEnds, JobShape
  <2> QED
    BY <1>0, <1>15, <2>2, <2>3, DropsSound DEF DeleteConfigEnds
<1>16. ASSUME Crash PROVE Sound(x)'
  <2>1. \A j \in Job : job'[j].at # x
    BY <1>16 DEF Crash, Idle
  <2>2. UNCHANGED <<config, live>>
    BY <1>16 DEF Crash
  <2>3. CASE InProgress(x)
    <3>1. x \in fault' /\ lease'[x] = [lease[x] EXCEPT !.status = "failed"]
      BY <1>16, <2>3 DEF Crash
    <3> QED
      BY <1>0, <3>1 DEF Sound, LeaseRow
  <2>4. CASE ~InProgress(x)
    <3>1. lease'[x] = lease[x] /\ fault \subseteq fault'
      BY <1>16, <2>4 DEF Crash
    <3>2. x \notin fault' => ~\E j \in Job : job[j].at = x /\ job[j].answered
      BY <1>16 DEF Crash
    <3> QED
      BY <1>0, <2>1, <2>2, <2>4, <3>1, <3>2 DEF Sound, InProgress, Unrevoked
  <2> QED
    BY <2>3, <2>4
<1>17. ASSUME Tick PROVE Sound(x)'
  BY <1>0, <1>17 DEF Sound, InProgress, Unrevoked, Tick
<1>18. CASE UNCHANGED vars
  BY <1>0, <1>18 DEF Sound, InProgress, Unrevoked, vars
<1> QED
  BY <1>1, <1>2, <1>3, <1>4, <1>5, <1>6, <1>7, <1>8, <1>9, <1>10,
     <1>11, <1>12, <1>13, <1>14, <1>15, <1>16, <1>17, <1>18
  DEF Next, Configs, Checkouts, Calls, Progress

\* Overlapping reapers, requests, deletions and rotations lose no credential:
\* the server knows every one that exists, unless a provider failed, it was
\* killed in mid-call or the config was changed under the lease.
THEOREM NoneLost == Spec => []NothingLost
<1>1. Init => TypeInv /\ SoundInv
  BY TypeInit, SoundInit
<1>2. TypeInv /\ SoundInv /\ [Next]_vars => TypeInv' /\ SoundInv'
  BY TypeStep, SoundStep
<1>3. SoundInv => NothingLost
  BY DEF SoundInv, Sound, NothingLost, InProgress, Unrevoked
<1> QED
  BY <1>1, <1>2, <1>3, PTL DEF Spec

\* An unrevoked row stands for a credential that exists, up to the moment
\* between the provider's answer and the UPDATE.
THEOREM RowsBacked == Spec => []LeaseIsBacked
<1>1. Init => TypeInv /\ SoundInv
  BY TypeInit, SoundInit
<1>2. TypeInv /\ SoundInv /\ [Next]_vars => TypeInv' /\ SoundInv'
  BY TypeStep, SoundStep
<1>3. SoundInv => LeaseIsBacked
  BY DEF SoundInv, Sound, LeaseIsBacked
<1> QED
  BY <1>1, <1>2, <1>3, PTL DEF Spec

-------------------------------------------------------------------------------
(* The reaper and the leases that still have time.                         *)

\* A row that is stored keeps its deadline: renewing does not exist here.
LEMMA DeadlineKept ==
    ASSUME TypeInv, [Next]_vars, NEW l \in LeaseId, Row(l)
    PROVE  lease'[l].expiresAt = lease[l].expiresAt
<1> USE DEF TypeInv, TypeOK, LeaseRow, Row
<1>1. CASE Configs
  BY <1>1 DEF Configs, SaveConfig, RotateConfigKey
<1>2. ASSUME NEW m \in LeaseId, NEW p \in Path, CheckoutStart(p, m)
      PROVE  lease'[l].expiresAt = lease[l].expiresAt
  BY <1>2 DEF CheckoutStart
<1>3. ASSUME NEW m \in LeaseId, ProviderCreates(m) PROVE lease'[l].expiresAt = lease[l].expiresAt
  BY <1>3 DEF ProviderCreates
<1>4. ASSUME NEW m \in LeaseId, CheckoutFails(m) PROVE lease'[l].expiresAt = lease[l].expiresAt
  BY <1>4 DEF CheckoutFails
<1>5. ASSUME NEW m \in LeaseId, NEW ttl \in Ttl, CheckoutFinish(m, ttl)
      PROVE  lease'[l].expiresAt = lease[l].expiresAt
  <2>1. m # l
    BY <1>5 DEF CheckoutFinish
  <2> QED
    BY <1>5, <2>1 DEF CheckoutFinish
<1>6. ASSUME NEW p \in Path, DropConfig(p) PROVE lease'[l].expiresAt = lease[l].expiresAt
  BY <1>6 DEF DropConfig
<1>7. CASE Calls
  BY <1>6, <1>7 DEF Calls, RevokeRequest, DeleteConfig, ReapExpired
<1>8. ASSUME NEW j \in Job, Progress(j) PROVE lease'[l].expiresAt = lease[l].expiresAt
  <2>1. CASE MarkRevoked(j)
    BY <2>1 DEF MarkRevoked
  <2>2. CASE DeleteConfigEnds(j)
    <3>1. job[j].path \in Path
      BY <2>2 DEF DeleteConfigEnds, Shape, JobShape
    <3> QED
      BY <1>6, <2>2, <3>1 DEF DeleteConfigEnds
  <2> QED
    BY <1>8, <2>1, <2>2
    DEF Progress, NextInQueue, ProviderRevokes, ProviderFails, JobEnds
<1>9. CASE Crash
  BY <1>9 DEF Crash
<1>10. Tick \/ UNCHANGED vars => lease' = lease
  BY DEF Tick, vars
<1> QED
  BY <1>1, <1>2, <1>3, <1>4, <1>5, <1>7, <1>8, <1>9, <1>10 DEF Next, Checkouts

\* What a call has listed, or is at.
Holds(state, l) == l \in state.queue \/ state.at = l

\* Moving a call along, it comes to hold nothing new.
LEMMA MovesOn ==
    ASSUME NEW state \in JobState, NEW l \in LeaseId, NEW m \in LeaseId, l \in state.queue
    PROVE  Holds(Enter(state, l), m) => Holds(state, m)
<1>1. Enter(state, l).queue = state.queue \ {l} /\ Enter(state, l).at \in {l, None}
  BY DEF Enter, JobState
<1> QED
  BY <1>1, ConstantsOK DEF Holds

LEMMA ReaperHolds ==
    ASSUME TypeInv, [Next]_vars, NEW j \in Reaper, NEW m \in LeaseId, Holds(job'[j], m)
    PROVE  Holds(job[j], m) \/ Lapsed(m)
<1> USE DEF TypeInv, TypeOK
<1>0. j \in Job /\ j \notin Request /\ job[j] \in JobState
  BY ConstantsOK DEF Job
<1>1. ASSUME NEW i \in Job, i # j, \A k \in Job : k # i => job'[k] = job[k]
      PROVE  Holds(job[j], m)
  BY <1>0, <1>1
<1>2. CASE job' = job
  BY <1>2
<1>3. ASSUME NEW i \in Request, NEW state, job' = [job EXCEPT ![i] = state]
      PROVE  Holds(job[j], m)
  BY <1>0, <1>3
<1>4. ASSUME NEW i \in Reaper, ReapExpired(i) PROVE Holds(job[j], m) \/ Lapsed(m)
  <2>1. PICK l \in ExpiredLeases :
          job' = [job EXCEPT ![i] =
                    Enter([Idle EXCEPT !.kind = "reap", !.queue = ExpiredLeases], l)]
    BY <1>4 DEF ReapExpired
  <2> DEFINE state == [Idle EXCEPT !.kind = "reap", !.queue = ExpiredLeases]
  <2>2. state \in JobState /\ state.queue = ExpiredLeases /\ state.at = None
    BY DEF Idle, JobState, ExpiredLeases
  <2>3. l \in LeaseId
    BY DEF ExpiredLeases
  <2> HIDE DEF state
  <2>4. Holds(Enter(state, l), m) => Lapsed(m)
    BY <2>2, <2>3, MovesOn, ConstantsOK DEF Holds, ExpiredLeases
  <2>5. CASE i = j
    <3>1. job'[j] = Enter(state, l)
      BY <1>0, <2>1, <2>5 DEF state
    <3> QED
      BY <2>4, <3>1
  <2>6. CASE i # j
    BY <1>0, <2>1, <2>6
  <2> QED
    BY <2>5, <2>6
<1>5. ASSUME NEW i \in Job, Progress(i) PROVE Holds(job[j], m)
  <2>1. CASE i # j
    BY <1>0, <1>5, <2>1 DEF Progress, NextInQueue, ProviderRevokes, ProviderFails, MarkRevoked,
                            JobEnds, DeleteConfigEnds
  <2>2. CASE i = j
    <3>1. ASSUME NEW l \in LeaseId, NextInQueue(j, l) PROVE Holds(job[j], m)
      <4>1. job'[j] = Enter(job[j], l) /\ l \in job[j].queue
        BY <1>0, <3>1 DEF NextInQueue
      <4> QED
        BY <1>0, <4>1, MovesOn
    <3>2. CASE ProviderRevokes(j) \/ ProviderFails(j)
      BY <1>0, <3>2 DEF ProviderRevokes, ProviderFails, Holds, JobState
    <3>3. CASE MarkRevoked(j)
      BY <1>0, <3>3, ConstantsOK DEF MarkRevoked, Holds, JobState
    <3>4. CASE JobEnds(j) \/ DeleteConfigEnds(j)
      BY <1>0, <3>4, ConstantsOK DEF JobEnds, DeleteConfigEnds, Holds, Idle
    <3> QED
      BY <1>5, <2>2, <3>1, <3>2, <3>3, <3>4 DEF Progress
  <2> QED
    BY <2>1, <2>2
<1>6. CASE Crash
  <2>1. job'[j] = Idle
    BY <1>0, <1>6 DEF Crash
  <2> QED
    BY <2>1, ConstantsOK DEF Holds, Idle
<1>7. Configs \/ Checkouts \/ Tick \/ UNCHANGED vars => job' = job
  BY DEF Configs, SaveConfig, RotateConfigKey, Checkouts, CheckoutStart, ProviderCreates,
         CheckoutFails, CheckoutFinish, Tick, vars
<1>8. ASSUME NEW i \in Request, \/ \E l \in LeaseId : RevokeRequest(i, l)
                                \/ \E p \in Path : DeleteConfig(i, p)
      PROVE  Holds(job[j], m)
  BY <1>2, <1>3, <1>8 DEF RevokeRequest, DeleteConfig
<1> QED
  BY <1>2, <1>4, <1>5, <1>6, <1>7, <1>8 DEF Next, Calls

\* A run of the reaper holds only leases whose time is over.
Spared == \A j \in Reaper, l \in LeaseId : Holds(job[j], l) => lease[l].expiresAt <= now

LEMMA SparedInit == Init => Spared
BY ConstantsOK DEF Init, Spared, Holds, Idle, Job

LEMMA SparedStep ==
    ASSUME TypeInv, Spared, [Next]_vars
    PROVE  Spared'
<1> SUFFICES ASSUME NEW j \in Reaper, NEW l \in LeaseId, Holds(job'[j], l)
             PROVE  lease'[l].expiresAt <= now'
  BY DEF Spared, Holds
<1>1. now' = now \/ now' = now + 1
  BY DEF Next, Configs, SaveConfig, RotateConfigKey, Checkouts, CheckoutStart, ProviderCreates,
         CheckoutFails, CheckoutFinish, Calls, RevokeRequest, DeleteConfig, ReapExpired,
         Progress, NextInQueue, ProviderRevokes, ProviderFails, MarkRevoked, JobEnds,
         DeleteConfigEnds, Crash, Tick, vars
<1>2. lease[l].expiresAt <= now
  BY ReaperHolds DEF Spared, Lapsed
<1>3. Row(l)
  <2>1. CASE Holds(job[j], l)
    BY <2>1, ConstantsOK DEF TypeInv, Shape, JobShape, Holds, Job
  <2>2. CASE Lapsed(l)
    BY <2>2 DEF Lapsed, Unrevoked, Row
  <2> QED
    BY <2>1, <2>2, ReaperHolds
<1>4. lease[l].expiresAt \in Nat /\ now \in Nat
  BY ConstantsOK DEF TypeInv, TypeOK, LeaseRow
<1> QED
  BY <1>1, <1>2, <1>3, <1>4, DeadlineKept

\* Only a call for that lease destroys a credential.
LEMMA WhoDestroys ==
    ASSUME TypeInv, SoundInv, [Next]_vars, NEW l \in LeaseId, live[l] # None, live'[l] = None
    PROVE  \E j \in Job : job[j].at = l
<1>1. ASSUME NEW m \in LeaseId, ProviderCreates(m) PROVE FALSE
  BY <1>1 DEF ProviderCreates, SoundInv, Sound, TypeInv, TypeOK
<1>2. ASSUME NEW j \in Job, ProviderRevokes(j) PROVE job[j].at = l
  BY <1>2 DEF ProviderRevokes, TypeInv, TypeOK
<1> QED
  BY <1>1, <1>2
  DEF Next, Configs, SaveConfig, RotateConfigKey, Checkouts, CheckoutStart,
      CheckoutFails, CheckoutFinish, Calls, RevokeRequest, DeleteConfig, ReapExpired,
      Progress, NextInQueue, ProviderFails, MarkRevoked, JobEnds,
      DeleteConfigEnds, Crash, Tick, vars

\* However old its list, the reaper never destroys a credential whose lease
\* still has time.
THEOREM ActiveAreSpared == Spec => ReaperSparesActive
<1>1. Init => TypeInv /\ SoundInv /\ Spared
  BY TypeInit, SoundInit, SparedInit
<1>2. TypeInv /\ SoundInv /\ Spared /\ [Next]_vars => (TypeInv /\ SoundInv /\ Spared)'
  BY TypeStep, SoundStep, SparedStep
<1>3. TypeInv /\ SoundInv /\ Spared /\ [Next]_vars
         => [\A l \in LeaseId :
               live[l] # None /\ live'[l] = None
                 => \/ lease[l].expiresAt <= now
                    \/ \E j \in Request : job[j].at = l]_vars
  <2> SUFFICES ASSUME TypeInv, SoundInv, Spared, [Next]_vars, NEW l \in LeaseId,
                      live[l] # None, live'[l] = None
               PROVE  lease[l].expiresAt <= now \/ \E j \in Request : job[j].at = l
    OBVIOUS
  <2>1. PICK j \in Job : job[j].at = l
    BY WhoDestroys
  <2> QED
    BY <2>1 DEF Job, Spared, Holds
<1> QED
  BY <1>1, <1>2, <1>3, PTL DEF Spec, ReaperSparesActive

-------------------------------------------------------------------------------
(* DynamicLeases implements Custody.                                       *)

\* Some call has had the provider's answer about the lease and not yet marked it.
Answered(l) == \E j \in Job : job[j].at = l /\ job[j].answered

LEMMA CustodyIs ==
    /\ custody = [l \in LeaseId |-> CustodyOf(l)]
    /\ custody' = [l \in LeaseId |-> CustodyOf(l)']
    /\ due' \subseteq LeaseId
BY DEF custody, due

LEMMA AdriftIs == \A l \in LeaseId : /\ l \in fault => CustodyOf(l) = "adrift"
                                     /\ l \in fault' => CustodyOf(l)' = "adrift"
BY DEF CustodyOf, Unrevoked

\* What a lease's custody is read from.
LEMMA CustodyKept ==
    ASSUME NEW l \in LeaseId, fault \subseteq fault',
           l \notin fault' =>
              /\ lease'[l].status = lease[l].status /\ lease'[l].revoked = lease[l].revoked
              /\ live'[l] = live[l]
              /\ Answered(l)' <=> Answered(l)
    PROVE  l \in fault' \/ CustodyOf(l)' = CustodyOf(l)
BY DEF CustodyOf, Unrevoked, Answered

\* Steps that move no credential, apart from those they set adrift.
LEMMA StepDisturbs ==
    ASSUME \A l \in LeaseId : l \in fault' \/ CustodyOf(l)' = CustodyOf(l)
    PROVE  Credentials!Next
<1> DEFINE S == {l \in LeaseId : l \in fault'}
<1>1. custody' = [l \in LeaseId |-> IF l \in S THEN "adrift" ELSE custody[l]]
  BY CustodyIs, AdriftIs
<1>2. Credentials!Disturb(S)
  BY <1>1 DEF Credentials!Disturb
<1> QED
  BY <1>2, CustodyIs DEF Credentials!Next

\* Steps that move one credential along.
LEMMA StepPasses ==
    ASSUME NEW l \in LeaseId, NEW from, NEW to, CustodyOf(l) = from, CustodyOf(l)' = to,
           \A m \in LeaseId \ {l} : CustodyOf(m)' = CustodyOf(m)
    PROVE  Credentials!Pass(l, from, to)
<1>1. custody' = [custody EXCEPT ![l] = to]
  BY CustodyIs
<1> QED
  BY <1>1, CustodyIs DEF Credentials!Pass

\* A call that turns to a lease has had no answer about it, nor has one that ends.
LEMMA AnswersKept ==
    ASSUME TypeInv, NEW j \in Job, NEW state, job' = [job EXCEPT ![j] = state],
           job[j].at = None, ~state.answered
    PROVE  \A l \in LeaseId : Answered(l)' <=> Answered(l)
BY ConstantsOK DEF TypeInv, TypeOK, Answered

LEMMA CustodyInit == Init => Credentials!Init
<1> SUFFICES ASSUME Init PROVE Credentials!Init
  OBVIOUS
<1>1. \A l \in LeaseId : CustodyOf(l) = "none"
  BY DEF Init, CustodyOf, NoRow, Unrevoked
<1>2. due = {}
  BY ConstantsOK DEF Init, due, NoRow, Idle, Job
<1> QED
  BY <1>1, <1>2, CustodyIs DEF Credentials!Init

LEMMA CheckoutsKeepCustody ==
    ASSUME TypeInv, SoundInv, Checkouts
    PROVE  Credentials!Next
<1> USE ConstantsOK
<1>0. lease \in [LeaseId -> LeaseRow] /\ live \in [LeaseId -> Backend \cup {None}]
  BY DEF TypeInv, TypeOK
<1>1. ASSUME NEW p \in Path, NEW l \in LeaseId, CheckoutStart(p, l) PROVE Credentials!Next
  <2>1. /\ \A m \in LeaseId \ {l} : lease'[m] = lease[m]
        /\ lease[l].status = "absent" /\ lease'[l].status = "creating"
        /\ UNCHANGED <<live, job, fault>>
    BY <1>0, <1>1 DEF CheckoutStart, LeaseRow
  <2>2. \A m \in LeaseId \ {l} : m \in fault' \/ CustodyOf(m)' = CustodyOf(m)
    BY <2>1, CustodyKept DEF Answered
  <2>3. CASE l \in fault
    BY <2>1, <2>2, <2>3, StepDisturbs
  <2>4. CASE l \notin fault
    <3>1. CustodyOf(l) = "none" /\ CustodyOf(l)' = "asked"
      BY <2>1, <2>4 DEF CustodyOf, Unrevoked
    <3>2. \A m \in LeaseId \ {l} : CustodyOf(m)' = CustodyOf(m)
      BY <2>1, <2>2, AdriftIs
    <3> QED
      BY <3>1, <3>2, StepPasses, CustodyIs DEF Credentials!Next, Credentials!Ask
  <2> QED
    BY <2>3, <2>4
<1>2. ASSUME NEW l \in LeaseId, ProviderCreates(l) PROVE Credentials!Next
  <2>1. /\ \A m \in LeaseId \ {l} : lease'[m] = lease[m] /\ live'[m] = live[m]
        /\ lease[l].status = "creating" /\ lease'[l].status = "created"
        /\ live'[l] = lease[l].backend
        /\ UNCHANGED <<job, fault>>
    BY <1>0, <1>2 DEF ProviderCreates, LeaseRow
  <2>2. \A m \in LeaseId \ {l} : m \in fault' \/ CustodyOf(m)' = CustodyOf(m)
    BY <2>1, CustodyKept DEF Answered
  <2>3. CASE l \in fault
    BY <2>1, <2>2, <2>3, StepDisturbs
  <2>4. CASE l \notin fault
    <3>1. lease[l].backend # None
      BY <2>1, <2>4 DEF SoundInv, Sound, InProgress
    <3>2. CustodyOf(l) = "asked" /\ CustodyOf(l)' = "held"
      BY <2>1, <2>4, <3>1 DEF CustodyOf, Unrevoked
    <3>3. \A m \in LeaseId \ {l} : CustodyOf(m)' = CustodyOf(m)
      BY <2>1, <2>2, AdriftIs
    <3> QED
      BY <3>2, <3>3, StepPasses, CustodyIs DEF Credentials!Next, Credentials!Create
  <2> QED
    BY <2>3, <2>4
<1>3. ASSUME NEW l \in LeaseId, CheckoutFails(l) PROVE Credentials!Next
  <2>1. /\ \A m \in LeaseId \ {l} : lease'[m] = lease[m]
        /\ fault' = fault \cup {l}
        /\ UNCHANGED <<live, job>>
    BY <1>0, <1>3 DEF CheckoutFails
  <2> QED
    BY <2>1, CustodyKept, StepDisturbs DEF Answered
<1>4. ASSUME NEW l \in LeaseId, NEW ttl \in Ttl, CheckoutFinish(l, ttl) PROVE Credentials!Next
  <2>1. /\ \A m \in LeaseId \ {l} : lease'[m] = lease[m]
        /\ lease[l].status = "created"
        /\ lease'[l].revoked = lease[l].revoked
        /\ config[lease[l].path] # None => lease'[l].status = "stored"
        /\ UNCHANGED <<live, job, fault>>
    BY <1>0, <1>4 DEF CheckoutFinish, LeaseRow
  <2>2. \A m \in LeaseId \ {l} : m \in fault' \/ CustodyOf(m)' = CustodyOf(m)
    BY <2>1, CustodyKept DEF Answered
  <2>3. l \notin fault => /\ ~lease[l].revoked /\ live[l] # None
                          /\ config[lease[l].path] # None
    BY <2>1 DEF SoundInv, Sound, InProgress
  <2>4. l \notin fault => CustodyOf(l) = "held" /\ CustodyOf(l)' = "held"
    BY <2>1, <2>3 DEF CustodyOf, Unrevoked
  <2> QED
    BY <2>1, <2>2, <2>4, StepDisturbs
<1> QED
  BY <1>1, <1>2, <1>3, <1>4 DEF Checkouts

\* A config that is deleted sets the leases of its path adrift and moves no other.
LEMMA DropsKeepCustody ==
    ASSUME TypeInv, NEW p \in Path, DropConfig(p), UNCHANGED live,
           \A l \in LeaseId : Answered(l)' <=> Answered(l)
    PROVE  Credentials!Next
<1>1. \A l \in LeaseId : l \in fault' \/ lease'[l] = lease[l]
  BY DEF TypeInv, TypeOK, DropConfig, LeasesOf
<1>2. fault \subseteq fault'
  BY DEF DropConfig
<1> QED
  BY <1>1, <1>2, CustodyKept, StepDisturbs

LEMMA CallsKeepCustody ==
    ASSUME TypeInv, Calls
    PROVE  Credentials!Next
<1> USE ConstantsOK
<1>0. \A j \in Job : job[j].kind = "idle" => job[j].at = None
  BY DEF TypeInv, Shape, JobShape, Idle
<1>1. ASSUME NEW j \in Job, NEW state \in JobState, NEW l \in LeaseId, job[j].kind = "idle",
             job' = [job EXCEPT ![j] = Enter(state, l)], UNCHANGED <<lease, live, fault>>
      PROVE  Credentials!Next
  <2>1. ~Enter(state, l).answered
    BY DEF Enter, JobState
  <2>2. \A m \in LeaseId : Answered(m)' <=> Answered(m)
    BY <1>0, <1>1, <2>1, AnswersKept
  <2> QED
    BY <1>1, <2>2, CustodyKept, StepDisturbs
<1>2. ASSUME NEW j \in Request, NEW l \in LeaseId, RevokeRequest(j, l) PROVE Credentials!Next
  <2>1. [Idle EXCEPT !.kind = "revoke", !.queue = {l}] \in JobState
    BY DEF Idle, JobState
  <2> QED
    BY <1>1, <1>2, <2>1 DEF RevokeRequest, Job
<1>3. ASSUME NEW j \in Request, NEW p \in Path, DeleteConfig(j, p) PROVE Credentials!Next
  <2>1. CASE ActiveLeases(p) = {}
    BY <1>3, <2>1, DropsKeepCustody DEF DeleteConfig, Answered
  <2>2. CASE ActiveLeases(p) # {}
    <3>1. ActiveLeases(p) \subseteq LeaseId
      BY DEF ActiveLeases
    <3>2. [Idle EXCEPT !.kind = "delete", !.path = p, !.queue = ActiveLeases(p)] \in JobState
      BY <3>1 DEF Idle, JobState
    <3> QED
      BY <1>1, <1>3, <2>2, <3>1, <3>2 DEF DeleteConfig, Job
  <2> QED
    BY <2>1, <2>2
<1>4. ASSUME NEW j \in Reaper, ReapExpired(j) PROVE Credentials!Next
  <2>1. ExpiredLeases \subseteq LeaseId
    BY DEF ExpiredLeases
  <2>2. [Idle EXCEPT !.kind = "reap", !.queue = ExpiredLeases] \in JobState
    BY <2>1 DEF Idle, JobState
  <2> QED
    BY <1>1, <1>4, <2>1, <2>2 DEF ReapExpired, Job
<1> QED
  BY <1>2, <1>3, <1>4 DEF Calls

LEMMA ProgressKeepsCustody ==
    ASSUME TypeInv, SoundInv, Spared, NEW j \in Job, Progress(j)
    PROVE  Credentials!Next
<1> USE ConstantsOK
<1> SUFFICES ASSUME NEW x \in LeaseId \cup {None}, job[j].at = x
             PROVE  Credentials!Next
  BY DEF TypeInv, TypeOK, JobState
<1>0. /\ lease \in [LeaseId -> LeaseRow] /\ live \in [LeaseId -> Backend \cup {None}]
      /\ job \in [Job -> JobState] /\ JobShape(job[j])
      /\ job[j].answered => x # None
      /\ x # None => Row(x)
  BY DEF TypeInv, TypeOK, Shape, JobShape, JobState
<1>1. ASSUME NEW l \in LeaseId, NextInQueue(j, l) PROVE Credentials!Next
  <2>1. ~Enter(job[j], l).answered
    BY <1>0 DEF Enter, JobState
  <2>2. \A m \in LeaseId : Answered(m)' <=> Answered(m)
    BY <1>1, <2>1, AnswersKept DEF NextInQueue
  <2> QED
    BY <1>1, <2>2, CustodyKept, StepDisturbs DEF NextInQueue
<1>2. ASSUME job' = [job EXCEPT ![j].answered = TRUE], x # None
      PROVE  /\ \A m \in LeaseId \ {x} : Answered(m)' <=> Answered(m)
             /\ Answered(x)'
  BY <1>0, <1>2 DEF Answered, JobState
<1>3. CASE ProviderRevokes(j)
  <2>1. /\ x \in LeaseId /\ Row(x) /\ UNCHANGED <<lease, fault>>
        /\ \A m \in LeaseId \ {x} : live'[m] = live[m]
        /\ live'[x] = IF live[x] = job[j].backend THEN None ELSE live[x]
        /\ ~job[j].answered
    BY <1>0, <1>3 DEF ProviderRevokes
  <2>2. Answered(x)' /\ \A m \in LeaseId \ {x} : Answered(m)' <=> Answered(m)
    BY <1>0, <1>2, <1>3 DEF ProviderRevokes
  <2>3. \A m \in LeaseId \ {x} : m \in fault' \/ CustodyOf(m)' = CustodyOf(m)
    BY <2>1, <2>2, CustodyKept
  <2>4. CASE x \in fault
    BY <2>1, <2>3, <2>4, StepDisturbs
  <2>5. CASE x \notin fault /\ live[x] = None
    <3>1. live'[x] = None /\ (Unrevoked(x) => Answered(x))
      BY <2>1, <2>5 DEF SoundInv, Sound, Answered
    <3>2. CustodyOf(x)' = CustodyOf(x)
      BY <2>1, <2>2, <2>5, <3>1 DEF CustodyOf, Unrevoked, Answered, Row
    <3> QED
      BY <2>3, <3>2, StepDisturbs
  <2>6. CASE x \notin fault /\ live[x] # None
    <3>1. lease[x].status = "stored" /\ Unrevoked(x) /\ live'[x] = None
      BY <1>0, <2>1, <2>6 DEF SoundInv, Sound, Row, Unrevoked
    <3>2. CustodyOf(x) = "held" /\ CustodyOf(x)' = "released"
      BY <2>1, <2>2, <2>6, <3>1 DEF CustodyOf, Unrevoked, Answered
    <3>3. x \in due
      BY <2>1, <3>1 DEF due, Spared, Holds, Job
    <3>4. \A m \in LeaseId \ {x} : CustodyOf(m)' = CustodyOf(m)
      BY <2>1, <2>3, AdriftIs
    <3> QED
      BY <2>1, <3>2, <3>3, <3>4, StepPasses, CustodyIs
      DEF Credentials!Next, Credentials!Release
  <2> QED
    BY <2>4, <2>5, <2>6
<1>4. CASE ProviderFails(j)
  <2>1. fault' = fault \cup {x} /\ UNCHANGED <<lease, live>>
    BY <1>4 DEF ProviderFails
  <2>2. \A m \in LeaseId \ {x} : Answered(m)' <=> Answered(m)
    BY <1>2, <1>4 DEF ProviderFails
  <2> QED
    BY <2>1, <2>2, CustodyKept, StepDisturbs
<1>5. CASE MarkRevoked(j)
  <2>1. /\ x \in LeaseId /\ Row(x) /\ Answered(x) /\ UNCHANGED <<live, fault>>
        /\ \A m \in LeaseId \ {x} : lease'[m] = lease[m]
        /\ lease'[x].status = lease[x].status
        /\ lease[x].status = "stored" => lease'[x].revoked
    BY <1>0, <1>5 DEF MarkRevoked, LeaseRow, Answered
  <2>2. \A m \in LeaseId \ {x} : Answered(m)' <=> Answered(m)
    BY <1>0, <1>5 DEF MarkRevoked, Answered, JobState
  <2>3. \A m \in LeaseId \ {x} : m \in fault' \/ CustodyOf(m)' = CustodyOf(m)
    BY <2>1, <2>2, CustodyKept
  <2>4. CASE x \in fault
    BY <2>1, <2>3, <2>4, StepDisturbs
  <2>5. CASE x \notin fault
    <3>1. lease[x].status = "stored" /\ live[x] = None
      BY <1>0, <1>5, <2>1, <2>5 DEF SoundInv, Sound, Row, MarkRevoked
    <3>2. CustodyOf(x)' = "closed"
      BY <2>1, <2>5, <3>1 DEF CustodyOf, Unrevoked
    <3>3. CASE Unrevoked(x)
      <4>1. CustodyOf(x) = "released"
        BY <2>1, <2>5, <3>1, <3>3 DEF CustodyOf, Answered, Unrevoked
      <4>2. \A m \in LeaseId \ {x} : CustodyOf(m)' = CustodyOf(m)
        BY <2>1, <2>3, AdriftIs
      <4> QED
        BY <2>1, <3>2, <4>1, <4>2, StepPasses, CustodyIs DEF Credentials!Next, Credentials!Close
    <3>4. CASE ~Unrevoked(x)
      <4>1. CustodyOf(x) = "closed"
        BY <2>5, <3>1, <3>4 DEF CustodyOf, Unrevoked
      <4> QED
        BY <2>3, <3>2, <4>1, StepDisturbs
    <3> QED
      BY <3>3, <3>4
  <2> QED
    BY <2>4, <2>5
<1>6. ASSUME job' = [job EXCEPT ![j] = Idle], Finished(j)
      PROVE  \A l \in LeaseId : Answered(l)' <=> Answered(l)
  <2>1. ~Idle.answered
    BY DEF Idle
  <2> QED
    BY <1>6, <2>1, AnswersKept DEF Finished
<1>7. CASE JobEnds(j)
  BY <1>6, <1>7, CustodyKept, StepDisturbs DEF JobEnds
<1>8. CASE DeleteConfigEnds(j)
  <2>1. job[j].path \in Path
    BY <1>0, <1>8 DEF DeleteConfigEnds, JobShape
  <2> QED
    BY <1>6, <1>8, <2>1, DropsKeepCustody DEF DeleteConfigEnds
<1> QED
  BY <1>1, <1>3, <1>4, <1>5, <1>7, <1>8 DEF Progress

\* One step at a time: it moves one credential along the way Custody allows,
\* or it moves none that it does not set adrift.
LEMMA CustodyStep ==
    ASSUME TypeInv, SoundInv, Spared, [Next]_vars
    PROVE  [Credentials!Next]_<<custody, due>>
<1>1. ASSUME fault \subseteq fault', UNCHANGED <<lease, live, job>> PROVE Credentials!Next
  BY <1>1, CustodyKept, StepDisturbs DEF Answered
<1>2. Configs \/ Tick \/ UNCHANGED vars => Credentials!Next
  BY <1>1 DEF Configs, SaveConfig, RotateConfigKey, Tick, vars
<1>3. CASE Crash
  <2>1. /\ UNCHANGED live /\ fault \subseteq fault'
        /\ \A l \in LeaseId : ~Answered(l)'
    BY <1>3, ConstantsOK DEF Crash, Answered, Idle
  <2>2. \A l \in LeaseId : l \notin fault' => lease'[l] = lease[l] /\ ~Answered(l)
    BY <1>3 DEF Crash, Answered
  <2> QED
    BY <2>1, <2>2, CustodyKept, StepDisturbs
<1> QED
  BY <1>2, <1>3, CheckoutsKeepCustody, CallsKeepCustody, ProgressKeepsCustody DEF Next

\* Checkouts, overlapping reapers and requests, deletions, rotations and the
\* clock implement the custody of each credential.
THEOREM CustodyImplemented == Spec => ImplementsCustody
<1>1. Init => TypeInv /\ SoundInv /\ Spared
  BY TypeInit, SoundInit, SparedInit
<1>2. TypeInv /\ SoundInv /\ Spared /\ [Next]_vars => (TypeInv /\ SoundInv /\ Spared)'
  BY TypeStep, SoundStep, SparedStep
<1>3. TypeInv /\ SoundInv /\ Spared /\ [Next]_vars => [Credentials!Next]_<<custody, due>>
  BY CustodyStep
<1> QED
  BY <1>1, <1>2, <1>3, CustodyInit, PTL DEF Spec, ImplementsCustody, Credentials!Spec
=============================================================================
