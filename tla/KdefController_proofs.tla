----------------------- MODULE KdefController_proofs ------------------------
(***************************************************************************)
(* Proofs about KdefController, for every set of releases, revisions and   *)
(* manifests.                                                              *)
(***************************************************************************)
EXTENDS KdefController, TLAPS

(***************************************************************************)
(* Lemmas on references and addresses.                                     *)
(***************************************************************************)

\* Rendering and retargeting yield references, which the release owns.
LEMMA OutputOwned ==
    ASSUME NEW r \in Release, NEW v \in Revision, NEW target \in Namespace \cup {None}
    PROVE  /\ Output(r, v, target) \subseteq Ref
           /\ Output(r, v, target) \subseteq RefsOf(r)
<1>1. Render[r][v] \subseteq Ref
  BY ConstantsAssumption
<1>2. ASSUME NEW ref \in Render[r][v]
      PROVE  Retarget(ref, target) \in Ref
  BY <1>1, <1>2 DEF Retarget, Ref
<1> QED
  BY <1>2 DEF Output, RefsOf

\* The API server's address of a reference is a reference.
LEMMA KeyIsRef ==
    ASSUME NEW ref \in Ref
    PROVE  Key(ref) \in Ref
BY DEF Key, Ref

LEMMA RefsOfIsRefs ==
    ASSUME NEW r \in Release
    PROVE  RefsOf(r) \subseteq Ref
BY OutputOwned DEF RefsOf

\* A merge patch stores every part that the call changed, and leaves a part
\* that the call did not change and that has not changed meanwhile.
LEMMA MergePatchType ==
    ASSUME NEW stored \in Status, NEW base \in Status, NEW new \in Status
    PROVE  MergePatch(stored, base, new) \in Status
BY DEF MergePatch, Merged, Status

(***************************************************************************)
(* Type correctness.                                                       *)
(***************************************************************************)
LEMMA IntentType == FirstIntent \in Intent
BY ConstantsAssumption DEF FirstIntent, Intent, Generation

LEMMA NewStatusType == NewStatus \in Status
BY DEF NewStatus, Status, Conditions

LEMMA IdleJobType == IdleJob \in Job
BY IntentType, NewStatusType DEF IdleJob, Job, Step

LEMMA StoredType ==
    ASSUME TypeOK, NEW r \in Release
    PROVE  Stored(r) \in [spec: Intent, conditions: Conditions]
BY DEF TypeOK, Stored, Status

LEMMA InitType == Init => TypeOK
<1> SUFFICES ASSUME Init
             PROVE  TypeOK
  OBVIOUS
<1>1. spec \in [Release -> Intent] /\ status \in [Release -> Status]
  BY NewStatusType DEF Init
<1>2. cache \in [Release -> [spec: Intent, conditions: Conditions]]
  BY <1>1 DEF Init, Stored, Status
<1>3. job \in Job
  BY IdleJobType DEF Init
<1> QED
  BY <1>1, <1>2, <1>3 DEF Init, TypeOK

\* What a call wants stored is a status.
LEMMA ChangesType ==
    ASSUME NEW s \in Status, TypeOK, job.step # "idle"
    PROVE  /\ Reconciling(s) \in Status
           /\ Failed(s) \in Status
           /\ Succeeded(s) \in Status
<1>1. job \in Job /\ job.spec.gen \in Generation
  BY DEF TypeOK, Job, Intent
<1>2. Reconciling(s) \in Status
  BY <1>1 DEF Reconciling, Status, Conditions
<1>3. Failed(s) \in Status
  BY DEF Failed, Status, Conditions
<1>4. Succeeded(s) \in Status
  BY <1>1 DEF Succeeded, Status, Conditions, Job
<1> QED
  BY <1>2, <1>3, <1>4

\* So the patched status has its type.
LEMMA PatchedType ==
    ASSUME TypeOK, job.step # "idle", job.release \in Release
    PROVE  /\ Patched(Reconciling(job.status)) \in [Release -> Status]
           /\ Patched(Failed(job.status)) \in [Release -> Status]
           /\ Patched(Succeeded(job.status)) \in [Release -> Status]
<1>1. job.status \in Status /\ status \in [Release -> Status]
  BY DEF TypeOK, Job
<1> QED
  BY <1>1, ChangesType, MergePatchType DEF Patched

LEMMA JobFields ==
    ASSUME TypeOK
    PROVE  /\ job.step \in Step
           /\ job.release \in Release \cup {None}
           /\ job.spec \in Intent
           /\ job.status \in Status
           /\ job.todo \subseteq Ref /\ job.done \subseteq Ref /\ job.doomed \subseteq Ref
BY DEF TypeOK, Job

LEMMA AppliedType ==
    ASSUME TypeOK, NEW ref \in Ref,
           job.release \in Release, job.status.lastAttemptedRevision \in Revision
    PROVE  Applied(ref) \in [Ref -> (Release \X Revision) \cup {None}]
BY KeyIsRef DEF TypeOK, Applied

LEMMA RemovedType ==
    ASSUME TypeOK, NEW ref \in Ref
    PROVE  [live EXCEPT ![Key(ref)] = None] \in [Ref -> (Release \X Revision) \cup {None}]
BY KeyIsRef DEF TypeOK

\* The part of the inductive invariant that the types rest on, and that needs
\* no assumption: a job has its release, and a revision once it has a source.
JobTyped ==
    /\ job.step # "idle" => job.release \in Release
    /\ job.step \in {"fetch", "render", "apply", "prune", "succeed"} =>
          job.status.lastAttemptedRevision \in Revision

LEMMA NextType ==
    ASSUME TypeOK, JobTyped, [Next]_vars
    PROVE  TypeOK'
<1> USE DEF TypeOK, JobTyped
<1>1. ASSUME NEW r \in Release, Skip(r)
      PROVE  TypeOK'
  BY <1>1 DEF Skip
<1>2. ASSUME NEW r \in Release, Begin(r)
      PROVE  TypeOK'
  <2>1. [IdleJob EXCEPT !.step = "mark", !.release = r, !.spec = cache[r].spec,
                        !.status.conditions = cache[r].conditions] \in Job
    BY NewStatusType DEF IdleJob, Job, Step, Status
  <2> QED
    BY <1>2, <2>1 DEF Begin
<1>3. CASE MarkReconciling
  <2>1. job.release \in Release /\ status' \in [Release -> Status]
    BY <1>3, PatchedType DEF MarkReconciling
  <2>2. job' \in Job
    BY <1>3, <2>1 DEF MarkReconciling, Job, Step
  <2> QED
    BY <1>3, <2>1, <2>2 DEF MarkReconciling
<1>4. CASE getSourceArtifact
  <2>1. job.release \in Release /\ source[job.release] \in Revision
    BY <1>4 DEF getSourceArtifact
  <2>2. [job.status EXCEPT !.lastAttemptedRevision = source[job.release]] \in Status
    BY <2>1 DEF Job, Status
  <2>3. job' \in Job
    BY <1>4, <2>1, <2>2 DEF getSourceArtifact, Job, Step
  <2> QED
    BY <1>4, <2>3 DEF getSourceArtifact
<1>5. CASE fetchArtifact
  BY <1>5 DEF fetchArtifact, Job, Step
<1>6. CASE renderKdef
  <2>1. Output(job.release, job.status.lastAttemptedRevision, job.spec.target) \subseteq Ref
    BY <1>6, OutputOwned, JobFields DEF renderKdef, Intent
  <2> QED
    BY <1>6, <2>1 DEF renderKdef, Job, Step
<1>7. CASE PrepareFails
  BY <1>7 DEF PrepareFails, Job, Step
<1>8. CASE applyObject
  <2>1. PICK ref \in NextToApply(job.todo) :
              /\ live' = Applied(ref)
              /\ job' = [job EXCEPT !.todo = @ \ {ref}, !.done = @ \cup {ref}]
    BY <1>8 DEF applyObject
  <2>2. ref \in job.todo /\ ref \in Ref
    BY JobFields DEF NextToApply
  <2>3. live' \in [Ref -> (Release \X Revision) \cup {None}]
    BY <1>8, <2>1, <2>2, AppliedType DEF applyObject
  <2>4. job' \in Job
    BY <2>1, <2>2 DEF Job
  <2> QED
    BY <1>8, <2>3, <2>4 DEF applyObject
<1>9. CASE ApplyFails
  <2>1. PICK ref \in NextToApply(job.todo) : live' \in {live, Applied(ref)}
    BY <1>9 DEF ApplyFails
  <2>2. ref \in Ref
    BY JobFields DEF NextToApply
  <2>3. live' \in [Ref -> (Release \X Revision) \cup {None}]
    BY <1>9, <2>1, <2>2, AppliedType DEF ApplyFails
  <2> QED
    BY <1>9, <2>3 DEF ApplyFails, Job, Step
<1>10. CASE FinishApply
  BY <1>10 DEF FinishApply, Job, Step, Status
<1>11. CASE pruneObject
  <2>1. PICK ref \in job.doomed :
              /\ live' = [live EXCEPT ![Key(ref)] = None]
              /\ job' = [job EXCEPT !.doomed = @ \ {ref}]
    BY <1>11 DEF pruneObject
  <2>2. live' \in [Ref -> (Release \X Revision) \cup {None}]
    BY <2>1, RemovedType, JobFields
  <2>3. job' \in Job
    BY <2>1 DEF Job
  <2> QED
    BY <1>11, <2>2, <2>3 DEF pruneObject
<1>12. CASE PruneFails
  <2>1. PICK ref \in job.doomed : live' \in {live, [live EXCEPT ![Key(ref)] = None]}
    BY <1>12 DEF PruneFails
  <2>2. live' \in [Ref -> (Release \X Revision) \cup {None}]
    BY <2>1, RemovedType, JobFields
  <2> QED
    BY <1>12, <2>2 DEF PruneFails, Job, Step
<1>13. CASE FinishPrune
  BY <1>13 DEF FinishPrune, Job, Step
<1>14. CASE ReportSuccess
  <2>1. job.release \in Release /\ status' \in [Release -> Status]
    BY <1>14, PatchedType DEF ReportSuccess
  <2> QED
    BY <1>14, <2>1, IdleJobType DEF ReportSuccess, ReturnAfterInterval
<1>15. CASE failWithError
  <2>1. job.release \in Release /\ status' \in [Release -> Status]
    BY <1>15, PatchedType DEF failWithError
  <2> QED
    BY <1>15, <2>1, IdleJobType DEF failWithError, ReturnAfterInterval
<1>16. CASE StatusPatchFails
  <2>1. job.release \in Release /\ status' \in [Release -> Status]
    BY <1>16, PatchedType DEF StatusPatchFails
  <2> QED
    BY <1>16, <2>1, IdleJobType DEF StatusPatchFails, ReturnError
<1>17. CASE Crash
  BY <1>17, IdleJobType, StoredType DEF Crash
<1>18. ASSUME NEW r \in Release, Sync(r)
       PROVE  TypeOK'
  BY <1>18, StoredType DEF Sync
<1>19. ASSUME NEW r \in Release, RequestReconcile(r)
       PROVE  TypeOK'
  BY <1>19 DEF RequestReconcile
<1>20. ASSUME NEW r \in Release, EditSpec(r)
       PROVE  TypeOK'
  BY <1>20 DEF EditSpec
<1>21. ASSUME NEW r \in Release, DeleteRelease(r)
       PROVE  TypeOK'
  BY <1>21, NewStatusType DEF DeleteRelease
<1>22. ASSUME NEW r \in Release, NEW v \in Revision, Publish(r, v)
       PROVE  TypeOK'
  BY <1>22 DEF Publish
<1>23. CASE Heal
  BY <1>23 DEF Heal
<1>24. CASE UNCHANGED vars
  BY <1>24 DEF vars
<1> QED
  BY <1>1, <1>2, <1>3, <1>4, <1>5, <1>6, <1>7, <1>8, <1>9, <1>10, <1>11, <1>12, <1>13,
     <1>14, <1>15, <1>16, <1>17, <1>18, <1>19, <1>20, <1>21, <1>22, <1>23, <1>24
     DEF Next, Work, Environment

LEMMA InitJobTyped == Init => JobTyped
BY DEF Init, IdleJob, JobTyped

LEMMA NextJobTyped ==
    ASSUME TypeOK, JobTyped, [Next]_vars
    PROVE  JobTyped'
<1> USE DEF JobTyped
<1>1. ASSUME NEW r \in Release, Skip(r) \/ Sync(r) \/ RequestReconcile(r)
                                \/ EditSpec(r) \/ DeleteRelease(r)
      PROVE  JobTyped'
  BY <1>1 DEF Skip, Sync, RequestReconcile, EditSpec, DeleteRelease
<1>2. ASSUME NEW r \in Release, Begin(r)
      PROVE  JobTyped'
  BY <1>2 DEF Begin, IdleJob
<1>3. CASE MarkReconciling
  BY <1>3, JobFields DEF MarkReconciling, Job, TypeOK
<1>4. CASE getSourceArtifact
  BY <1>4 DEF getSourceArtifact, TypeOK, Job, Status
<1>5. CASE fetchArtifact \/ renderKdef \/ PrepareFails
  BY <1>5 DEF fetchArtifact, renderKdef, PrepareFails, TypeOK, Job
<1>6. CASE applyObject \/ ApplyFails \/ FinishApply
  BY <1>6 DEF applyObject, ApplyFails, FinishApply, TypeOK, Job
<1>7. CASE pruneObject \/ PruneFails \/ FinishPrune
  BY <1>7 DEF pruneObject, PruneFails, FinishPrune, TypeOK, Job
<1>8. CASE ReportSuccess \/ failWithError \/ StatusPatchFails \/ Crash
  BY <1>8 DEF ReportSuccess, failWithError, StatusPatchFails, Crash,
              ReturnAfterInterval, ReturnError, IdleJob
<1>9. ASSUME NEW r \in Release, NEW v \in Revision, Publish(r, v)
      PROVE  JobTyped'
  BY <1>9 DEF Publish
<1>10. CASE Heal \/ UNCHANGED vars
  BY <1>10 DEF Heal, vars
<1> QED
  BY <1>1, <1>2, <1>3, <1>4, <1>5, <1>6, <1>7, <1>8, <1>9, <1>10 DEF Next, Work, Environment

\* Every variable keeps its type, whatever the releases render, with stale
\* reads and with shared addresses too.
THEOREM TypeCorrect == Spec => []TypeOK
<1>1. Init => TypeOK /\ JobTyped
  BY InitType, InitJobTyped
<1>2. TypeOK /\ JobTyped /\ [Next]_vars => (TypeOK /\ JobTyped)'
  BY NextType, NextJobTyped
<1> QED
  BY <1>1, <1>2, PTL DEF Spec

(***************************************************************************)
(* What the patches store while the inductive invariant holds.             *)
(***************************************************************************)

\* The mark is stored whether or not the patch had to say so, and a mark
\* changes nothing else.
LEMMA MarkStored ==
    ASSUME TypeOK, JobMirrorsStatus, job.step = "mark", job.release \in exists
    PROVE  LET new == Patched(Reconciling(job.status))[job.release]
               old == status[job.release]
           IN  /\ new.conditions.reconciling # None
               /\ new.lastAppliedRevision = old.lastAppliedRevision
               /\ new.inventory = old.inventory
<1> DEFINE s == Reconciling(job.status)
<1>1. /\ job.release \in Release /\ job.status \in Status /\ status \in [Release -> Status]
      /\ job.status.conditions = status[job.release].conditions
  BY JobFields DEF TypeOK, JobMirrorsStatus
<1>2. job.spec.gen # None
  BY JobFields, ConstantsAssumption DEF Intent, Generation
<1>3. /\ s.conditions.reconciling = job.spec.gen
      /\ s.lastAppliedRevision = job.status.lastAppliedRevision
      /\ s.inventory = job.status.inventory
  BY <1>1 DEF Reconciling, Status, Conditions
<1>4. Patched(Reconciling(job.status))[job.release] = MergePatch(status[job.release], job.status, s)
  BY <1>1 DEF Patched
<1>5. MergePatch(status[job.release], job.status, s).conditions.reconciling = job.spec.gen
  BY <1>1, <1>3 DEF MergePatch, Merged
<1> QED
  BY <1>2, <1>3, <1>4, <1>5 DEF MergePatch, Merged

\* A report of success or failure is stored as the call wants it.
LEMMA ReportStored ==
    ASSUME TypeOK, JobMirrorsStatus, job.step \in {"succeed", "fail"}, job.release \in exists
    PROVE  LET won  == Patched(Succeeded(job.status))[job.release]
               lost == Patched(Failed(job.status))[job.release]
               old  == status[job.release]
           IN  /\ won.lastAppliedRevision = job.status.lastAttemptedRevision
               /\ won.inventory = job.done
               /\ won.conditions = [ready |-> "True", reconciling |-> None]
               /\ lost.conditions = [ready |-> "False", reconciling |-> None]
               /\ lost.inventory = old.inventory
<1> DEFINE won  == Succeeded(job.status)
           lost == Failed(job.status)
<1>1. /\ job.release \in Release /\ job.status \in Status /\ status \in [Release -> Status]
      /\ job.status.conditions.reconciling # None
      /\ job.status.lastAppliedRevision = status[job.release].lastAppliedRevision
      /\ job.status.inventory = status[job.release].inventory
  BY JobFields DEF TypeOK, JobMirrorsStatus
<1>2. /\ won.conditions = [ready |-> "True", reconciling |-> None]
      /\ won.lastAppliedRevision = job.status.lastAttemptedRevision
      /\ won.inventory = job.done
  BY <1>1 DEF Succeeded, Status
<1>3. /\ lost.conditions = [ready |-> "False", reconciling |-> None]
      /\ lost.inventory = job.status.inventory
  BY <1>1 DEF Failed, Status
<1>4. /\ Patched(Succeeded(job.status))[job.release] = MergePatch(status[job.release], job.status, won)
      /\ Patched(Failed(job.status))[job.release] = MergePatch(status[job.release], job.status, lost)
  BY <1>1 DEF Patched
<1>5. /\ won.conditions # job.status.conditions
      /\ lost.conditions # job.status.conditions
  <2>1. won.conditions.reconciling = None /\ lost.conditions.reconciling = None
    BY <1>2, <1>3
  <2> QED
    BY <1>1, <2>1
<1> QED
  BY <1>1, <1>2, <1>3, <1>4, <1>5 DEF MergePatch, Merged

\* A patch is about the release of the call.
LEMMA PatchedElsewhere ==
    ASSUME TypeOK, NEW r \in Release, r # job.release
    PROVE  /\ Patched(Reconciling(job.status))[r] = status[r]
           /\ Patched(Succeeded(job.status))[r] = status[r]
           /\ Patched(Failed(job.status))[r] = status[r]
BY DEF TypeOK, Patched

\* Whatever a patch was computed from, a mark and a report of failure leave the
\* stored record alone, and a report of success puts at most its own in place.
LEMMA RecordStored ==
    ASSUME TypeOK, JobTyped, job.step # "idle", NEW r \in Release
    PROVE  LET mark == Patched(Reconciling(job.status))[r]
               won  == Patched(Succeeded(job.status))[r]
               lost == Patched(Failed(job.status))[r]
               old  == status[r]
           IN  /\ mark.lastAppliedRevision = old.lastAppliedRevision
               /\ mark.inventory = old.inventory
               /\ lost.lastAppliedRevision = old.lastAppliedRevision
               /\ lost.inventory = old.inventory
               /\ won.inventory \in {old.inventory, job.done}
<1> DEFINE mark == Reconciling(job.status)
           won  == Succeeded(job.status)
           lost == Failed(job.status)
<1>1. r # job.release => /\ Patched(mark)[r] = status[r] /\ Patched(won)[r] = status[r]
                         /\ Patched(lost)[r] = status[r]
  BY PatchedElsewhere
<1>2. job.status \in Status /\ status \in [Release -> Status]
  BY JobFields DEF TypeOK
<1>3. /\ mark.lastAppliedRevision = job.status.lastAppliedRevision
      /\ mark.inventory = job.status.inventory
      /\ lost.lastAppliedRevision = job.status.lastAppliedRevision
      /\ lost.inventory = job.status.inventory
      /\ won.inventory = job.done
  BY <1>2 DEF Reconciling, Failed, Succeeded, Status
<1>4. ASSUME r = job.release
      PROVE  /\ Patched(mark)[r] = MergePatch(status[r], job.status, mark)
             /\ Patched(won)[r] = MergePatch(status[r], job.status, won)
             /\ Patched(lost)[r] = MergePatch(status[r], job.status, lost)
  BY <1>2, <1>4 DEF Patched
<1>5. CASE r = job.release
  BY <1>3, <1>4, <1>5 DEF MergePatch, Merged
<1> QED
  BY <1>1, <1>5

\* What a call has applied and has yet to apply is owned by its release.
LEMMA JobOwned ==
    ASSUME JobTyped, JobOutput, job.step \in {"apply", "prune", "succeed"}
    PROVE  job.todo \cup job.done \subseteq RefsOf(job.release)
BY OutputOwned DEF JobTyped, JobOutput

\* The part of the inductive invariant that needs no assumption: whatever is
\* read and whoever shares an address, a call works on its release's own output.
Owned == TypeOK /\ JobTyped /\ InventoriesOwned /\ JobOutput

LEMMA OwnedFromIInv == IInv => Owned
BY DEF IInv, Owned, JobTyped, JobMirrorsStatus, JobProgress, JobOutput

LEMMA TypedFromIInv == IInv => JobTyped
BY OwnedFromIInv DEF Owned

(***************************************************************************)
(* The inductive invariant, conjunct by conjunct.                          *)
(***************************************************************************)
LEMMA InitIInv == Init => IInv
BY InitType DEF Init, IInv, InventoriesOwned, JobMirrorsStatus, JobProgress, JobOutput,
                DoneIsInPlace, ReadyIsTruthful, Settled, NewStatus, IdleJob

\* Between its first and its last patch a call leaves the stored status, and
\* what it knows of it, alone.
LEMMA PrepareKeeps ==
    ASSUME TypeOK, getSourceArtifact \/ fetchArtifact \/ renderKdef \/ PrepareFails
    PROVE  /\ job'.release = job.release
           /\ job'.status.conditions = job.status.conditions
           /\ job'.status.lastAppliedRevision = job.status.lastAppliedRevision
           /\ job'.status.inventory = job.status.inventory
           /\ job.step \notin {"idle", "mark"}
           /\ status' = status /\ exists' = exists /\ live' = live
<1>1. CASE getSourceArtifact
  <2> DEFINE noted == [job.status EXCEPT !.lastAttemptedRevision = source[job.release]]
  <2>1. job' = [job EXCEPT !.step = "fetch", !.status = noted]
    BY <1>1, JobFields DEF getSourceArtifact, TypeOK, Job
  <2>2. job'.release = job.release /\ job'.status = noted
    BY <2>1 DEF TypeOK, Job
  <2>3. /\ noted.conditions = job.status.conditions
        /\ noted.lastAppliedRevision = job.status.lastAppliedRevision
        /\ noted.inventory = job.status.inventory
    BY JobFields DEF Status
  <2> QED
    BY <1>1, <2>2, <2>3 DEF getSourceArtifact
<1>2. CASE fetchArtifact \/ renderKdef \/ PrepareFails
  BY <1>2 DEF fetchArtifact, renderKdef, PrepareFails, TypeOK, Job
<1> QED
  BY <1>1, <1>2

LEMMA ApplyAndPruneKeep ==
    ASSUME TypeOK,
           \/ applyObject \/ ApplyFails \/ FinishApply
           \/ pruneObject \/ PruneFails \/ FinishPrune
    PROVE  /\ job'.release = job.release /\ job'.status = job.status
           /\ job.step \in {"apply", "prune"}
           /\ status' = status /\ exists' = exists
BY DEF applyObject, ApplyFails, FinishApply, pruneObject, PruneFails, FinishPrune, TypeOK, Job

LEMMA NextInventoriesOwned ==
    ASSUME Owned, [Next]_vars
    PROVE  InventoriesOwned'
<1> USE DEF InventoriesOwned
<1>0. TypeOK /\ JobTyped /\ JobOutput /\ InventoriesOwned
  BY DEF Owned
<1>1. ASSUME NEW r \in Release, Skip(r) \/ Sync(r) \/ RequestReconcile(r) \/ EditSpec(r)
      PROVE  InventoriesOwned'
  BY <1>0, <1>1 DEF Skip, Sync, RequestReconcile, EditSpec, RefsOf
<1>2. ASSUME NEW r \in Release, Begin(r)
      PROVE  InventoriesOwned'
  BY <1>0, <1>2, NewStatusType DEF Begin, IdleJob, NewStatus, TypeOK, Status, RefsOf
<1>3. CASE MarkReconciling
  <2>1. status'[job.release].inventory = status[job.release].inventory
    BY <1>0, <1>3, RecordStored DEF MarkReconciling, JobTyped
  <2>2. \A r \in Release \ {job.release} : status'[r] = status[r]
    BY <1>0, <1>3, PatchedElsewhere DEF MarkReconciling
  <2>3. job'.release = job.release /\ job'.status = status'[job.release]
    BY <1>0, <1>3, JobFields DEF MarkReconciling, TypeOK, Job
  <2>4. job.release \in Release
    BY <1>0, <1>3 DEF MarkReconciling, JobTyped
  <2> QED
    BY <1>0, <2>1, <2>2, <2>3, <2>4 DEF RefsOf
<1>4. CASE getSourceArtifact \/ fetchArtifact \/ renderKdef \/ PrepareFails
  BY <1>0, <1>4, PrepareKeeps DEF RefsOf
<1>5. CASE applyObject \/ ApplyFails \/ FinishApply \/ pruneObject \/ PruneFails \/ FinishPrune
  BY <1>0, <1>5, ApplyAndPruneKeep DEF RefsOf
<1>6. CASE ReportSuccess \/ failWithError \/ StatusPatchFails
  <2>1. job' = IdleJob
    BY <1>6 DEF ReportSuccess, failWithError, StatusPatchFails, ReturnAfterInterval, ReturnError
  <2>2. job.step = "succeed" => job.done \subseteq RefsOf(job.release)
    BY <1>0, JobOwned
  <2>3. ASSUME NEW r \in Release
        PROVE  \/ status'[r].inventory = status[r].inventory
               \/ r = job.release /\ job.step = "succeed" /\ status'[r].inventory = job.done
    BY <1>0, <1>6, RecordStored, PatchedElsewhere
    DEF ReportSuccess, failWithError, StatusPatchFails
  <2> QED
    BY <1>0, <2>1, <2>2, <2>3 DEF IdleJob, RefsOf
<1>7. ASSUME NEW r \in Release, DeleteRelease(r)
      PROVE  InventoriesOwned'
  BY <1>0, <1>7 DEF DeleteRelease, NewStatus, TypeOK, RefsOf
<1>8. CASE Crash
  BY <1>0, <1>8 DEF Crash, IdleJob, RefsOf
<1>9. ASSUME NEW r \in Release, NEW v \in Revision, Publish(r, v)
      PROVE  InventoriesOwned'
  BY <1>0, <1>9 DEF Publish, RefsOf
<1>10. CASE Heal \/ UNCHANGED vars
  BY <1>0, <1>10 DEF Heal, vars, RefsOf
<1> QED
  BY <1>1, <1>2, <1>3, <1>4, <1>5, <1>6, <1>7, <1>8, <1>9, <1>10 DEF Next, Work, Environment

\* The call in progress keeps mirroring the stored status: nothing else writes
\* it, unless the release is deleted.
LEMMA NextJobMirrorsStatus ==
    ASSUME ~StaleReads, IInv, [Next]_vars
    PROVE  JobMirrorsStatus'
<1> USE DEF JobMirrorsStatus
<1>0. TypeOK /\ JobTyped /\ JobMirrorsStatus
  BY TypedFromIInv DEF IInv
<1>1. ASSUME NEW r \in Release, Skip(r) \/ Sync(r) \/ RequestReconcile(r) \/ EditSpec(r)
      PROVE  JobMirrorsStatus'
  BY <1>0, <1>1 DEF Skip, Sync, RequestReconcile, EditSpec
<1>2. ASSUME NEW r \in Release, Begin(r)
      PROVE  JobMirrorsStatus'
  <2>1. /\ job'.step = "mark" /\ job'.release = r
        /\ job'.status.conditions = cache[r].conditions
    BY <1>2, NewStatusType DEF Begin, IdleJob, Status
  <2>2. cache[r] = Stored(r) /\ status' = status
    BY <1>2 DEF Begin, Dequeue
  <2> QED
    BY <2>1, <2>2 DEF Stored
<1>3. CASE MarkReconciling
  <2>1. status'[job.release].conditions.reconciling # None
    BY <1>0, <1>3, MarkStored DEF MarkReconciling
  <2>2. /\ job'.release = job.release /\ job'.status = status'[job.release]
        /\ job'.step = "source" /\ job.release \in Release
    BY <1>0, <1>3, JobFields DEF MarkReconciling, TypeOK, Job
  <2> QED
    BY <2>1, <2>2
<1>4. CASE getSourceArtifact \/ fetchArtifact \/ renderKdef \/ PrepareFails
  BY <1>0, <1>4, PrepareKeeps
<1>5. CASE applyObject \/ ApplyFails \/ FinishApply \/ pruneObject \/ PruneFails \/ FinishPrune
  BY <1>0, <1>5, ApplyAndPruneKeep
<1>6. CASE ReportSuccess \/ failWithError \/ StatusPatchFails \/ Crash
  BY <1>6 DEF ReportSuccess, failWithError, StatusPatchFails, Crash, ReturnAfterInterval,
              ReturnError, IdleJob
<1>7. ASSUME NEW r \in Release, DeleteRelease(r)
      PROVE  JobMirrorsStatus'
  BY <1>0, <1>7 DEF DeleteRelease, TypeOK
<1>8. ASSUME NEW r \in Release, NEW v \in Revision, Publish(r, v)
      PROVE  JobMirrorsStatus'
  BY <1>0, <1>8 DEF Publish
<1>9. CASE Heal \/ UNCHANGED vars
  BY <1>0, <1>9 DEF Heal, vars
<1> QED
  BY <1>1, <1>2, <1>3, <1>4, <1>5, <1>6, <1>7, <1>8, <1>9 DEF Next, Work, Environment

\* An apply moves one object from what is left to what is done.
LEMMA ApplyMoves ==
    ASSUME TypeOK, applyObject
    PROVE  \E ref \in job.todo :
               /\ live' = Applied(ref)
               /\ job'.step = "apply" /\ job.step = "apply"
               /\ job'.release = job.release /\ job'.status = job.status
               /\ job'.todo = job.todo \ {ref} /\ job'.done = job.done \cup {ref}
               /\ job'.todo \cup job'.done = job.todo \cup job.done
<1>1. PICK ref \in NextToApply(job.todo) :
            /\ live' = Applied(ref)
            /\ job' = [job EXCEPT !.todo = @ \ {ref}, !.done = @ \cup {ref}]
  BY DEF applyObject
<1>2. ref \in job.todo
  BY DEF NextToApply
<1>3. /\ job'.step = "apply" /\ job'.release = job.release /\ job'.status = job.status
      /\ job'.todo = job.todo \ {ref} /\ job'.done = job.done \cup {ref}
      /\ job.step = "apply"
  BY <1>1 DEF applyObject, TypeOK, Job
<1> QED
  BY <1>1, <1>2, <1>3

\* A prune touches nothing but the set it works off.
LEMMA PruneMoves ==
    ASSUME TypeOK, pruneObject \/ PruneFails
    PROVE  /\ \E ref \in job.doomed : live' \in {live, [live EXCEPT ![Key(ref)] = None]}
           /\ job'.release = job.release /\ job'.status = job.status
           /\ job'.todo = job.todo /\ job'.done = job.done /\ job'.doomed \subseteq job.doomed
           /\ job.step = "prune" /\ job'.step \in {"prune", "succeed"}
<1>1. \E ref \in job.doomed : live' \in {live, [live EXCEPT ![Key(ref)] = None]}
  BY DEF pruneObject, PruneFails
<1>2. job.step = "prune"
  BY DEF pruneObject, PruneFails
<1>3. ASSUME NEW ref \in job.doomed, job' = [job EXCEPT !.doomed = @ \ {ref}]
      PROVE  /\ job'.release = job.release /\ job'.status = job.status
             /\ job'.todo = job.todo /\ job'.done = job.done /\ job'.step = job.step
             /\ job'.doomed = job.doomed \ {ref}
  BY <1>3 DEF TypeOK, Job
<1>4. ASSUME job' = [job EXCEPT !.step = "succeed", !.doomed = {}]
      PROVE  /\ job'.release = job.release /\ job'.status = job.status
             /\ job'.todo = job.todo /\ job'.done = job.done /\ job'.step = "succeed"
             /\ job'.doomed = {}
  BY <1>4 DEF TypeOK, Job
<1>5. CASE pruneObject
  BY <1>1, <1>2, <1>3, <1>5 DEF pruneObject
<1>6. CASE PruneFails
  BY <1>1, <1>2, <1>4, <1>6 DEF PruneFails
<1> QED
  BY <1>5, <1>6

LEMMA NextJobOutput ==
    ASSUME Owned, [Next]_vars
    PROVE  JobOutput'
<1>0. TypeOK /\ JobTyped /\ JobOutput /\ InventoriesOwned
  BY DEF Owned
<1>1. ASSUME NEW r \in Release, \/ Skip(r) \/ Sync(r) \/ RequestReconcile(r)
                                \/ EditSpec(r) \/ DeleteRelease(r)
      PROVE  JobOutput'
  BY <1>0, <1>1 DEF Skip, Sync, RequestReconcile, EditSpec, DeleteRelease, JobOutput
<1>2. ASSUME NEW r \in Release, Begin(r)
      PROVE  JobOutput'
  BY <1>2 DEF Begin, IdleJob, JobOutput
<1>3. CASE MarkReconciling
  <2>1. job'.step = "source" /\ job'.done = job.done /\ job.step = "mark"
    BY <1>0, <1>3, JobFields DEF MarkReconciling, TypeOK, Job
  <2> QED
    BY <1>0, <2>1 DEF JobOutput
<1>4. CASE getSourceArtifact
  <2>1. /\ job'.step = "fetch" /\ job'.done = job.done /\ job.step = "source"
        /\ job'.status.lastAttemptedRevision = source[job.release]
    BY <1>0, <1>4, JobFields DEF getSourceArtifact, TypeOK, Job, Status
  <2>2. source[job.release] \in Revision
    BY <1>0, <1>4 DEF getSourceArtifact, TypeOK, JobTyped
  <2> QED
    BY <1>0, <2>1, <2>2 DEF JobOutput
<1>5. CASE fetchArtifact \/ PrepareFails
  BY <1>0, <1>5 DEF fetchArtifact, PrepareFails, TypeOK, Job, JobOutput
<1>6. CASE renderKdef
  <2>1. /\ job'.step = "apply" /\ job'.release = job.release /\ job'.status = job.status
        /\ job'.todo = Output(job.release, job.status.lastAttemptedRevision, job.spec.target)
        /\ job'.done = {}
    BY <1>0, <1>6 DEF renderKdef, TypeOK, Job, JobOutput
  <2>2. job.spec.target \in Namespace \cup {None}
    BY <1>0, JobFields DEF Intent
  <2>3. job.status.lastAttemptedRevision \in Revision
    BY <1>0, <1>6 DEF renderKdef, JobTyped
  <2> QED
    BY <2>1, <2>2, <2>3 DEF JobOutput
<1>7. CASE applyObject
  BY <1>0, <1>7, ApplyMoves DEF JobOutput, JobTyped
<1>8. CASE ApplyFails
  BY <1>0, <1>8 DEF ApplyFails, TypeOK, Job, JobOutput
<1>9. CASE FinishApply
  <2>1. job.status.inventory \subseteq RefsOf(job.release)
    BY <1>0, <1>9 DEF FinishApply, InventoriesOwned
  <2>2. /\ job'.release = job.release /\ job'.status = job.status
        /\ job'.todo = job.todo /\ job'.done = job.done
        /\ job.step = "apply" /\ job.todo = {}
        /\ job'.step \in {"prune", "succeed"}
        /\ job'.step = "prune" => job'.doomed = job.status.inventory \ job.done
    BY <1>0, <1>9 DEF FinishApply, TypeOK, Job
  <2>3. RefsOf(job'.release) = RefsOf(job.release)
    BY <2>2
  <2> QED
    BY <1>0, <2>1, <2>2, <2>3 DEF JobOutput, RefsOf
<1>10. CASE pruneObject \/ PruneFails
  BY <1>0, <1>10, PruneMoves DEF JobOutput, RefsOf
<1>11. CASE FinishPrune
  BY <1>0, <1>11 DEF FinishPrune, TypeOK, Job, JobOutput
<1>12. CASE ReportSuccess \/ failWithError \/ StatusPatchFails \/ Crash
  BY <1>12 DEF ReportSuccess, failWithError, StatusPatchFails, Crash, ReturnAfterInterval,
               ReturnError, IdleJob, JobOutput
<1>13. ASSUME NEW r \in Release, NEW v \in Revision, Publish(r, v)
       PROVE  JobOutput'
  BY <1>0, <1>13 DEF Publish, JobOutput
<1>14. CASE Heal \/ UNCHANGED vars
  BY <1>0, <1>14 DEF Heal, vars, JobOutput
<1> QED
  BY <1>1, <1>2, <1>3, <1>4, <1>5, <1>6, <1>7, <1>8, <1>9, <1>10, <1>11, <1>12, <1>13, <1>14
  DEF Next, Work, Environment

LEMMA AlwaysOwned == Spec => []Owned
<1>1. Init => Owned
  BY InitIInv, OwnedFromIInv
<1>2. Owned /\ [Next]_vars => Owned'
  BY NextType, NextJobTyped, NextInventoriesOwned, NextJobOutput DEF Owned
<1> QED
  BY <1>1, <1>2, PTL DEF Spec

\* From its first patch on, a call has the stored record in memory: that patch
\* answers with what is stored, and nothing but the call writes it.
JobHasRecord ==
    job.step \notin {"idle", "mark"} /\ job.release \in exists =>
        /\ job.status.lastAppliedRevision = status[job.release].lastAppliedRevision
        /\ job.status.inventory = status[job.release].inventory

LEMMA NextJobHasRecord ==
    ASSUME TypeOK, JobTyped, JobHasRecord, [Next]_vars
    PROVE  JobHasRecord'
<1> USE DEF JobHasRecord
<1>0. ASSUME NEW r \in Release, Begin(r)
      PROVE  JobHasRecord'
  BY <1>0 DEF Begin, IdleJob
<1>1. ASSUME NEW r \in Release, Skip(r) \/ Sync(r) \/ RequestReconcile(r) \/ EditSpec(r)
      PROVE  JobHasRecord'
  BY <1>1 DEF Skip, Sync, RequestReconcile, EditSpec
<1>2. CASE MarkReconciling
  BY <1>2 DEF MarkReconciling, TypeOK, Job
<1>3. CASE getSourceArtifact \/ fetchArtifact \/ renderKdef \/ PrepareFails
  BY <1>3, PrepareKeeps
<1>4. CASE applyObject \/ ApplyFails \/ FinishApply \/ pruneObject \/ PruneFails \/ FinishPrune
  BY <1>4, ApplyAndPruneKeep
<1>5. CASE ReportSuccess \/ failWithError \/ StatusPatchFails \/ Crash
  BY <1>5 DEF ReportSuccess, failWithError, StatusPatchFails, Crash, ReturnAfterInterval,
              ReturnError, IdleJob
<1>6. ASSUME NEW r \in Release, DeleteRelease(r)
      PROVE  JobHasRecord'
  BY <1>6 DEF DeleteRelease, TypeOK
<1>7. ASSUME NEW r \in Release, NEW v \in Revision, Publish(r, v)
      PROVE  JobHasRecord'
  BY <1>7 DEF Publish
<1>8. CASE Heal \/ UNCHANGED vars
  BY <1>8 DEF Heal, vars
<1> QED
  BY <1>0, <1>1, <1>2, <1>3, <1>4, <1>5, <1>6, <1>7, <1>8 DEF Next, Work, Environment

\* So the report of success stores the whole record of the call.
LEMMA SuccessStored ==
    ASSUME TypeOK, JobTyped, JobHasRecord, job.step = "succeed", job.release \in exists
    PROVE  LET won == Patched(Succeeded(job.status))[job.release]
           IN  /\ won.lastAppliedRevision = job.status.lastAttemptedRevision
               /\ won.inventory = job.done
<1> DEFINE won == Succeeded(job.status)
<1>1. job.status \in Status /\ status \in [Release -> Status] /\ job.release \in Release
  BY JobFields DEF TypeOK, JobTyped
<1>2. won.lastAppliedRevision = job.status.lastAttemptedRevision /\ won.inventory = job.done
  BY <1>1 DEF Succeeded, Status
<1>3. Patched(won)[job.release] = MergePatch(status[job.release], job.status, won)
  BY <1>1 DEF Patched
<1> QED
  BY <1>2, <1>3 DEF JobHasRecord, MergePatch, Merged

\* The record of one release: InventoryIsOfRevision for one status.
IsRecord(r, s) ==
    IF s.lastAppliedRevision = None
    THEN s.inventory = {}
    ELSE \E target \in Namespace \cup {None} :
             s.inventory = Output(r, s.lastAppliedRevision, target)

LEMMA NextInventoryIsOfRevision ==
    ASSUME Owned, JobHasRecord, InventoryIsOfRevision, [Next]_vars
    PROVE  InventoryIsOfRevision'
<1>0. /\ TypeOK /\ JobTyped /\ JobOutput
      /\ \A r \in Release : IsRecord(r, status[r])
  BY DEF Owned, InventoryIsOfRevision, IsRecord
<1>1. SUFFICES ASSUME NEW r \in Release
               PROVE  IsRecord(r, status'[r])
  BY DEF InventoryIsOfRevision, IsRecord, Output
<1>2. CASE status'[r] = status[r]
  BY <1>0, <1>2
<1>3. CASE /\ status'[r].lastAppliedRevision = status[r].lastAppliedRevision
           /\ status'[r].inventory = status[r].inventory
  BY <1>0, <1>3 DEF IsRecord
<1>4. CASE status'[r] = NewStatus
  BY <1>4 DEF IsRecord, NewStatus
<1>5. CASE job.step = "succeed" /\ job.release \in exists /\ r = job.release
           /\ status' = Patched(Succeeded(job.status))
  <2>1. /\ status'[r].lastAppliedRevision = job.status.lastAttemptedRevision
        /\ status'[r].inventory = job.done
    BY <1>0, <1>5, SuccessStored
  <2>2. \E target \in Namespace \cup {None} :
           job.done = Output(job.release, job.status.lastAttemptedRevision, target)
    BY <1>0, <1>5 DEF JobOutput
  <2>3. job.status.lastAttemptedRevision # None
    BY <1>0, <1>5, ConstantsAssumption DEF JobTyped
  <2> QED
    BY <1>5, <2>1, <2>2, <2>3 DEF IsRecord
<1>6. CASE MarkReconciling \/ ReportSuccess \/ failWithError \/ StatusPatchFails
  <2>1. \/ status' = status
        \/ job.step = "mark" /\ status' = Patched(Reconciling(job.status))
        \/ job.step = "fail" /\ status' = Patched(Failed(job.status))
        \/ /\ job.step = "succeed" /\ job.release \in exists
           /\ status' = Patched(Succeeded(job.status))
    BY <1>6 DEF MarkReconciling, ReportSuccess, failWithError, StatusPatchFails
  <2>2. job.step = "mark" /\ status' = Patched(Reconciling(job.status))
          => IsRecord(r, status'[r])
    BY <1>0, <1>3, RecordStored
  <2>3. job.step = "fail" /\ status' = Patched(Failed(job.status)) => IsRecord(r, status'[r])
    BY <1>0, <1>3, RecordStored
  <2>4. r # job.release /\ status' = Patched(Succeeded(job.status)) => IsRecord(r, status'[r])
    BY <1>0, <1>2, PatchedElsewhere
  <2> QED
    BY <1>2, <1>5, <2>1, <2>2, <2>3, <2>4
<1>7. ASSUME NEW q \in Release, DeleteRelease(q)
      PROVE  IsRecord(r, status'[r])
  BY <1>0, <1>2, <1>4, <1>7 DEF DeleteRelease, TypeOK
<1>8. ASSUME status' = status
      PROVE  IsRecord(r, status'[r])
  BY <1>2, <1>8
<1> QED
  BY <1>6, <1>7, <1>8
  DEF Next, Work, Environment, vars, Skip, Begin, getSourceArtifact, fetchArtifact, renderKdef,
      PrepareFails, applyObject, ApplyFails, FinishApply, pruneObject, PruneFails, FinishPrune,
      Crash, Heal, Sync, RequestReconcile, EditSpec, Publish

\* The record a prune starts from is the output of one revision at all times,
\* on stale copies too and whoever shares an address.
THEOREM Recorded == Spec => []InventoryIsOfRevision
<1>1. Init => JobHasRecord /\ InventoryIsOfRevision
  BY DEF Init, JobHasRecord, InventoryIsOfRevision, IdleJob, NewStatus
<1>2. Owned /\ JobHasRecord /\ InventoryIsOfRevision /\ [Next]_vars
        => (JobHasRecord /\ InventoryIsOfRevision)'
  BY NextJobHasRecord, NextInventoryIsOfRevision DEF Owned
<1> QED
  BY <1>1, <1>2, AlwaysOwned, PTL DEF Spec

\* What a prune is after and what the call has applied have no address in
\* common, if the addresses of the release are apart.
LEMMA DoomedApart ==
    ASSUME OwnAddressesApart, Owned, job.step = "prune",
           NEW ref \in job.doomed, NEW p \in job.done
    PROVE  Key(p) # Key(ref)
<1>1. ref \in RefsOf(job.release) \ job.done /\ job.release \in Release
  BY DEF Owned, JobOutput, JobTyped
<1>2. p \in RefsOf(job.release)
  BY JobOwned DEF Owned
<1> QED
  BY <1>1, <1>2 DEF OwnAddressesApart

LEMMA ApartFromOwn == AddressesApart => OwnAddressesApart
BY DEF AddressesApart, OwnAddressesApart

LEMMA NextDoneIsInPlace ==
    ASSUME OwnAddressesApart, Owned, DoneIsInPlace, [Next]_vars
    PROVE  DoneIsInPlace'
<1> USE DEF DoneIsInPlace
<1>0. TypeOK /\ JobTyped /\ JobOutput
  BY DEF Owned
<1>1. ASSUME NEW r \in Release, \/ Skip(r) \/ Begin(r) \/ Sync(r) \/ RequestReconcile(r)
                                \/ EditSpec(r) \/ DeleteRelease(r)
      PROVE  DoneIsInPlace'
  BY <1>1 DEF Skip, Begin, IdleJob, Sync, RequestReconcile, EditSpec, DeleteRelease
<1>2. CASE MarkReconciling
  BY <1>0, <1>2 DEF MarkReconciling, TypeOK, Job
<1>3. CASE getSourceArtifact \/ fetchArtifact \/ PrepareFails
  BY <1>0, <1>3 DEF getSourceArtifact, fetchArtifact, PrepareFails, TypeOK, Job
<1>4. CASE renderKdef
  BY <1>0, <1>4 DEF renderKdef, TypeOK, Job, JobOutput
<1>5. CASE applyObject
  <2>1. PICK ref \in job.todo :
              /\ live' = Applied(ref)
              /\ job.step = "apply" /\ job'.release = job.release /\ job'.status = job.status
              /\ job'.done = job.done \cup {ref}
    BY <1>0, <1>5, ApplyMoves
  <2>2. ASSUME NEW p \in job'.done
        PROVE  live'[Key(p)] = <<job.release, job.status.lastAttemptedRevision>>
    <3>1. Key(p) \in Ref /\ (p = ref \/ p \in job.done)
      BY <1>0, <2>1, JobFields, KeyIsRef
    <3> QED
      BY <1>0, <2>1, <3>1 DEF Applied, TypeOK
  <2> QED
    BY <2>1, <2>2
<1>6. CASE ApplyFails
  BY <1>0, <1>6 DEF ApplyFails, TypeOK, Job
<1>7. CASE FinishApply \/ FinishPrune
  BY <1>0, <1>7 DEF FinishApply, FinishPrune, TypeOK, Job
<1>8. CASE pruneObject \/ PruneFails
  <2>1. PICK ref \in job.doomed : live' \in {live, [live EXCEPT ![Key(ref)] = None]}
    BY <1>0, <1>8, PruneMoves
  <2>2. \A p \in job.done : live'[Key(p)] = live[Key(p)]
    BY <1>0, <1>8, <2>1, PruneMoves, DoomedApart, JobFields, KeyIsRef DEF TypeOK
  <2> QED
    BY <1>0, <1>8, <2>2, PruneMoves
<1>9. CASE ReportSuccess \/ failWithError \/ StatusPatchFails \/ Crash
  BY <1>9 DEF ReportSuccess, failWithError, StatusPatchFails, Crash, ReturnAfterInterval,
              ReturnError, IdleJob
<1>10. ASSUME NEW r \in Release, NEW v \in Revision, Publish(r, v)
       PROVE  DoneIsInPlace'
  BY <1>10 DEF Publish
<1>11. CASE Heal \/ UNCHANGED vars
  BY <1>11 DEF Heal, vars
<1> QED
  BY <1>1, <1>2, <1>3, <1>4, <1>5, <1>6, <1>7, <1>8, <1>9, <1>10, <1>11
  DEF Next, Work, Environment

\* What pruneObjects deletes is never at an address just applied, and by then
\* everything is applied: also on a stale copy, and also where releases
\* take each other's objects.
THEOREM Spares ==
    ASSUME OwnAddressesApart
    PROVE  Spec => PruneSparesOutput
<1> DEFINE Spared(key) == /\ job.todo = {}
                          /\ key \notin {Key(ref) : ref \in job.done}
<1>1. ASSUME Owned, [Next]_vars, NEW key \in Ref, live[key] # None, live'[key] = None
      PROVE  Spared(key)
  <2>0. TypeOK /\ JobTyped /\ JobOutput
    BY <1>1 DEF Owned
  <2>1. CASE applyObject \/ ApplyFails
    <3>1. PICK ref \in NextToApply(job.todo) : live' \in {live, Applied(ref)}
      BY <2>1 DEF applyObject, ApplyFails
    <3>2. <<job.release, job.status.lastAttemptedRevision>> # None
      <4>1. job.release \in Release /\ job.status.lastAttemptedRevision \in Revision
        BY <2>0, <2>1 DEF JobTyped, applyObject, ApplyFails
      <4>2. <<job.release, job.status.lastAttemptedRevision>> \in Release \X Revision
        BY <4>1
      <4> QED
        BY <4>2, ConstantsAssumption
    <3> QED
      BY <1>1, <2>0, <3>1, <3>2 DEF Applied, TypeOK
  <2>2. CASE pruneObject \/ PruneFails
    <3>1. PICK ref \in job.doomed : live' \in {live, [live EXCEPT ![Key(ref)] = None]}
      BY <2>0, <2>2, PruneMoves
    <3>2. key = Key(ref)
      BY <1>1, <2>0, <3>1 DEF TypeOK
    <3>3. job.step = "prune" /\ job.todo = {}
      BY <2>0, <2>2, PruneMoves DEF JobOutput
    <3> QED
      BY <1>1, <3>1, <3>2, <3>3, DoomedApart
  <2>3. CASE live' = live
    BY <1>1, <2>3
  <2> QED
    BY <1>1, <2>1, <2>2, <2>3
    DEF Next, Work, Environment, vars, Skip, Begin, MarkReconciling, getSourceArtifact,
        fetchArtifact, renderKdef, PrepareFails, FinishApply, FinishPrune, ReportSuccess,
        failWithError, StatusPatchFails, Crash, Heal, Sync, RequestReconcile, EditSpec,
        DeleteRelease, Publish
<1>2. Owned /\ [Next]_vars
        => [\A key \in Ref : live[key] # None /\ live'[key] = None => Spared(key)]_vars
  BY <1>1
<1> QED
  BY <1>2, AlwaysOwned, PTL DEF Spec, PruneSparesOutput

\* What a call does to the objects of its release is no business of a settled
\* one: the release of the call carries the mark, and no other shares its
\* addresses.
LEMMA SettledUndisturbed ==
    ASSUME AddressesApart, IInv, job.step \in {"apply", "prune"},
           NEW ref \in RefsOf(job.release),
           \A key \in Ref \ {Key(ref)} : live'[key] = live[key],
           UNCHANGED <<exists, status>>
    PROVE  ReadyIsTruthful'
<1>0. TypeOK /\ JobTyped /\ JobMirrorsStatus /\ InventoriesOwned /\ ReadyIsTruthful
  BY TypedFromIInv DEF IInv
<1>1. SUFFICES ASSUME NEW r \in Release, Settled(r), NEW p \in status[r].inventory
               PROVE  live'[Key(p)] = live[Key(p)]
  BY <1>0 DEF ReadyIsTruthful, Settled, Output
<1>2. job.release \in Release /\ r # job.release
  BY <1>0, <1>1 DEF JobTyped, JobMirrorsStatus, Settled
<1>3. p \in RefsOf(r) /\ Key(p) \in Ref
  BY <1>0, <1>1, RefsOfIsRefs, KeyIsRef DEF InventoriesOwned
<1>4. Key(p) # Key(ref)
  BY <1>2, <1>3 DEF AddressesApart
<1> QED
  BY <1>3, <1>4

LEMMA NextReadyIsTruthful ==
    ASSUME AddressesApart, IInv, [Next]_vars
    PROVE  ReadyIsTruthful'
<1>0. /\ TypeOK /\ JobTyped /\ JobMirrorsStatus /\ JobProgress
      /\ InventoriesOwned /\ ReadyIsTruthful
  BY TypedFromIInv DEF IInv
<1>1. ASSUME UNCHANGED <<exists, status, live>>
      PROVE  ReadyIsTruthful'
  BY <1>0, <1>1 DEF ReadyIsTruthful, Settled, Output
<1>2. ASSUME NEW r \in Release, \/ Skip(r) \/ Begin(r) \/ Sync(r) \/ RequestReconcile(r)
                                \/ EditSpec(r)
      PROVE  ReadyIsTruthful'
  BY <1>1, <1>2 DEF Skip, Begin, Sync, RequestReconcile, EditSpec
<1>3. CASE MarkReconciling
  <2>1. ASSUME NEW r \in Release, r = job.release
        PROVE  ~ Settled(r)'
    BY <1>0, <1>3, <2>1, MarkStored DEF MarkReconciling, Settled
  <2>2. /\ \A r \in Release \ {job.release} : status'[r] = status[r]
        /\ exists' = exists /\ live' = live
    BY <1>0, <1>3, PatchedElsewhere DEF MarkReconciling
  <2> QED
    BY <1>0, <2>1, <2>2 DEF ReadyIsTruthful, Settled, Output
<1>4. CASE getSourceArtifact \/ fetchArtifact \/ renderKdef \/ PrepareFails
  BY <1>0, <1>1, <1>4, PrepareKeeps
<1>5. CASE applyObject \/ ApplyFails
  <2>1. PICK ref \in NextToApply(job.todo) : live' \in {live, Applied(ref)}
    BY <1>5 DEF applyObject, ApplyFails
  <2>2. ref \in RefsOf(job.release)
    BY <1>0, <1>5, JobOwned DEF JobProgress, applyObject, ApplyFails, NextToApply
  <2>3. \A key \in Ref \ {Key(ref)} : live'[key] = live[key]
    BY <1>0, <2>1 DEF Applied, TypeOK
  <2> QED
    BY <1>0, <1>5, <2>2, <2>3, ApplyAndPruneKeep, SettledUndisturbed
<1>6. CASE pruneObject \/ PruneFails
  <2>1. PICK ref \in job.doomed : live' \in {live, [live EXCEPT ![Key(ref)] = None]}
    BY <1>6 DEF pruneObject, PruneFails
  <2>2. ref \in RefsOf(job.release)
    BY <1>0, <1>6 DEF JobProgress, JobOutput, pruneObject, PruneFails
  <2>3. \A key \in Ref \ {Key(ref)} : live'[key] = live[key]
    BY <1>0, <2>1 DEF TypeOK
  <2> QED
    BY <1>0, <1>6, <2>2, <2>3, ApplyAndPruneKeep, SettledUndisturbed
<1>7. CASE FinishApply \/ FinishPrune
  BY <1>1, <1>7 DEF FinishApply, FinishPrune
<1>8. CASE ReportSuccess \/ failWithError \/ StatusPatchFails
  <2>1. exists' = exists /\ live' = live /\ job.release \in Release
    BY <1>0, <1>8 DEF ReportSuccess, failWithError, StatusPatchFails, JobTyped
  <2>2. ASSUME NEW r \in Release
        PROVE  \/ status'[r] = status[r]
               \/ ~ Settled(r)'
               \/ /\ r = job.release /\ job.step = "succeed"
                  /\ status'[r].lastAppliedRevision = job.status.lastAttemptedRevision
                  /\ status'[r].inventory = job.done
    BY <1>0, <1>8, MarkStored, ReportStored, PatchedElsewhere
    DEF ReportSuccess, failWithError, StatusPatchFails, Settled
  <2>3. ASSUME NEW r \in Release, Settled(r)'
        PROVE  /\ \E target \in Namespace \cup {None} :
                     status'[r].inventory
                         = Output(r, status'[r].lastAppliedRevision, target)
               /\ \A ref \in status'[r].inventory :
                     live[Key(ref)] = <<r, status'[r].lastAppliedRevision>>
    <3>1. CASE status'[r] = status[r]
      BY <1>0, <2>1, <2>3, <3>1 DEF ReadyIsTruthful, Settled
    <3>2. CASE /\ r = job.release /\ job.step = "succeed"
               /\ status'[r].lastAppliedRevision = job.status.lastAttemptedRevision
               /\ status'[r].inventory = job.done
      BY <1>0, <3>2 DEF JobProgress, JobOutput, DoneIsInPlace
    <3> QED
      BY <2>2, <2>3, <3>1, <3>2
  <2> QED
    BY <2>1, <2>3 DEF ReadyIsTruthful, Output
<1>9. CASE Crash
  BY <1>1, <1>9 DEF Crash
<1>10. ASSUME NEW r \in Release, DeleteRelease(r)
       PROVE  ReadyIsTruthful'
  <2>1. /\ exists' = exists \ {r} /\ live' = live
        /\ \A q \in Release \ {r} : status'[q] = status[q]
    BY <1>0, <1>10 DEF DeleteRelease, TypeOK
  <2> QED
    BY <1>0, <2>1 DEF ReadyIsTruthful, Settled, Output
<1>11. ASSUME NEW r \in Release, NEW v \in Revision, Publish(r, v)
       PROVE  ReadyIsTruthful'
  BY <1>1, <1>11 DEF Publish
<1>12. CASE Heal \/ UNCHANGED vars
  BY <1>1, <1>12 DEF Heal, vars
<1> QED
  BY <1>2, <1>3, <1>4, <1>5, <1>6, <1>7, <1>8, <1>9, <1>10, <1>11, <1>12
  DEF Next, Work, Environment

\* The inductive invariant holds wherever reads are fresh and the outputs of
\* the releases do not meet.
THEOREM Inductive ==
    ASSUME ~StaleReads, AddressesApart
    PROVE  Spec => []IInv
<1>1. IInv /\ [Next]_vars => IInv'
  BY NextType, NextInventoriesOwned, NextJobMirrorsStatus, NextJobOutput, NextDoneIsInPlace,
     NextReadyIsTruthful, OwnedFromIInv, TypedFromIInv, ApartFromOwn DEF IInv, JobProgress
<1> QED
  BY <1>1, InitIInv, PTL DEF Spec

\* A release that reads Ready is in the cluster as its status says, through
\* failed calls, lost responses, crashes, edits and deletions.
THEOREM Truthful ==
    ASSUME ~StaleReads, AddressesApart
    PROVE  Spec => []ReadyIsTruthful
<1>1. IInv => ReadyIsTruthful
  BY DEF IInv
<1> QED
  BY <1>1, Inductive, PTL
=============================================================================
