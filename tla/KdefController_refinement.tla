--------------------- MODULE KdefController_refinement ----------------------
(***************************************************************************)
(* The controller implements KdefSync: every step of it retracts a claim,  *)
(* writes or removes one object, claims a revision, or is a stutter, under *)
(* the mapping of KdefController's DesiredState.                           *)
(***************************************************************************)
EXTENDS KdefController_proofs

\* The abstract variable: what every release claims.
Claims == [r \in Release |-> ClaimOf(r)]

LEMMA InitRefines == Init => DesiredState!Init
BY DEF Init, DesiredState!Init, ClaimOf, Settled, NewStatus

\* A claim depends on nothing but the release and its stored status.
LEMMA ClaimKept ==
    ASSUME NEW r \in Release,
           r \in exists <=> r \in exists',
           status'[r] = status[r]
    PROVE  ClaimOf(r)' = ClaimOf(r)
BY DEF ClaimOf, Settled

LEMMA ClaimsKept ==
    ASSUME UNCHANGED <<exists, status>>
    PROVE  Claims' = Claims
BY ClaimKept DEF Claims

\* A call that touches the cluster works on a release that claims nothing.
LEMMA JobClaimsNothing ==
    ASSUME IInv, job.step \notin {"idle", "mark"}
    PROVE  job.release \in Release /\ Claims[job.release] = None
BY DEF IInv, JobMirrorsStatus, Claims, ClaimOf, Settled

\* The objects of the call are a set of addresses the release may render.
LEMMA JobDesired ==
    ASSUME IInv, job.step \in {"apply", "prune", "succeed"}
    PROVE  /\ job.status.lastAttemptedRevision \in Revision
           /\ {Key(ref) : ref \in job.todo \cup job.done}
                 \in DesiredKeys[job.release][job.status.lastAttemptedRevision]
<1>1. job.release \in Release /\ job.status.lastAttemptedRevision \in Revision
  BY TypedFromIInv DEF JobTyped
<1>2. PICK target \in Namespace \cup {None} :
            job.todo \cup job.done
                = Output(job.release, job.status.lastAttemptedRevision, target)
  BY DEF IInv, JobProgress, JobOutput
<1> QED
  BY <1>1, <1>2 DEF DesiredKeys

\* The rank of an address is that of the manifests found there.
LEMMA KeyRank ==
    ASSUME NEW ref \in Ref
    PROVE  RankOfKey[Key(ref)] = applyOrder(Kind[ref[2]])
<1>1. Key(ref) \in Ref /\ Key(ref)[2] = ref[2]
  BY DEF Key, Ref
<1> QED
  BY <1>1 DEF RankOfKey

LEMMA WriteRefines ==
    ASSUME IInv, job.step = "apply", NEW ref \in NextToApply(job.todo),
           live' = Applied(ref), UNCHANGED <<exists, status>>
    PROVE  DesiredState!Write(job.release, job.status.lastAttemptedRevision)
<1> DEFINE r == job.release
           v == job.status.lastAttemptedRevision
           objects == {Key(p) : p \in job.todo \cup job.done}
<1>1. /\ job.todo \subseteq Ref /\ job.done \subseteq Ref
      /\ ref \in job.todo /\ \A p \in job.todo : ~Before(p, ref)
  BY JobFields DEF IInv, NextToApply
<1>2. objects \in DesiredKeys[r][v] /\ Key(ref) \in objects
  BY <1>1, JobDesired
<1>3. ASSUME NEW b \in objects, RankOfKey[b] < RankOfKey[Key(ref)]
      PROVE  live[b] = <<r, v>>
  <2>1. PICK p \in job.todo \cup job.done : b = Key(p)
    OBVIOUS
  <2>2. Before(p, ref)
    BY <1>1, <1>3, <2>1, KeyRank DEF Before
  <2>3. p \in job.done
    BY <1>1, <2>1, <2>2
  <2> QED
    BY <2>1, <2>3 DEF IInv, JobProgress, DoneIsInPlace
<1>4. Claims[r] = None /\ Claims' = Claims
  BY JobClaimsNothing, ClaimsKept
<1>5. live' = [live EXCEPT ![Key(ref)] = <<r, v>>]
  BY DEF Applied
<1> QED
  BY <1>2, <1>3, <1>4, <1>5 DEF DesiredState!Write, DesiredState!InPlace, Claims

LEMMA RemoveRefines ==
    ASSUME AddressesApart, IInv, job.step = "prune", NEW ref \in job.doomed,
           live' = [live EXCEPT ![Key(ref)] = None], UNCHANGED <<exists, status>>
    PROVE  DesiredState!Remove(job.release, job.status.lastAttemptedRevision)
<1> DEFINE r == job.release
           v == job.status.lastAttemptedRevision
           objects == {Key(p) : p \in job.todo \cup job.done}
<1>0. JobTyped /\ JobProgress /\ TypeOK
  BY TypedFromIInv DEF IInv
<1>1. job.todo = {} /\ ref \in RefsOf(r) \ job.done /\ r \in Release
  BY <1>0 DEF JobProgress, JobOutput, JobTyped
<1>2. objects \in DesiredKeys[r][v]
  BY JobDesired
<1>3. Key(ref) \notin objects
  <2>1. \A p \in job.done : Key(p) # Key(ref)
    BY <1>0, <1>1, JobOwned DEF AddressesApart, JobProgress
  <2> QED
    BY <1>1, <2>1
<1>4. Key(ref) \in DesiredState!Owned(r)
  <2>1. PICK w \in Revision, target \in Namespace \cup {None} : ref \in Output(r, w, target)
    BY <1>1 DEF RefsOf
  <2> DEFINE keys == {Key(p) : p \in Output(r, w, target)}
  <2>2. keys \in DesiredKeys[r][w] /\ Key(ref) \in keys
    BY <1>1, <2>1 DEF DesiredKeys
  <2> QED
    BY <2>2 DEF DesiredState!Owned
<1>5. \A b \in objects : live[b] = <<r, v>>
  BY <1>0, <1>1 DEF JobProgress, JobOutput, DoneIsInPlace
<1>6. Claims[r] = None /\ Claims' = Claims
  BY JobClaimsNothing, ClaimsKept
<1> QED
  BY <1>2, <1>3, <1>4, <1>5, <1>6 DEF DesiredState!Remove, DesiredState!InPlace, Claims

\* A release whose stored status is rewritten by its own call while that call
\* is still in the dark, or that is deleted, can only lose its claim.
LEMMA RetractRefines ==
    ASSUME NEW r \in Release, ~ Settled(r)', live' = live,
           \A q \in Release \ {r} : ClaimOf(q)' = ClaimOf(q)
    PROVE  DesiredState!Retract(r) \/ Claims' = Claims
<1>1. ClaimOf(r)' = None
  BY DEF ClaimOf
<1>2. Claims' = [Claims EXCEPT ![r] = None]
  BY <1>1 DEF Claims
<1>3. Claims[r] = None => Claims' = Claims
  BY <1>1 DEF Claims
<1> QED
  BY <1>2, <1>3 DEF DesiredState!Retract, Claims

LEMMA ClaimRefines ==
    ASSUME IInv, job.step = "succeed", job.release \in exists,
           status' = Patched(Succeeded(job.status)), UNCHANGED <<exists, live>>
    PROVE  DesiredState!Claim(job.release, job.status.lastAttemptedRevision)
<1> DEFINE r == job.release
           v == job.status.lastAttemptedRevision
           objects == {Key(p) : p \in job.todo \cup job.done}
<1>0. TypeOK /\ JobMirrorsStatus /\ JobProgress /\ r \in Release
  BY TypedFromIInv DEF IInv, JobTyped
<1>1. objects \in DesiredKeys[r][v] /\ objects = {Key(p) : p \in job.done}
  BY <1>0, JobDesired DEF JobProgress, JobOutput
<1>2. \A b \in objects : live[b] = <<r, v>>
  BY <1>0, <1>1 DEF JobProgress, JobOutput, DoneIsInPlace
<1>3. /\ status'[r].conditions = [ready |-> "True", reconciling |-> None]
      /\ status'[r].lastAppliedRevision = v
      /\ status'[r].inventory = job.done
  BY <1>0, ReportStored
<1>4. \A q \in Release : q = r => ClaimOf(q)' = [revision |-> v, objects |-> objects]
  BY <1>1, <1>3 DEF ClaimOf, Settled
<1>5. \A q \in Release \ {r} : ClaimOf(q)' = ClaimOf(q)
  BY <1>0, PatchedElsewhere, ClaimKept
<1>6. Claims' = [Claims EXCEPT ![r] = [revision |-> v, objects |-> objects]]
  BY <1>0, <1>4, <1>5 DEF Claims
<1>7. Claims[r] = None
  BY JobClaimsNothing
<1> QED
  BY <1>1, <1>2, <1>6, <1>7 DEF DesiredState!Claim, DesiredState!InPlace, Claims

\* Every step of the controller is a step of the sync or a stutter.
LEMMA NextRefines ==
    ASSUME AddressesApart, IInv, [Next]_vars
    PROVE  DesiredState!Next \/ (Claims' = Claims /\ live' = live)
<1>0. TypeOK /\ JobTyped /\ JobMirrorsStatus
  BY TypedFromIInv DEF IInv
<1> DEFINE Goal == DesiredState!Next \/ (Claims' = Claims /\ live' = live)
<1>1. ASSUME UNCHANGED <<exists, status, live>>
      PROVE  Goal
  BY <1>1, ClaimsKept
<1>2. ASSUME NEW r \in Release, \/ Skip(r) \/ Begin(r) \/ Sync(r) \/ RequestReconcile(r)
                                \/ EditSpec(r)
      PROVE  Goal
  BY <1>1, <1>2 DEF Skip, Begin, Sync, RequestReconcile, EditSpec
<1>3. CASE MarkReconciling
  <2>1. job.release \in Release /\ exists' = exists /\ live' = live
    BY <1>0, <1>3 DEF MarkReconciling, JobTyped
  <2>2. PICK r \in Release : r = job.release
    BY <2>1
  <2>3. ~ Settled(r)'
    BY <1>0, <1>3, <2>2, MarkStored DEF MarkReconciling, Settled
  <2>4. \A q \in Release \ {r} : ClaimOf(q)' = ClaimOf(q)
    BY <1>0, <1>3, <2>1, <2>2, PatchedElsewhere, ClaimKept DEF MarkReconciling
  <2>5. DesiredState!Retract(r) \/ Claims' = Claims
    BY <2>1, <2>3, <2>4, RetractRefines
  <2> QED
    BY <2>1, <2>5 DEF DesiredState!Next
<1>4. CASE getSourceArtifact \/ fetchArtifact \/ renderKdef \/ PrepareFails
  BY <1>0, <1>1, <1>4, PrepareKeeps
<1>5. CASE applyObject \/ ApplyFails
  <2>1. PICK ref \in NextToApply(job.todo) : live' \in {live, Applied(ref)}
    BY <1>5 DEF applyObject, ApplyFails
  <2>2. job.step = "apply" /\ UNCHANGED <<exists, status>>
    BY <1>5 DEF applyObject, ApplyFails
  <2>3. CASE live' = live
    BY <1>1, <2>2, <2>3
  <2>4. CASE live' = Applied(ref)
    <3>1. DesiredState!Write(job.release, job.status.lastAttemptedRevision)
      BY <2>2, <2>4, WriteRefines
    <3>2. job.release \in Release /\ job.status.lastAttemptedRevision \in Revision
      BY <1>0, <2>2 DEF JobTyped
    <3> QED
      BY <3>1, <3>2 DEF DesiredState!Next
  <2> QED
    BY <2>1, <2>3, <2>4
<1>6. CASE pruneObject \/ PruneFails
  <2>1. PICK ref \in job.doomed : live' \in {live, [live EXCEPT ![Key(ref)] = None]}
    BY <1>6 DEF pruneObject, PruneFails
  <2>2. job.step = "prune" /\ UNCHANGED <<exists, status>>
    BY <1>6 DEF pruneObject, PruneFails
  <2>3. CASE live' = live
    BY <1>1, <2>2, <2>3
  <2>4. CASE live' = [live EXCEPT ![Key(ref)] = None]
    <3>1. DesiredState!Remove(job.release, job.status.lastAttemptedRevision)
      BY <2>2, <2>4, RemoveRefines
    <3>2. job.release \in Release /\ job.status.lastAttemptedRevision \in Revision
      BY <1>0, <2>2 DEF JobTyped
    <3> QED
      BY <3>1, <3>2 DEF DesiredState!Next
  <2> QED
    BY <2>1, <2>3, <2>4
<1>7. CASE FinishApply \/ FinishPrune
  BY <1>1, <1>7 DEF FinishApply, FinishPrune
<1>8. CASE ReportSuccess \/ failWithError \/ StatusPatchFails
  <2>1. /\ exists' = exists /\ live' = live /\ job.release \in Release
        /\ job.step \in {"mark", "succeed", "fail"}
    BY <1>0, <1>8 DEF ReportSuccess, failWithError, StatusPatchFails, JobTyped
  <2>2. CASE status' = status
    BY <1>1, <2>1, <2>2
  <2>3. CASE job.release \in exists /\ job.step = "succeed" /\ status' = Patched(Succeeded(job.status))
    <3>1. DesiredState!Claim(job.release, job.status.lastAttemptedRevision)
      BY <2>1, <2>3, ClaimRefines
    <3>2. job.status.lastAttemptedRevision \in Revision
      BY <1>0, <2>3 DEF JobTyped
    <3> QED
      BY <2>1, <3>1, <3>2 DEF DesiredState!Next
  <2>4. CASE /\ job.release \in exists
             /\ \/ job.step = "mark" /\ status' = Patched(Reconciling(job.status))
                \/ job.step = "fail" /\ status' = Patched(Failed(job.status))
    <3>1. PICK r \in Release : r = job.release
      BY <2>1
    <3>2. ~ Settled(r)'
      BY <1>0, <2>4, <3>1, MarkStored, ReportStored DEF Settled
    <3>3. \A q \in Release \ {r} : ClaimOf(q)' = ClaimOf(q)
      BY <1>0, <2>1, <2>4, <3>1, PatchedElsewhere, ClaimKept
    <3>4. DesiredState!Retract(r) \/ Claims' = Claims
      BY <2>1, <3>2, <3>3, RetractRefines
    <3> QED
      BY <2>1, <3>4 DEF DesiredState!Next
  <2> QED
    BY <1>8, <2>2, <2>3, <2>4 DEF ReportSuccess, failWithError, StatusPatchFails
<1>9. CASE Crash
  BY <1>1, <1>9 DEF Crash
<1>10. ASSUME NEW r \in Release, DeleteRelease(r)
       PROVE  Goal
  <2>1. ~ Settled(r)' /\ live' = live
    BY <1>10 DEF DeleteRelease, Settled
  <2>2. \A q \in Release \ {r} : ClaimOf(q)' = ClaimOf(q)
    BY <1>0, <1>10, ClaimKept DEF DeleteRelease, TypeOK
  <2>3. DesiredState!Retract(r) \/ Claims' = Claims
    BY <2>1, <2>2, RetractRefines
  <2> QED
    BY <2>1, <2>3 DEF DesiredState!Next
<1>11. ASSUME NEW r \in Release, NEW v \in Revision, Publish(r, v)
       PROVE  Goal
  BY <1>1, <1>11 DEF Publish
<1>12. CASE Heal \/ UNCHANGED vars
  BY <1>1, <1>12 DEF Heal, vars
<1> QED
  BY <1>2, <1>3, <1>4, <1>5, <1>6, <1>7, <1>8, <1>9, <1>10, <1>11, <1>12
  DEF Next, Work, Environment

\* The controller is a declarative sync wherever reads are fresh and the
\* outputs of the releases do not meet.
THEOREM Refines ==
    ASSUME ~StaleReads, AddressesApart
    PROVE  Spec => ImplementsSync
<1>1. IInv /\ [Next]_vars => [DesiredState!Next]_<<live, [r \in Release |-> ClaimOf(r)]>>
  BY NextRefines DEF Claims
<1>2. Spec => []IInv
  BY Inductive
<1>3. DesiredState!vars = <<live, [r \in Release |-> ClaimOf(r)]>>
  BY DEF DesiredState!vars
<1> QED
  BY <1>1, <1>2, InitRefines, PTL DEF Spec, ImplementsSync, DesiredState!Spec, DesiredState!vars
=============================================================================
