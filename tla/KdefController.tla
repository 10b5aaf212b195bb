--------------------------- MODULE KdefController ---------------------------
(***************************************************************************)
(* The Flux controller: KdefReleaseReconciler.Reconcile, the work queue    *)
(* and informer cache it runs under, and the cluster it writes to.         *)
(*                                                                         *)
(* One process with one worker runs Reconcile (SetupWithManager sets no    *)
(* MaxConcurrentReconciles and main.go never passes its --concurrent flag  *)
(* on), so at most one job is in progress; users, the source controller,   *)
(* faults and crashes interleave with its API calls, one step per call.    *)
(***************************************************************************)
EXTENDS Naturals, FiniteSets

CONSTANTS
    Release,        \* the KdefRelease objects
    Revision,       \* artifact revisions a source can publish
    Broken,         \* the revisions whose kdef files do not load or render
    Object,         \* names of rendered manifests
    Kind,           \* Kind[o]: the Kubernetes kind of manifest o
    Namespace,      \* namespaces, of manifests and of spec.targetNamespace
    Render,         \* Render[r][v]: the refs release r renders from revision v
    Interval,       \* Interval[r]: spec.interval; 0 asks for no requeue
    MaxGeneration,  \* bound on metadata.generation, so on the spec edits
    Editable,       \* the fields of the spec that users edit
    StaleReads,     \* may the informer cache lag behind a read?
    None            \* absent: no artifact, no condition, no object, no release

(***************************************************************************)
(* A resource reference is what resourceID prints: namespace and name      *)
(* (group and kind are the manifest's).  targetNamespace replaces the      *)
(* namespace of every object, the cluster-scoped ones included.            *)
(***************************************************************************)
Ref == (Namespace \cup {None}) \X Object

Retarget(ref, target) == IF target = None THEN ref ELSE <<target, ref[2]>>

Output(r, v, target) == {Retarget(ref, target) : ref \in Render[r][v]}

\* What the API server addresses: the namespace of a cluster-scoped object is
\* dropped from the request.
ClusterScopedKind == {"Namespace", "CustomResourceDefinition", "ClusterRole",
                      "ClusterRoleBinding", "CSIDriver"}

Key(ref) == IF Kind[ref[2]] \in ClusterScopedKind THEN <<None, ref[2]>> ELSE ref

applyOrder(kind) ==
    CASE kind \in {"Namespace", "CustomResourceDefinition"}            -> 0
      [] kind \in {"ConfigMap", "Secret", "SealedSecret"}              -> 1
      [] kind = "PersistentVolumeClaim"                                -> 2
      [] kind \in {"ServiceAccount", "ClusterRole", "Role"}            -> 3
      [] kind \in {"ClusterRoleBinding", "RoleBinding", "Service"}     -> 4
      [] kind \in {"Deployment", "DaemonSet", "StatefulSet", "CronJob"} -> 5
      [] kind \in {"Ingress", "Certificate"}                           -> 6
      [] kind = "HorizontalPodAutoscaler"                              -> 7
      [] OTHER                                                         -> 8

Before(p, ref) == applyOrder(Kind[p[2]]) < applyOrder(Kind[ref[2]])

\* Faulty variant of NextToApply: the objects are not sorted.
UnsortedToApply(todo) == todo

\* The refs applyObjects may patch next when todo is left: it works through
\* the objects in applyOrder.  The order among equals is left open.
NextToApply(todo) == {ref \in todo : \A p \in todo : ~Before(p, ref)}

ASSUME ConstantsAssumption ==
    /\ None \notin Release \cup Revision \cup Namespace \cup Nat
    /\ None \notin Release \X Revision
    /\ Broken \subseteq Revision
    /\ Render \in [Release -> [Revision -> SUBSET Ref]]
    /\ Interval \in [Release -> Nat]
    /\ MaxGeneration \in Nat \ {0}
    /\ Editable \subseteq {"suspend", "prune", "target"}
    /\ StaleReads \in BOOLEAN

(***************************************************************************)
(* The types of the API objects.  The condition list is one value, since a *)
(* JSON merge patch replaces a list as a whole; Reconciling carries the    *)
(* generation it was set for.  A nil and an empty inventory are one value: *)
(* pruning either deletes nothing.                                         *)
(***************************************************************************)
Generation == 1 .. MaxGeneration

Intent == [gen: Generation, suspend: BOOLEAN, prune: BOOLEAN, target: Namespace \cup {None}]

Conditions == [ready: {"Unknown", "True", "False"}, reconciling: Generation \cup {None}]

Status == [conditions: Conditions,
           lastAppliedRevision: Revision \cup {None},
           lastAttemptedRevision: Revision \cup {None},
           inventory: SUBSET Ref]

NewStatus == [conditions |-> [ready |-> "Unknown", reconciling |-> None],
              lastAppliedRevision |-> None,
              lastAttemptedRevision |-> None,
              inventory |-> {}]

VARIABLES
    exists,    \* the releases that exist
    spec,      \* spec[r]: metadata.generation and spec as stored
    status,    \* status[r]: the status subresource as stored
    cache,     \* cache[r]: the informer's copy of spec and conditions
    queue,     \* the releases in the work queue, delayed ones included
    source,    \* source[r]: revision of the artifact of r's source, or None
    live,      \* live[key]: <<release, revision>> last applied there, or None
    job,       \* the worker's Reconcile call
    faulty     \* may calls fail and the process crash?

vars == <<exists, spec, status, cache, queue, source, live, job, faulty>>

(***************************************************************************)
(* One call of Reconcile.  status is the copy in memory: what has been     *)
(* decoded into `release' or assigned to it, but not yet patched.          *)
(***************************************************************************)
Step == {"idle", "mark", "source", "fetch", "render", "apply", "prune", "succeed", "fail"}

Job == [step: Step, release: Release \cup {None}, spec: Intent, status: Status,
        todo: SUBSET Ref, done: SUBSET Ref, doomed: SUBSET Ref]

FirstIntent == [gen |-> 1, suspend |-> FALSE, prune |-> TRUE, target |-> None]

IdleJob == [step |-> "idle", release |-> None, spec |-> FirstIntent, status |-> NewStatus,
            todo |-> {}, done |-> {}, doomed |-> {}]

Stored(r) == [spec |-> spec[r], conditions |-> status[r].conditions]

Init ==
    /\ exists = Release
    /\ spec \in [Release -> {s \in Intent : s.gen = 1 /\ ~s.suspend /\ s.target = None}]
    /\ status = [r \in Release |-> NewStatus]
    /\ cache = [r \in Release |-> Stored(r)]
    /\ queue = Release
    /\ source = [r \in Release |-> None]
    /\ live = [key \in Ref |-> None]
    /\ job = IdleJob
    /\ faulty \in BOOLEAN

(***************************************************************************)
(* Returning from Reconcile.  An error is requeued with back-off, a        *)
(* RequeueAfter of a positive interval after that interval; a zero         *)
(* interval is no request to requeue.  A delay that has yet to pass is a   *)
(* release in the queue.                                                   *)
(***************************************************************************)
\* Faulty variant of ReturnError: the error is logged and swallowed.
SwallowError ==
    /\ job' = IdleJob
    /\ UNCHANGED queue

ReturnError ==
    /\ job' = IdleJob
    /\ queue' = queue \cup {job.release}

\* Faulty variant of ReturnAfterInterval: an empty ctrl.Result, wait for an event.
ReturnWithoutRequeue ==
    /\ job' = IdleJob
    /\ UNCHANGED queue

ReturnAfterInterval ==
    /\ job' = IdleJob
    /\ queue' = IF Interval[job.release] > 0 THEN queue \cup {job.release} ELSE queue

(***************************************************************************)
(* Status().Patch with client.MergeFrom(base): only what the call changed  *)
(* after it copied the base is sent, and merged into what is stored.       *)
(***************************************************************************)
Merged(stored, base, new) == IF new # base THEN new ELSE stored

MergePatch(stored, base, new) ==
    [conditions |-> Merged(stored.conditions, base.conditions, new.conditions),
     lastAppliedRevision |->
         Merged(stored.lastAppliedRevision, base.lastAppliedRevision, new.lastAppliedRevision),
     lastAttemptedRevision |->
         Merged(stored.lastAttemptedRevision, base.lastAttemptedRevision, new.lastAttemptedRevision),
     inventory |-> Merged(stored.inventory, base.inventory, new.inventory)]

\* What the call wants to see stored, at each step that patches the status.
Reconciling(s) == [s EXCEPT !.conditions.reconciling = job.spec.gen]

\* Faulty variant of Succeeded: the generation is recorded as the revision.
SucceededMixedUp(s) == [s EXCEPT !.conditions = [ready |-> "True", reconciling |-> None],
                                 !.lastAppliedRevision = job.spec.gen,
                                 !.inventory = job.done]

Succeeded(s) == [s EXCEPT !.conditions = [ready |-> "True", reconciling |-> None],
                          !.lastAppliedRevision = s.lastAttemptedRevision,
                          !.inventory = job.done]

\* Faulty variant of Failed: the attempted revision is recorded as applied.
FailedAsApplied(s) == [s EXCEPT !.conditions = [ready |-> "False", reconciling |-> None],
                                !.lastAppliedRevision = s.lastAttemptedRevision]

\* Faulty variant of Failed: Ready is left as it was.
FailedQuietly(s) == [s EXCEPT !.conditions.reconciling = None]

Failed(s) == [s EXCEPT !.conditions = [ready |-> "False", reconciling |-> None]]

Patched(new) == [status EXCEPT ![job.release] = MergePatch(@, job.status, new)]

(***************************************************************************)
(* Reconcile, step by step.                                                *)
(***************************************************************************)

\* The worker takes r from the queue and reads it from the informer cache.
Dequeue(r) ==
    /\ job.step = "idle"
    /\ r \in queue
    /\ r \in exists /\ ~StaleReads => cache[r] = Stored(r)

\* The release is gone, or its spec.suspend is set: nothing to do, no requeue.
Skip(r) ==
    /\ Dequeue(r)
    /\ r \notin exists \/ cache[r].spec.suspend
    /\ queue' = queue \ {r}
    /\ UNCHANGED <<exists, spec, status, cache, source, live, job, faulty>>

\* Faulty variant of Begin: spec.suspend is not looked at.
BeginThoughSuspended(r) ==
    /\ Dequeue(r)
    /\ r \in exists
    /\ queue' = queue \ {r}
    /\ job' = [IdleJob EXCEPT !.step = "mark", !.release = r, !.spec = cache[r].spec,
                              !.status.conditions = cache[r].conditions]
    /\ UNCHANGED <<exists, spec, status, cache, source, live, faulty>>

Begin(r) ==
    /\ Dequeue(r)
    /\ r \in exists /\ ~cache[r].spec.suspend
    /\ queue' = queue \ {r}
    /\ job' = [IdleJob EXCEPT !.step = "mark", !.release = r, !.spec = cache[r].spec,
                              !.status.conditions = cache[r].conditions]
    /\ UNCHANGED <<exists, spec, status, cache, source, live, faulty>>

\* The response of the patch is decoded into `release': the spec and the
\* status the rest of the call works with are the stored ones.
MarkReconciling ==
    /\ job.step = "mark"
    /\ job.release \in exists
    /\ status' = Patched(Reconciling(job.status))
    /\ job' = [job EXCEPT !.step = "source", !.spec = spec[job.release],
                          !.status = status'[job.release]]
    /\ UNCHANGED <<exists, spec, cache, queue, source, live, faulty>>

\* getSourceArtifact, and LastAttemptedRevision noted in memory.
getSourceArtifact ==
    /\ job.step = "source"
    /\ source[job.release] # None
    /\ job' = [job EXCEPT !.step = "fetch", !.status.lastAttemptedRevision = source[job.release]]
    /\ UNCHANGED <<exists, spec, status, cache, queue, source, live, faulty>>

\* fetchArtifact: download, checksum and extract the tarball.
fetchArtifact ==
    /\ job.step = "fetch"
    /\ job' = [job EXCEPT !.step = "render"]
    /\ UNCHANGED <<exists, spec, status, cache, queue, source, live, faulty>>

\* resolveValuesFrom, renderKdef and the targetNamespace override.
renderKdef ==
    /\ job.step = "render"
    /\ job.status.lastAttemptedRevision \notin Broken
    /\ job' = [job EXCEPT !.step = "apply",
                 !.todo = Output(job.release, job.status.lastAttemptedRevision, job.spec.target)]
    /\ UNCHANGED <<exists, spec, status, cache, queue, source, live, faulty>>

\* The source is missing or has no artifact, or the kdef files do not load;
\* while calls may fail, any of the three steps may.
PrepareFails ==
    /\ \/ job.step = "source" /\ (source[job.release] = None \/ faulty)
       \/ job.step = "fetch" /\ faulty
       \/ job.step = "render" /\ (job.status.lastAttemptedRevision \in Broken \/ faulty)
    /\ job' = [job EXCEPT !.step = "fail"]
    /\ UNCHANGED <<exists, spec, status, cache, queue, source, live, faulty>>

\* One server-side apply of applyObjects, with ForceOwnership.
Applied(ref) ==
    [live EXCEPT ![Key(ref)] = <<job.release, job.status.lastAttemptedRevision>>]

applyObject ==
    /\ job.step = "apply"
    /\ \E ref \in NextToApply(job.todo) :
          /\ live' = Applied(ref)
          /\ job' = [job EXCEPT !.todo = @ \ {ref}, !.done = @ \cup {ref}]
    /\ UNCHANGED <<exists, spec, status, cache, queue, source, faulty>>

\* Faulty variant of ApplyFails: the loop is left, its error dropped, and what
\* has been applied is reported as the whole.
ApplyCutShort ==
    /\ job.step = "apply" /\ faulty
    /\ \E ref \in NextToApply(job.todo) : live' \in {live, Applied(ref)}
    /\ job' = [job EXCEPT !.step = "succeed", !.todo = {}]
    /\ UNCHANGED <<exists, spec, status, cache, queue, source, faulty>>

\* An apply returns an error, whether or not the server carried it out.  The
\* inventory of what has been applied is dropped.
ApplyFails ==
    /\ job.step = "apply" /\ faulty
    /\ \E ref \in NextToApply(job.todo) : live' \in {live, Applied(ref)}
    /\ job' = [job EXCEPT !.step = "fail", !.todo = {}, !.done = {}]
    /\ UNCHANGED <<exists, spec, status, cache, queue, source, faulty>>

\* Faulty variant of FinishApply: the whole old inventory is up for deletion.
FinishApplyForgetful ==
    /\ job.step = "apply" /\ job.todo = {}
    /\ job' = IF job.spec.prune
              THEN [job EXCEPT !.step = "prune", !.doomed = job.status.inventory]
              ELSE [job EXCEPT !.step = "succeed"]
    /\ UNCHANGED <<exists, spec, status, cache, queue, source, live, faulty>>

\* All objects are applied: pruneObjects looks for the old inventory entries
\* that are not in the new inventory, if spec.prune is set.
FinishApply ==
    /\ job.step = "apply" /\ job.todo = {}
    /\ job' = IF job.spec.prune
              THEN [job EXCEPT !.step = "prune", !.doomed = job.status.inventory \ job.done]
              ELSE [job EXCEPT !.step = "succeed"]
    /\ UNCHANGED <<exists, spec, status, cache, queue, source, live, faulty>>

\* One Delete of pruneObjects; NotFound counts as done.
pruneObject ==
    /\ job.step = "prune"
    /\ \E ref \in job.doomed :
          /\ live' = [live EXCEPT ![Key(ref)] = None]
          /\ job' = [job EXCEPT !.doomed = @ \ {ref}]
    /\ UNCHANGED <<exists, spec, status, cache, queue, source, faulty>>

\* A Delete returns another error, whether or not it was carried out: the rest
\* of the pruning is skipped and the error only logged.
PruneFails ==
    /\ job.step = "prune" /\ faulty
    /\ \E ref \in job.doomed : live' \in {live, [live EXCEPT ![Key(ref)] = None]}
    /\ job' = [job EXCEPT !.step = "succeed", !.doomed = {}]
    /\ UNCHANGED <<exists, spec, status, cache, queue, source, faulty>>

FinishPrune ==
    /\ job.step = "prune" /\ job.doomed = {}
    /\ job' = [job EXCEPT !.step = "succeed"]
    /\ UNCHANGED <<exists, spec, status, cache, queue, source, live, faulty>>

\* The success patch and the return.
ReportSuccess ==
    /\ job.step = "succeed"
    /\ job.release \in exists
    /\ status' = Patched(Succeeded(job.status))
    /\ ReturnAfterInterval
    /\ UNCHANGED <<exists, spec, cache, source, live, faulty>>

failWithError ==
    /\ job.step = "fail"
    /\ job.release \in exists
    /\ status' = Patched(Failed(job.status))
    /\ ReturnAfterInterval
    /\ UNCHANGED <<exists, spec, cache, source, live, faulty>>

\* A status patch returns an error: the release is gone, the call was not
\* carried out, or only its response was lost.
StatusPatchFails ==
    /\ job.step \in {"mark", "succeed", "fail"}
    /\ \/ job.release \notin exists /\ UNCHANGED status
       \/ /\ job.release \in exists /\ faulty
          /\ \/ UNCHANGED status
             \/ job.step = "mark"    /\ status' = Patched(Reconciling(job.status))
             \/ job.step = "succeed" /\ status' = Patched(Succeeded(job.status))
             \/ job.step = "fail"    /\ status' = Patched(Failed(job.status))
    /\ ReturnError
    /\ UNCHANGED <<exists, spec, cache, source, live, faulty>>

(***************************************************************************)
(* The world around the call.                                              *)
(***************************************************************************)

\* The process stops between two steps and starts again: the job is gone, and
\* the informer lists every release, which queues it.
Crash ==
    /\ faulty
    /\ job' = IdleJob
    /\ cache' = [r \in Release |-> IF r \in exists THEN Stored(r) ELSE cache[r]]
    /\ queue' = exists
    /\ UNCHANGED <<exists, spec, status, source, live, faulty>>

\* The watch delivers r.  Only a new generation passes the predicates, not a
\* change of the status.
Sync(r) ==
    /\ r \in exists
    /\ cache[r] # Stored(r)
    /\ cache' = [cache EXCEPT ![r] = Stored(r)]
    /\ queue' = IF cache[r].spec.gen # spec[r].gen THEN queue \cup {r} ELSE queue
    /\ UNCHANGED <<exists, spec, status, source, live, job, faulty>>

\* The reconcile.fluxcd.io/requestedAt annotation changes, which passes.
RequestReconcile(r) ==
    /\ r \in exists \ queue
    /\ queue' = queue \cup {r}
    /\ UNCHANGED <<exists, spec, status, cache, source, live, job, faulty>>

\* A user edits suspend, prune or targetNamespace.
EditSpec(r) ==
    /\ r \in exists
    /\ spec[r].gen < MaxGeneration
    /\ \E s \in Intent, f \in Editable :
          /\ s.gen = spec[r].gen + 1
          /\ s[f] # spec[r][f]
          /\ \A g \in {"suspend", "prune", "target"} \ {f} : s[g] = spec[r][g]
          /\ spec' = [spec EXCEPT ![r] = s]
    /\ UNCHANGED <<exists, status, cache, queue, source, live, job, faulty>>

\* A user deletes the release.  There is no finalizer: its objects stay.
DeleteRelease(r) ==
    /\ r \in exists
    /\ exists' = exists \ {r}
    /\ status' = [status EXCEPT ![r] = NewStatus]
    /\ queue' = queue \cup {r}
    /\ UNCHANGED <<spec, cache, source, live, job, faulty>>

\* The source controller publishes an artifact, as the controller's cache of
\* the source shows it.  The controller does not watch the source.
Publish(r, v) ==
    /\ source[r] # v
    /\ source' = [source EXCEPT ![r] = v]
    /\ UNCHANGED <<exists, spec, status, cache, queue, live, job, faulty>>

\* From here on calls succeed and the process stays up.
Heal ==
    /\ faulty
    /\ faulty' = FALSE
    /\ UNCHANGED <<exists, spec, status, cache, queue, source, live, job>>

\* What the worker does for itself once it has a job.
Work ==
    \/ MarkReconciling \/ getSourceArtifact \/ fetchArtifact \/ renderKdef \/ PrepareFails
    \/ applyObject \/ FinishApply \/ pruneObject \/ FinishPrune
    \/ ReportSuccess \/ failWithError \/ StatusPatchFails

Environment ==
    \/ Crash \/ Heal
    \/ \E r \in Release : Sync(r) \/ RequestReconcile(r) \/ EditSpec(r) \/ DeleteRelease(r)
    \/ \E r \in Release, v \in Revision : Publish(r, v)

Next ==
    \/ \E r \in Release : Skip(r) \/ Begin(r)
    \/ Work \/ ApplyFails \/ PruneFails
    \/ Environment

Spec == Init /\ [][Next]_vars

(***************************************************************************)
(* Fairness: the worker goes on with its job, the watch delivers, and the  *)
(* queue is first in, first out, so that a release that keeps coming back  *)
(* to it is taken although others are taken before it.  Nothing is assumed *)
(* of users, of the source, or of the end of faults.                       *)
(***************************************************************************)
FairSpec ==
    /\ Spec
    /\ WF_vars(Work)
    /\ \A r \in Release : WF_vars(Sync(r)) /\ SF_vars(Skip(r) \/ Begin(r))
-----------------------------------------------------------------------------
\* Every variable holds a value of its type.
TypeOK ==
    /\ exists \subseteq Release
    /\ spec \in [Release -> Intent]
    /\ status \in [Release -> Status]
    /\ cache \in [Release -> [spec: Intent, conditions: Conditions]]
    /\ queue \subseteq Release
    /\ source \in [Release -> Revision \cup {None}]
    /\ live \in [Ref -> (Release \X Revision) \cup {None}]
    /\ job \in Job
    /\ faulty \in BOOLEAN

\* The status says that the release is in sync and that nothing is going on.
Settled(r) ==
    /\ r \in exists
    /\ status[r].conditions = [ready |-> "True", reconciling |-> None]

\* Whenever a release reads Ready and not Reconciling, its inventory is the
\* output of lastAppliedRevision for some targetNamespace, and every object of
\* it is in the cluster as that revision renders it: half-done applies, failed
\* calls, lost responses, crashes and edits in between never show through.
ReadyIsTruthful ==
    \A r \in Release : Settled(r) =>
        /\ \E target \in Namespace \cup {None} :
              status[r].inventory = Output(r, status[r].lastAppliedRevision, target)
        /\ \A ref \in status[r].inventory :
              live[Key(ref)] = <<r, status[r].lastAppliedRevision>>

\* The recorded inventory is at all times the output of the recorded revision
\* for some targetNamespace, Ready or not: patches that send single fields,
\* from copies read at different times, never store half of one call's record
\* and half of another's, so that the next prune starts from what was applied.
InventoryIsOfRevision ==
    \A r \in Release :
        IF status[r].lastAppliedRevision = None
        THEN status[r].inventory = {}
        ELSE \E target \in Namespace \cup {None} :
                 status[r].inventory = Output(r, status[r].lastAppliedRevision, target)

(***************************************************************************)
(* ReadyIsTruthful holds if a read of the cache is never stale and no two  *)
(* refs of the outputs share an address.  It is not inductive: what keeps  *)
(* it true is that the call in progress has its mark in the stored status, *)
(* mirrors that status, and has in the cluster what it counts as done.     *)
(***************************************************************************)
RefsOf(r) ==
    {ref \in Ref : \E v \in Revision, target \in Namespace \cup {None} :
                       ref \in Output(r, v, target)}

\* No two refs that one release can render share an address.  A cluster-scoped
\* object under two values of targetNamespace is the one thing that breaks it.
OwnAddressesApart ==
    \A r \in Release : \A a, b \in RefsOf(r) : Key(a) = Key(b) => a = b

AddressesApart ==
    \A q, r \in Release : \A a \in RefsOf(q), b \in RefsOf(r) :
        Key(a) = Key(b) => q = r /\ a = b

\* Inventories list nothing but what their release can render.
InventoriesOwned ==
    /\ \A r \in Release : status[r].inventory \subseteq RefsOf(r)
    /\ job.step # "idle" => job.status.inventory \subseteq RefsOf(job.release)

\* Before its first patch a call has seen the stored conditions; after it, the
\* stored status carries the mark, and the copy in memory mirrors it.
JobMirrorsStatus ==
    job.step # "idle" =>
        /\ job.release \in Release
        /\ job.release \in exists =>
              /\ job.status.conditions = status[job.release].conditions
              /\ job.step # "mark" =>
                    /\ job.status.conditions.reconciling # None
                    /\ job.status.lastAppliedRevision = status[job.release].lastAppliedRevision
                    /\ job.status.inventory = status[job.release].inventory

\* What the call has applied and has yet to apply is its output; what it is
\* about to prune is the release's and not in its output.
JobOutput ==
    /\ job.step \in {"mark", "source", "fetch", "render"} => job.done = {}
    /\ job.step \in {"fetch", "render", "apply", "prune", "succeed"} =>
          job.status.lastAttemptedRevision \in Revision
    /\ job.step \in {"apply", "prune", "succeed"} =>
          \E target \in Namespace \cup {None} :
              job.todo \cup job.done
                  = Output(job.release, job.status.lastAttemptedRevision, target)
    /\ job.step \in {"prune", "succeed"} => job.todo = {}
    /\ job.step = "prune" => job.doomed \subseteq RefsOf(job.release) \ job.done

\* What the call has applied is in the cluster.
DoneIsInPlace ==
    job.step \in {"apply", "prune", "succeed"} =>
        \A ref \in job.done :
            live[Key(ref)] = <<job.release, job.status.lastAttemptedRevision>>

JobProgress == JobOutput /\ DoneIsInPlace

\* The inductive invariant behind ReadyIsTruthful.
IInv == TypeOK /\ InventoriesOwned /\ JobMirrorsStatus /\ JobProgress /\ ReadyIsTruthful

\* The controller as a declarative sync (KdefSync): a settled status is the
\* claim, and what the API server addresses is what is written and removed.
ClaimOf(r) ==
    IF Settled(r)
    THEN [revision |-> status[r].lastAppliedRevision,
          objects |-> {Key(ref) : ref \in status[r].inventory}]
    ELSE None

DesiredKeys ==
    [r \in Release |-> [v \in Revision |->
        {{Key(ref) : ref \in Output(r, v, target)} : target \in Namespace \cup {None}}]]

RankOfKey == [key \in Ref |-> applyOrder(Kind[key[2]])]

DesiredState == INSTANCE KdefSync WITH
    Address <- Ref,
    Desired <- DesiredKeys,
    Rank    <- RankOfKey,
    claim   <- [r \in Release |-> ClaimOf(r)]

\* The controller implements a declarative sync: it touches the cluster only
\* while its status admits to it, applies in applyOrder, prunes only when the
\* whole new output is in place, never prunes what it has just applied, and
\* claims a revision only when all of it is there.
ImplementsSync == DesiredState!Spec

\* Every object that disappears is one that the job in progress does not
\* render, and by then all that it does render is in the cluster: "Prune
\* resources that are no longer in the output" (README.md of the controller).
PruneSparesOutput ==
    [][\A key \in Ref : live[key] # None /\ live'[key] = None =>
          /\ job.todo = {}
          /\ key \notin {Key(ref) : ref \in job.done}]_vars

\* "Prune enables garbage collection of resources removed from output": with
\* spec.prune set from the start and the release settled, everything it ever
\* applied that is still in the cluster is in its inventory.
NothingLeftBehind ==
    \A r \in Release : Settled(r) /\ spec[r].prune /\ spec[r].gen = 1 =>
        \A key \in Ref, v \in Revision :
            live[key] = <<r, v>> => key \in {Key(ref) : ref \in status[r].inventory}

\* "Set reconciling condition": while a call works on a release, the stored
\* status says so, so that a reader never takes the previous Ready for the
\* state of a cluster that is being changed.
MarkedWhileReconciling ==
    job.step \notin {"idle", "mark"} /\ job.release \in exists =>
        status[job.release].conditions.reconciling # None

\* What an undisturbed release ends up as: in sync with its source.
Wanted(r, v) ==
    /\ r \in exists /\ ~spec[r].suspend /\ Interval[r] > 0
    /\ source[r] = v

InSync(r, v) ==
    /\ status[r].conditions.ready = "True"
    /\ status[r].lastAppliedRevision = v
    /\ status[r].inventory = Output(r, v, spec[r].target)
    /\ \A ref \in status[r].inventory : live[Key(ref)] = <<r, v>>

\* Once calls stop failing and neither the source nor the spec changes any more,
\* every release that is not suspended reaches its source's revision and stays
\* there, whatever failed calls, lost responses, crashes and stale reads came
\* before: the source is polled, and every error is retried from the start.
Converges ==
    \A r \in Release, v \in Revision \ Broken :
        <>[](~faulty /\ Wanted(r, v)) => <>[]InSync(r, v)

\* A revision that does not load ends up reported as not ready, and stays so;
\* what was applied before it stays the recorded revision.
BrokenSourceSurfaces ==
    \A r \in Release, v \in Broken :
        <>[](~faulty /\ Wanted(r, v)) =>
            <>[](status[r].conditions.ready = "False" /\ status[r].lastAppliedRevision # v)

\* "Suspend tells the controller to suspend reconciliation": the calls for a
\* release that stays suspended come to an end, even while calls keep failing
\* and the process keeps crashing.
SuspendTakesEffect ==
    \A r \in Release : <>[](spec[r].suspend) => <>[](job.release # r)
=============================================================================
