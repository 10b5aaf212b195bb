---------------------------- MODULE KdefGenerate ----------------------------
(***************************************************************************)
(* The manifest generator: the Kubernetes objects that the blocks of a     *)
(* configuration become, under which key of the result each is filed, and  *)
(* the order in which they are written.                                    *)
(*                                                                         *)
(* Labels, annotations, resources, probes, tolerations and the other       *)
(* attributes that a block hands unchanged to its object are left out.     *)
(***************************************************************************)
EXTENDS KdefBlocks

Manifest(key, kind, ns, name, at, spec) ==
    [key |-> key, kind |-> kind, ns |-> ns, name |-> name, at |-> at, spec |-> spec]

(***************************************************************************)
(* The pod of a workload.  A cronjob has one container, the block itself.  *)
(***************************************************************************)
OwnVolumes(b) == FlattenSeq([i \in DOMAIN b.containers |-> b.containers[i].volumes])

\* Of several sources that a volume names, one counts.
Precedence == <<"secret", "configmap", "emptydir", "persistentvolumeclaim", "hostpath", "csi">>

SourceOf(v) ==
    LET i == SelectInSeq(Precedence, LAMBDA kind : kind \in DOMAIN v.sources)
    IN  IF i = 0 THEN None ELSE <<Precedence[i], v.sources[Precedence[i]]>>

\* A CSI volume may have the kubelet take a Secret to its driver.
BuildVolume(v) ==
    [name |-> v.name, source |-> SourceOf(v),
     publishSecret |-> IF SourceOf(v) # None /\ SourceOf(v)[1] = "csi" THEN v.csiSecret ELSE None]

\* The volume of a name: those of the block before those of its containers.
Known(b) == b.volumes \o OwnVolumes(b)
FindVolume(b, name) == Known(b)[SelectInSeq(Known(b), LAMBDA v : v.name = name)]

VolumeNames(s) == {s[i].name : i \in DOMAIN s}

\* Faulty variant of PodVolumes: what a claim template provides is added too.
PodVolumesAndClaims(b) == {BuildVolume(FindVolume(b, n)) : n \in VolumeNames(Known(b))}

\* A container's volume is added to the pod unless a claim template provides
\* it or the pod has one of its name already.
PodVolumes(b) ==
    IF b.kind = "cronjob" THEN {BuildVolume(v) : v \in ToSet(OwnVolumes(b))}
    ELSE {BuildVolume(v) : v \in ToSet(b.volumes)}
         \cup {BuildVolume(FindVolume(b, n)) :
                  n \in VolumeNames(OwnVolumes(b)) \ (DOMAIN b.claims \cup VolumeNames(b.volumes))}

\* A container mounts its own volumes.
ContainerMounts(c) == {[name |-> c.volumes[i].name, path |-> c.volumes[i].path] : i \in DOMAIN c.volumes}

\* An init container mounts those of the names it lists that are known, where
\* the volume found for the name is mounted.
InitMounts(b, c) ==
    {[name |-> n, path |-> FindVolume(b, n).path] : n \in ToSet(c.mounts) \cap VolumeNames(Known(b))}

Mounts(b) ==
    [containers |-> [i \in DOMAIN b.containers |-> ContainerMounts(b.containers[i])],
     inits      |-> [i \in DOMAIN b.inits |-> InitMounts(b, b.inits[i])]]

\* The init containers of a deployment are built without their args.
InitArgs(b) == [i \in DOMAIN b.inits |-> IF b.kind = "deployment" THEN None ELSE b.inits[i].args]

\* What the pod takes from the cluster by its environment and its volumes' sources.
NamedReferences(b) ==
    (UNION {EnvRefs(b.containers[i]) : i \in DOMAIN b.containers})
    \cup (UNION {EnvRefs(b.inits[i]) : i \in DOMAIN b.inits})
    \cup {v.source : v \in {u \in PodVolumes(b) : u.source # None /\ u.source[1] \in ReferredKinds}}

\* What it takes by nodePublishSecretRef.
PublishReferences(b) ==
    {<<"secret", v.publishSecret>> : v \in {u \in PodVolumes(b) : u.publishSecret # None}}

\* What the pod needs to find in the cluster.
PodReferences(b) == NamedReferences(b) \cup PublishReferences(b)

\* A deadline is a number with its unit; one that is not positive is not set.
SecondsIn == [s |-> 1, m |-> 60, h |-> 3600]

parseDuration(d) == d[1] * SecondsIn[d[2]]

Deadline(b) ==
    IF b.deadline = None \/ parseDuration(b.deadline) = 0 THEN None ELSE parseDuration(b.deadline)

Pod(b) ==
    [sa |-> b.sa, volumes |-> PodVolumes(b), mounts |-> Mounts(b), claims |-> DOMAIN b.claims,
     args |-> InitArgs(b), refs |-> PodReferences(b), named |-> NamedReferences(b),
     replicas |-> IF b.kind \in {"deployment", "statefulset"} THEN b.replicas ELSE None,
     deadline |-> IF b.kind = "cronjob" THEN Deadline(b) ELSE None]

(***************************************************************************)
(* The objects of a served workload.                                       *)
(***************************************************************************)
ContainerPorts(b) == FlattenSeq([i \in DOMAIN b.containers |-> b.containers[i].ports])

\* The Service that a statefulset's pods are addressed through.
GoverningService(b) == IF b.governing = <<>> THEN b.name ELSE b.governing

Headless(b) ==
    b.kind = "statefulset" /\ ServiceName(b) = GoverningService(b) /\ b.serviceType = None

\* Faulty variant of Service: only the first container's ports count.
ServiceOfFirstContainer(b) ==
    [ports    |-> IF b.servicePorts = <<>> THEN ToSet(b.containers[1].ports)
                  ELSE {b.servicePorts[i].number : i \in DOMAIN b.servicePorts},
     headless |-> Headless(b)]

Service(b) ==
    [ports    |-> IF b.servicePorts = <<>> THEN ToSet(ContainerPorts(b))
                  ELSE {b.servicePorts[i].number : i \in DOMAIN b.servicePorts},
     headless |-> Headless(b)]

Services(b, key) ==
    IF HasService(b)
    THEN {Manifest(key, "Service", b.ns, ServiceName(b), b.at, Service(b))} ELSE {}

Autoscalers(b, key) ==
    IF b.kind = "deployment" /\ b.autoscale
    THEN {Manifest(key, "HorizontalPodAutoscaler", b.ns, b.name, b.at, None)} ELSE {}

(***************************************************************************)
(* Ingresses, nested and top-level: an HTTPRoute in gateway mode, else an  *)
(* Ingress, and the Certificate that goes with it.                         *)
(***************************************************************************)
DefaultPort == 80

\* The workload's name and its first port, unless the ingress says otherwise.
Backend(b, i) ==
    [service |-> IF b.ingresses[i].backend \notin {None, <<>>} THEN b.ingresses[i].backend ELSE b.name,
     port    |-> IF b.ingresses[i].port \notin {None, 0} THEN b.ingresses[i].port
                 ELSE IF ContainerPorts(b) # <<>> THEN ContainerPorts(b)[1] ELSE DefaultPort]

Route(b, i, mode) ==
    [hosts   |-> AllHosts(b.ingresses[i]),
     backend |-> Backend(b, i),
     class   |-> IF mode = "gateway" THEN None
                 ELSE IF b.ingresses[i].class = None THEN "nginx" ELSE b.ingresses[i].class,
     secret  |-> IF mode = "gateway" \/ ~b.ingresses[i].tls THEN None
                 ELSE IF b.ingresses[i].secret # None THEN b.ingresses[i].secret
                 ELSE CertificateSecretName(b.ingresses[i])]

RoutesFor(b, i, key, mode) ==
    IF AllHosts(b.ingresses[i]) = <<>> THEN {}
    ELSE {Manifest(key, IF mode = "gateway" THEN "HTTPRoute" ELSE "Ingress",
                   b.ns, ResourceName(b, i), b.at, Route(b, i, mode))}

CertificatesFor(b, i, key) ==
    IF CertificateSecretName(b.ingresses[i]) = None THEN {}
    ELSE {Manifest(key, "Certificate", b.ns, CertificateSecretName(b.ingresses[i]), b.at, None)}

IngressObjects(b, key, mode) ==
    UNION {RoutesFor(b, i, key, mode) \cup CertificatesFor(b, i, key) : i \in DOMAIN b.ingresses}

(***************************************************************************)
(* Generate: each block is filed under a key.                              *)
(***************************************************************************)
ObjectKind ==
    [deployment |-> "Deployment", daemonset |-> "DaemonSet", statefulset |-> "StatefulSet",
     cronjob |-> "CronJob", configmap |-> "ConfigMap", secret |-> "Secret",
     sealedsecret |-> "SealedSecret", persistentvolumeclaim |-> "PersistentVolumeClaim",
     clusterrole |-> "ClusterRole", clusterrolebinding |-> "ClusterRoleBinding",
     crd |-> "CustomResourceDefinition", csidriver |-> "CSIDriver"]

KeyOf(b) ==
    IF b.kind \in WorkloadKinds THEN b.name
    ELSE <<IF b.kind = "persistentvolumeclaim" THEN "pvc" ELSE b.kind>> \o b.name

Objects(b, mode) ==
    (IF b.kind = "ingress" THEN {}
     ELSE {Manifest(KeyOf(b), ObjectKind[b.kind],
                    IF b.kind \in ClusterKinds THEN None ELSE b.ns, b.name, b.at,
                    IF b.kind \in WorkloadKinds THEN Pod(b) ELSE None)})
    \cup Services(b, KeyOf(b)) \cup Autoscalers(b, KeyOf(b))
    \cup (IF b.kind \in {"deployment", "statefulset", "ingress"}
          THEN IngressObjects(b, KeyOf(b), mode) ELSE {})

\* Objects assigned to their keys replace what was there; others join it.
Assign(M, N) == {m \in M : \A n \in N : n.key # m.key} \cup N

ObjectsOf(S, mode) == UNION {Objects(b, mode) : b \in S}

\* Faulty variant of GenerateBlocks: what is filed last under a key replaces the rest.
GenerateAssigned(M, S, mode) ==
    LET last == {b \in S : \A c \in S : KeyOf(c) = KeyOf(b) => c.at[1] <= b.at[1]}
    IN  Assign(M, ObjectsOf(last, mode))

GenerateBlocks(M, S, mode) ==
    LET cluster == {b \in S : b.kind \in ClusterKinds}
    IN  Assign(M \cup ObjectsOf(S \ cluster, mode), ObjectsOf(cluster, mode))

GenerateNamespaces(namespaces) ==
    {Manifest(<<"namespace">> \o ns, "Namespace", None, ns, <<>>, None) : ns \in namespaces}

(***************************************************************************)
(* Service accounts are generated for the namespaces that workloads use    *)
(* them in.  A declaration for the namespace comes before one for all.     *)
(***************************************************************************)
AccountUses(S) ==
    {<<b.sa, b.ns>> : b \in {c \in S : c.kind \in WorkloadKinds /\ c.sa # None}}

\* Faulty variant of Declaring: the declaration for all namespaces comes first.
DeclaringForAllFirst(accounts, name, ns) ==
    LET of(n) == {i \in DOMAIN accounts : accounts[i].name = name /\ accounts[i].ns = n}
    IN  IF of(None) # {} THEN of(None) ELSE of(ns)

\* The declaration that applies to an account in a namespace, a set of at most one.
Declaring(accounts, name, ns) ==
    LET of(n) == {i \in DOMAIN accounts : accounts[i].name = name /\ accounts[i].ns = n}
    IN  IF of(ns) # {} THEN of(ns) ELSE of(None)

\* Faulty variant of AccountKey: an account has one key for all namespaces.
AccountKeyForAll(name, ns) == <<"sa">> \o name

AccountKey(name, ns) == <<"sa">> \o name \o ns

GenerateAccount(accounts, name, ns) ==
    {Manifest(AccountKey(name, ns), "ServiceAccount", ns, name, <<>>, i) :
        i \in Declaring(accounts, name, ns)}

(***************************************************************************)
(* The order of the output: by rank of the kind, then key, then name.      *)
(***************************************************************************)
kindApplyOrder ==
    [Namespace |-> 0, CustomResourceDefinition |-> 1, CSIDriver |-> 1, ServiceAccount |-> 2,
     ClusterRole |-> 3, ClusterRoleBinding |-> 4, ConfigMap |-> 10, Secret |-> 10,
     SealedSecret |-> 10, PersistentVolumeClaim |-> 11, Service |-> 20, Deployment |-> 30,
     StatefulSet |-> 30, DaemonSet |-> 30, CronJob |-> 30, HorizontalPodAutoscaler |-> 40,
     Ingress |-> 50, Certificate |-> 50]

kindApplyOrderDefault == 25

\* Faulty variant of KindRank: the table lacks a kind, and unknown kinds come last.
KindRankUnknownLast(kind) ==
    IF kind \in DOMAIN kindApplyOrder \ {"SealedSecret"} THEN kindApplyOrder[kind] ELSE 60

KindRank(kind) ==
    IF kind \in DOMAIN kindApplyOrder THEN kindApplyOrder[kind] ELSE kindApplyOrderDefault

\* A dash sorts before what names are made of, so names compare part by part.
Index(part) == CHOOSE i \in DOMAIN Alphabet : Alphabet[i] = part

Precedes(s, t) ==
    \E i \in DOMAIN t :
        /\ \A j \in 1..(i - 1) : j \in DOMAIN s /\ s[j] = t[j]
        /\ i > Len(s) \/ Index(s[i]) < Index(t[i])

Less(m, n) ==
    \/ KindRank(m.kind) < KindRank(n.kind)
    \/ /\ KindRank(m.kind) = KindRank(n.kind)
       /\ \/ Precedes(m.key, n.key)
          \/ m.key = n.key /\ Precedes(m.name, n.name)
=============================================================================
