----------------------------- MODULE KdefBlocks -----------------------------
(***************************************************************************)
(* The blocks of a definition file: what a block is to the rest of the     *)
(* program once parsed, which blocks the parser refuses, and the names     *)
(* that follow from a block.                                               *)
(*                                                                         *)
(* A name is the sequence of its parts between dashes, so a name that the  *)
(* program builds with a dash is a concatenation; <<>> is a name that is   *)
(* not set.                                                                *)
(***************************************************************************)
EXTENDS Naturals, FiniteSets, SequencesExt

CONSTANTS
    Alphabet,  \* the parts of names, in the order of strings
    Dashed,    \* Dashed[h]: the name that host h becomes when its dots become dashes
    None       \* absent

Name == Seq({Alphabet[i] : i \in DOMAIN Alphabet})

Lists(s) == s \in Seq({s[i] : i \in DOMAIN s})

ServedKinds  == {"deployment", "daemonset", "statefulset"}  \* may have a service block
WorkloadKinds == ServedKinds \cup {"cronjob"}
ClusterKinds == {"clusterrole", "clusterrolebinding", "crd", "csidriver"}
NamespacedKinds ==
    WorkloadKinds \cup {"configmap", "secret", "sealedsecret", "persistentvolumeclaim", "ingress"}

KindsOfBlock == NamespacedKinds \cup ClusterKinds

\* What a pod can refer to, and the kinds of block that provide it.
ReferredKinds == {"configmap", "secret", "persistentvolumeclaim"}
Providers(kind) == IF kind = "secret" THEN {"secret", "sealedsecret"} ELSE {kind}

(***************************************************************************)
(* A volume says where it is mounted and names its sources, a function     *)
(* from the kinds of source it sets to the thing each names.  A container  *)
(* lists volumes of its own; an init container names volumes declared      *)
(* elsewhere.  The claim templates of a statefulset are a function from    *)
(* their names to the attributes that each sets.                           *)
(***************************************************************************)
Sources == {"secret", "configmap", "emptydir", "persistentvolumeclaim", "hostpath", "csi"}

\* Every block has these fields; those its kind does not know stay as they are
\* here.  A block evaluates if its expressions have values and its attributes names.
Blank ==
    [kind |-> "configmap", name |-> <<>>, perItem |-> FALSE, ns |-> None, sa |-> None,
     service |-> None, servicePorts |-> <<>>, serviceType |-> None, governing |-> <<>>,
     replicas |-> 1, autoscale |-> FALSE, ingresses |-> <<>>, volumes |-> <<>>, claims |-> <<>>,
     containers |-> <<>>, inits |-> <<>>, histories |-> {}, storageVersions |-> 1,
     deadline |-> None, evaluates |-> TRUE, at |-> <<>>]

BlankIngress ==
    [name |-> <<>>, host |-> None, hosts |-> <<>>, tls |-> FALSE, secret |-> None, class |-> None,
     backend |-> None, port |-> None]

BlankVolume ==
    [name |-> "", path |-> None, sources |-> <<>>, csiAttributes |-> FALSE, csiSecret |-> None]

BlankContainer ==
    [volumes |-> <<>>, ports |-> <<>>, env |-> {}, envFrom |-> {}, probes |-> {}, hooks |-> {},
     pullPolicy |-> None]

BlankInit == [mounts |-> <<>>, env |-> {}, envFrom |-> {}, args |-> None, pullPolicy |-> None]

\* What a container's environment refers to, as kinds and names: one variable of
\* a secret or configmap (env), or all of them (env_from).
EnvRefs(c) == c.env \cup c.envFrom

\* A block as it is parsed, of a kind there is.
BlockOK(b) ==
    /\ DOMAIN b = DOMAIN Blank /\ b.kind \in KindsOfBlock
    /\ b.name \in Name /\ {b.ns, b.sa, b.service} \subseteq Name \cup {None}
    /\ Lists(b.ingresses) /\ Lists(b.volumes) /\ Lists(b.containers) /\ Lists(b.inits)
    /\ \A i \in DOMAIN b.ingresses :
          DOMAIN b.ingresses[i] = DOMAIN BlankIngress /\ b.ingresses[i].tls \in BOOLEAN
    /\ \A i \in DOMAIN b.containers : Lists(b.containers[i].volumes) /\ Lists(b.containers[i].ports)
    /\ \A i \in DOMAIN b.containers : \A ref \in EnvRefs(b.containers[i]) : ref[1] \in ReferredKinds
    /\ \A i \in DOMAIN b.inits : \A ref \in EnvRefs(b.inits[i]) : ref[1] \in ReferredKinds

(***************************************************************************)
(* The fields that each kind of block has an attribute or a sub-block for. *)
(* A name that depends on a loop needs the attribute "name"; the label of  *)
(* a block is constant.  A cronjob's one container is the block itself.    *)
(***************************************************************************)
ServedFields ==
    {"perItem", "ns", "sa", "containers", "inits", "volumes", "service", "servicePorts", "serviceType"}

DeploymentFields  == ServedFields \cup {"replicas", "ingresses", "autoscale", "histories"}
DaemonSetFields   == ServedFields
StatefulSetFields == ServedFields \cup {"replicas", "ingresses", "governing", "claims"}
CronJobFields     == {"ns", "sa", "containers", "deadline"}
IngressFields     == {"perItem", "ns", "ingresses"}
ConfigMapFields   == {"ns"}
SecretFields      == {"ns"}
SealedSecretFields == {"ns"}
PersistentVolumeClaimFields == {"ns"}
ClusterRoleFields == {}
ClusterRoleBindingFields == {}
CRDFields         == {"storageVersions"}
CSIDriverFields   == {}

FieldsOf ==
    [deployment |-> DeploymentFields, daemonset |-> DaemonSetFields, statefulset |-> StatefulSetFields,
     cronjob |-> CronJobFields, ingress |-> IngressFields, configmap |-> ConfigMapFields,
     secret |-> SecretFields, sealedsecret |-> SealedSecretFields,
     persistentvolumeclaim |-> PersistentVolumeClaimFields, clusterrole |-> ClusterRoleFields,
     clusterrolebinding |-> ClusterRoleBindingFields, crd |-> CRDFields, csidriver |-> CSIDriverFields]

(***************************************************************************)
(* What the parser refuses.  Attributes that every block sets (an image, a *)
(* schedule, the storage of a persistentvolumeclaim), types, and words of  *)
(* which an attribute must be one are left out, but for pull policies.     *)
(***************************************************************************)
FieldsAccepted(b) ==
    \A f \in DOMAIN Blank \ (FieldsOf[b.kind] \cup {"kind", "name", "evaluates", "at"}) : b[f] = Blank[f]

CronJobAccepted(b) ==
    /\ Len(b.containers) = 1
    /\ \A f \in {"ports", "probes", "hooks"} : b.containers[1][f] = BlankContainer[f]

VolumeAccepted(v) ==
    /\ v.path # None
    /\ v.csiAttributes \/ v.csiSecret # None => "csi" \in DOMAIN v.sources

ClaimAccepted(attributes) == {"mount_path", "storage"} \subseteq attributes

\* An http_get block, tcp_socket_port or exec: exactly one of them.
ProbeAccepted(handlers) == Cardinality(handlers) = 1

\* An exec or an http_get block: exactly one of them.
LifecycleHandlerAccepted(handlers) == Cardinality(handlers) = 1

PullPolicyAccepted(policy) == policy \in {None, "Always", "IfNotPresent", "Never"}

ContainerAccepted(c) ==
    /\ PullPolicyAccepted(c.pullPolicy)
    /\ \A i \in DOMAIN c.volumes : VolumeAccepted(c.volumes[i])
    /\ \A p \in c.probes : ProbeAccepted(p)
    /\ \A h \in c.hooks : LifecycleHandlerAccepted(h)

InitAccepted(c) == PullPolicyAccepted(c.pullPolicy)

\* history_limit and its older name revision_history_limit exclude each other.
RolloutAccepted(histories) == Cardinality(histories) <= 1

\* A top-level ingress has no workload to take its backend from.
IngressAccepted(i, standalone) == standalone => i.backend # None /\ i.port # None

CRDAccepted(storageVersions) == storageVersions = 1

BlockAccepted(b) ==
    /\ FieldsAccepted(b) /\ b.evaluates
    /\ b.kind = "cronjob" => CronJobAccepted(b)
    /\ \A n \in DOMAIN b.claims : ClaimAccepted(b.claims[n])
    /\ \A i \in DOMAIN b.volumes : VolumeAccepted(b.volumes[i])
    /\ \A i \in DOMAIN b.containers : ContainerAccepted(b.containers[i])
    /\ \A i \in DOMAIN b.inits : InitAccepted(b.inits[i])
    /\ \A i \in DOMAIN b.ingresses : IngressAccepted(b.ingresses[i], b.kind = "ingress")
    /\ RolloutAccepted(b.histories)
    /\ CRDAccepted(b.storageVersions)

(***************************************************************************)
(* Names that follow from a block.                                         *)
(***************************************************************************)
Identity(b) == <<b.kind, IF b.kind \in ClusterKinds THEN None ELSE b.ns, b.name>>

\* A service block without a name makes a Service named after the workload.
HasService(b) == b.kind \in ServedKinds /\ b.service # None
ServiceName(b) == IF b.service = <<>> THEN b.name ELSE b.service

Digit == <<"0", "1", "2", "3", "4", "5", "6", "7", "8", "9">>

\* The i-th ingress of a block, counted from 1.  A top-level ingress block is
\* its own and only ingress.
ResourceName(b, i) ==
    IF b.ingresses[i].name # <<>> THEN b.ingresses[i].name
    ELSE IF i = 1 THEN b.name
    ELSE Append(b.name, Digit[i + 1])

\* The single host before the list of hosts, each that is set, once.
AllHosts(i) ==
    LET all == <<i.host>> \o i.hosts
    IN  FlattenSeq([k \in DOMAIN all |->
                       IF all[k] = None \/ \E j \in 1..(k - 1) : all[j] = all[k] THEN <<>> ELSE <<all[k]>>])

\* The Certificate that goes with an ingress; None if there is none.
CertificateSecretName(i) ==
    IF ~i.tls \/ i.secret # None \/ AllHosts(i) = <<>> THEN None
    ELSE Append(Dashed[AllHosts(i)[1]], "tls")

(***************************************************************************)
(* Two blocks of a configuration clash when the cluster would see one      *)
(* object: the same kind, namespace and name, or two Services of one name. *)
(* Blocks are told apart by where they come from, their field "at".        *)
(***************************************************************************)
SameObject(b, c) ==
    \/ Identity(b) = Identity(c)
    \/ HasService(b) /\ HasService(c) /\ b.ns = c.ns /\ ServiceName(b) = ServiceName(c)

Duplicates(S) == \E b, c \in S : b.at # c.at /\ SameObject(b, c)

\* Faulty variant of SameRoute: certificates are not compared.
SameRouteName(b, i, c, j) == b.ns = c.ns /\ ResourceName(b, i) = ResourceName(c, j)

\* Two ingresses make the same Ingress, or ask for the same Certificate.
SameRoute(b, i, c, j) ==
    /\ b.ns = c.ns
    /\ \/ ResourceName(b, i) = ResourceName(c, j)
       \/ /\ CertificateSecretName(b.ingresses[i]) # None
          /\ CertificateSecretName(b.ingresses[i]) = CertificateSecretName(c.ingresses[j])

IngressConflict(S) ==
    \E b, c \in {d \in S : d.kind \in {"deployment", "statefulset", "ingress"}} :
        \E i \in DOMAIN b.ingresses, j \in DOMAIN c.ingresses :
            <<b.at, i>> # <<c.at, j>> /\ SameRoute(b, i, c, j)
=============================================================================
