---------------------------- MODULE KdefImporter ----------------------------
(***************************************************************************)
(* kdef import: read the objects of a namespace with one kubectl get per   *)
(* kind, or those of a file, turn them into blocks, and write the blocks   *)
(* to definition files.                                                    *)
(*                                                                         *)
(* An object is a record with its kind, namespace and name, and whether    *)
(* the texts that are quoted from it read the same in a definition file    *)
(* and its variables can be attributes there (evaluates).  Services have   *)
(* the labels they select and their ports; ingresses their rules and TLS;  *)
(* workloads a label, replicas and the service account, volumes,           *)
(* containers and init containers of their pod, and a statefulset its      *)
(* claim templates.  The cluster may change between two reads.             *)
(***************************************************************************)
EXTENDS KdefGenerate, FiniteSets

CONSTANTS
    Contents,   \* what the cluster, or the file, may hold at first: sequences of objects
    Arrivals,   \* objects that may be created while the import reads
    MaxChanges  \* bound on the changes to the cluster while the import reads

WorkloadObjects == {"Deployment", "DaemonSet", "StatefulSet", "CronJob"}

\* Environments and volumes: a kind of source and the thing it names, if it names one.
RefsOK(refs) == \A ref \in refs : ref[1] \in ReferredKinds

\* An object that the cluster takes: the volumes of a pod differ in name, a
\* cronjob has a container, only a statefulset has claims and a Service that
\* governs it, and what is for all namespaces is in none.
PodOK(w) ==
    /\ Lists(w.volumes) /\ Lists(w.containers) /\ Lists(w.inits)
    /\ \A i \in DOMAIN w.volumes : w.volumes[i].source = <<w.volumes[i].source[1], w.volumes[i].source[2]>>
    /\ \A i, j \in DOMAIN w.volumes : w.volumes[i].name = w.volumes[j].name => i = j
    /\ \A i \in DOMAIN w.containers :
          /\ w.containers[i].ports \in Seq(Nat \ {0})
          /\ RefsOK(EnvRefs(w.containers[i]))
    /\ \A i \in DOMAIN w.inits : RefsOK(w.inits[i].envFrom)
    /\ \A c \in ToSet(w.containers) \cup ToSet(w.inits) : Lists(c.mounts) /\ None \notin {m.path : m \in ToSet(c.mounts)}
    /\ \A n \in DOMAIN w.claims : w.claims[n] \subseteq {"storage"}
    /\ w.kind # "StatefulSet" => w.governing = <<>> /\ w.claims = <<>>
    /\ w.kind = "DaemonSet" => w.replicas = 1
    /\ w.kind = "CronJob" => w.containers # <<>> /\ w.deadline \in Nat \cup {None}

ObjectOK(o) ==
    /\ o.name \in Name \ {<<>>} /\ o.ns \in Name \cup {None} /\ o.evaluates \in BOOLEAN
    /\ o.kind \in WorkloadObjects => o.sa \in Name \cup {None} /\ PodOK(o)
    /\ o.kind \in {"ClusterRole", "ClusterRoleBinding"} => o.ns = None
    /\ o.kind = "Service" => o.ports \in Seq(Nat \ {0})
    /\ o.kind = "Ingress" =>
          /\ Lists(o.tls) /\ Lists(o.rules)
          /\ \A i \in DOMAIN o.rules :
                /\ o.rules[i].host \in {Alphabet[n] : n \in DOMAIN Alphabet} \cup {None}
                /\ o.rules[i].backends \in Seq([service : Name \ {<<>>}, port : Nat \ {0}])

ASSUME ImporterAssumption ==
    /\ \A s \in Contents : Lists(s) /\ \A i \in DOMAIN s : ObjectOK(s[i])
    /\ \A o \in Arrivals : ObjectOK(o)
    /\ None \notin Name \cup {"gateway"} \cup Nat \cup (Nat \X DOMAIN SecondsIn)
    /\ DOMAIN Alphabet \subseteq Nat /\ \A i, j \in DOMAIN Alphabet : Alphabet[i] = Alphabet[j] => i = j
    /\ MaxChanges \in Nat

\* The elements of s that are in T, in their order.
Only(s, T) == FlattenSeq([i \in DOMAIN s |-> IF s[i] \in T THEN <<s[i]>> ELSE <<>>])

VARIABLES
    fromFile,  \* whether the import reads a file
    cluster,   \* the objects there are
    stable,    \* those that have been there, unchanged, from the start
    changes,   \* how often the cluster has changed
    phase,     \* what the import is doing
    gets,      \* how many kinds have been read
    read,      \* the objects read, in order
    unwritten, \* the files left to write, each a name and its blocks, in order
    files      \* the files written: their names and blocks

importVars == <<fromFile, cluster, stable, changes, phase, gets, read, unwritten, files>>

\* The kinds that kubectl is asked for, in order; the cluster's roles are not.
GetOrder ==
    <<"Deployment", "DaemonSet", "StatefulSet", "Service", "Ingress", "CronJob", "ConfigMap",
      "PersistentVolumeClaim">>

ReadKinds == ToSet(GetOrder) \cup {"ClusterRole", "ClusterRoleBinding"}

ImportInit ==
    /\ fromFile \in BOOLEAN
    /\ cluster \in Contents
    /\ stable = ToSet(cluster)
    /\ changes = 0 /\ phase = "read" /\ gets = 0 /\ read = <<>>
    /\ unwritten = <<>> /\ files = {}

(***************************************************************************)
(* The cluster.                                                            *)
(***************************************************************************)
Delete ==
    /\ phase = "read" /\ ~fromFile /\ changes < MaxChanges
    /\ \E o \in ToSet(cluster) :
          /\ cluster' = Only(cluster, ToSet(cluster) \ {o})
          /\ stable' = stable \ {o}
    /\ changes' = changes + 1
    /\ UNCHANGED <<fromFile, phase, gets, read, unwritten, files>>

\* The cluster has one object of a kind, namespace and name.
Address(o) == <<o.kind, o.ns, o.name>>

Create ==
    /\ phase = "read" /\ ~fromFile /\ changes < MaxChanges
    /\ \E o \in Arrivals :
          /\ \A i \in DOMAIN cluster : Address(cluster[i]) # Address(o)
          /\ cluster' = Append(cluster, o)
    /\ changes' = changes + 1
    /\ UNCHANGED <<fromFile, stable, phase, gets, read, unwritten, files>>

(***************************************************************************)
(* ReadFromCluster, ReadFromFile.                                          *)
(***************************************************************************)
RootCA == <<"kube", "root", "ca.crt">>

Wanted(o) == ~(o.kind = "ConfigMap" /\ o.name = RootCA)

Get ==
    /\ phase = "read" /\ ~fromFile /\ gets < Len(GetOrder)
    /\ read' = read \o Only(cluster, {o \in ToSet(cluster) : o.kind = GetOrder[gets + 1] /\ Wanted(o)})
    /\ gets' = gets + 1
    /\ UNCHANGED <<fromFile, cluster, stable, changes, phase, unwritten, files>>

\* One get that fails, or a file that cannot be read, ends the import.
ReadFails ==
    /\ phase = "read" /\ gets < Len(GetOrder)
    /\ phase' = "failed"
    /\ UNCHANGED <<fromFile, cluster, stable, changes, gets, read, unwritten, files>>

\* Documents of other kinds are passed over.
ReadFile ==
    /\ phase = "read" /\ fromFile /\ gets < Len(GetOrder)
    /\ read' = Only(cluster, {o \in ToSet(cluster) : o.kind \in ReadKinds})
    /\ gets' = Len(GetOrder)
    /\ UNCHANGED <<fromFile, cluster, stable, changes, phase, unwritten, files>>

(***************************************************************************)
(* groupWorkloads: a workload gets the Service that is filed under its     *)
(* name, else under its label, else (a statefulset) under the name of its  *)
(* governing Service.  Of Services filed alike the last one counts.        *)
(***************************************************************************)
Read(kind) == Only(read, {o \in ToSet(read) : o.kind = kind})

FiledUnder(svc) ==
    IF svc.selects # None THEN svc.selects ELSE IF svc.selectsApp # None THEN svc.selectsApp ELSE svc.name

ServiceUnder(key) ==
    LET under == Only(Read("Service"), {s \in ToSet(Read("Service")) :
                                            s.name # <<"kubernetes">> /\ FiledUnder(s) = key})
    IN  IF under = <<>> THEN None ELSE Last(under)

FirstOf(s) ==
    LET i == SelectInSeq(s, LAMBDA x : x # None)
    IN  IF i = 0 THEN None ELSE s[i]

ServiceOf(w) ==
    FirstOf(<<ServiceUnder(w.name),
              IF w.label = None THEN None ELSE ServiceUnder(w.label),
              IF w.kind = "StatefulSet" /\ w.governing # <<>> THEN ServiceUnder(w.governing) ELSE None>>)

Backends(ing) == UNION {ToSet(ing.rules[i].backends) : i \in DOMAIN ing.rules}

\* Faulty variant of IngressesOf: an ingress with any backend goes to all.
IngressesOfAll(w) == Only(Read("Ingress"), {g \in ToSet(Read("Ingress")) : ServiceOf(w) # None /\ Backends(g) # {}})

\* Every workload whose Service is a backend of an ingress gets the ingress;
\* daemonsets get none.
IngressesOf(w) ==
    IF w.kind = "DaemonSet" \/ ServiceOf(w) = None THEN <<>>
    ELSE Only(Read("Ingress"), {g \in ToSet(Read("Ingress")) :
                                    \E k \in Backends(g) : k.service = ServiceOf(w).name})

(***************************************************************************)
(* The blocks.                                                             *)
(***************************************************************************)
Mentions(c) == {m.name : m \in ToSet(c.mounts)}

\* The path at which a container mounts a name; of several the last one counts.
PathOf(c, name) == c.mounts[SelectLastInSeq(c.mounts, LAMBDA m : m.name = name)].path

\* A volume of the pod as a container mounts it.  A source that no attribute of
\* a volume block is for is lost.
VolumeOf(v, c) ==
    [BlankVolume EXCEPT !.name = v.name, !.path = PathOf(c, v.name),
         !.sources = IF v.source[1] \in Sources \ {"csi"}
                     THEN [k \in {v.source[1]} |-> v.source[2]] ELSE <<>>]

\* Faulty variant of MountedVolumes: a volume is written for the first container
\* that mounts it, as if it were the pod's.
MountedVolumesOnce(w, c) ==
    LET first(v) == SelectInSeq(w.containers, LAMBDA d : v.name \in Mentions(d))
        mounted  == Only(w.volumes, {v \in ToSet(w.volumes) : v.name \in Mentions(c) /\ w.containers[first(v)] = c})
    IN  [i \in DOMAIN mounted |-> VolumeOf(mounted[i], c)]

\* Volumes of the pod that the container mounts, in the pod's order.
MountedVolumes(w, c) ==
    LET mounted == Only(w.volumes, {v \in ToSet(w.volumes) : v.name \in Mentions(c)})
    IN  [i \in DOMAIN mounted |-> VolumeOf(mounted[i], c)]

ContainerOf(w, c) ==
    [BlankContainer EXCEPT
        !.volumes = MountedVolumes(w, c), !.ports = c.ports, !.env = c.env, !.envFrom = c.envFrom]

\* Of an init container's mounts only the names are written, and the variables
\* that it sets one by one are not.
InitOf(c) ==
    [BlankInit EXCEPT !.mounts = [i \in DOMAIN c.mounts |-> c.mounts[i].name],
                      !.envFrom = c.envFrom, !.args = c.args]

\* The attributes of the block for a claim template.  It says where the claim is
\* mounted if a container, not only an init container, mounts it.
ClaimOf(w, name) ==
    w.claims[name]
    \cup (IF \E i \in DOMAIN w.containers : name \in Mentions(w.containers[i]) THEN {"mount_path"} ELSE {})

\* The first port of a deployment's first container, which the port of an
\* ingress may be left to.
AppPort(w) ==
    IF w.kind = "Deployment" /\ w.containers # <<>> /\ w.containers[1].ports # <<>>
    THEN w.containers[1].ports[1] ELSE 0

IngressName(w, g) == IF g.name = w.name THEN <<>> ELSE g.name

\* Faulty variant of IngressPort: the ports of every container count.
IngressPortOfAny(w, k) ==
    IF \E i \in DOMAIN w.containers : k.port \in ToSet(w.containers[i].ports) THEN None ELSE k.port

IngressPort(w, k) == IF k.port = AppPort(w) THEN None ELSE k.port

\* The hosts of the rules, each once, in the order of strings.
HostsOf(g) ==
    LET hosts == {g.rules[i].host : i \in DOMAIN g.rules} \ {None}
        before(h) == {k \in hosts : Index(k) < Index(h)}
    IN  [n \in 1..Cardinality(hosts) |-> CHOOSE h \in hosts : Cardinality(before(h)) = n - 1]

\* What the first path of the first rule leads to stands for all of them.
IngressOf(w, g) ==
    LET paths == g.rules[1].backends
        hosts == HostsOf(g)
    IN  [BlankIngress EXCEPT
            !.name    = IngressName(w, g),
            !.backend = IF paths # <<>> /\ paths[1].service # w.name THEN paths[1].service ELSE None,
            !.port    = IF paths # <<>> THEN IngressPort(w, paths[1]) ELSE None,
            !.host    = IF Len(hosts) = 1 THEN hosts[1] ELSE None,
            !.hosts   = IF Len(hosts) = 1 THEN <<>> ELSE hosts,
            !.tls     = g.tls # <<>>,
            !.secret  = IF g.tls # <<>> THEN g.tls[1] ELSE None]

\* An ingress without rules is passed over.
Ruled(w) == Only(IngressesOf(w), {g \in ToSet(IngressesOf(w)) : g.rules # <<>>})

IngressBlocks(w) ==
    [i \in DOMAIN Ruled(w) |-> IngressOf(w, Ruled(w)[i])]

\* The type of the Service is not written; its ports always are.
ServiceBlock(w, svc) == IF svc.name = w.name THEN <<>> ELSE svc.name

\* The ports that the Service itself opens.
PortBlocks(svc) == [i \in DOMAIN svc.ports |-> [number |-> svc.ports[i]]]

BlockKind ==
    [Deployment |-> "deployment", DaemonSet |-> "daemonset", StatefulSet |-> "statefulset",
     CronJob |-> "cronjob", ConfigMap |-> "configmap", PersistentVolumeClaim |-> "persistentvolumeclaim",
     ClusterRole |-> "clusterrole", ClusterRoleBinding |-> "clusterrolebinding"]

PlainBlock(o, at) ==
    [Blank EXCEPT !.kind = BlockKind[o.kind], !.name = o.name, !.ns = o.ns,
                  !.evaluates = o.evaluates, !.at = at]

DefaultAccount == <<"default">>

WorkloadBlock(w, at) ==
    LET svc == ServiceOf(w)
    IN  [PlainBlock(w, at) EXCEPT
            !.sa           = IF w.sa = DefaultAccount THEN None ELSE w.sa,
            !.governing    = w.governing,
            !.replicas     = w.replicas,
            !.containers   = [i \in DOMAIN w.containers |-> ContainerOf(w, w.containers[i])],
            !.inits        = [i \in DOMAIN w.inits |-> InitOf(w.inits[i])],
            !.claims       = [n \in DOMAIN w.claims |-> ClaimOf(w, n)],
            !.service      = IF svc = None THEN None ELSE ServiceBlock(w, svc),
            !.servicePorts = IF svc = None THEN <<>> ELSE PortBlocks(svc),
            !.ingresses    = IngressBlocks(w),
            !.evaluates    = /\ w.evaluates
                             /\ \A g \in ToSet(Ruled(w)) : g.evaluates]

\* Faulty variant of formatDuration: whole minutes are taken for hours.
formatDurationInHours(seconds) ==
    IF seconds % 60 = 0 THEN <<seconds \div 60, "h">> ELSE <<seconds, "s">>

formatDuration(seconds) ==
    IF seconds % 3600 = 0 THEN <<seconds \div 3600, "h">>
    ELSE IF seconds % 60 = 0 THEN <<seconds \div 60, "m">>
    ELSE <<seconds, "s">>

\* Only the first container is written, without its args, and no account.
CronJobBlock(w, at) ==
    [PlainBlock(w, at) EXCEPT
        !.containers = <<[ContainerOf(w, w.containers[1]) EXCEPT !.ports = <<>>]>>,
        !.deadline   = IF w.deadline = None THEN None ELSE formatDuration(w.deadline)]

BlockOf(o, at) ==
    CASE o.kind \in {"Deployment", "DaemonSet", "StatefulSet"} -> WorkloadBlock(o, at)
      [] o.kind = "CronJob" -> CronJobBlock(o, at)
      [] OTHER -> PlainBlock(o, at)

BlocksOf(kind) == [i \in DOMAIN Read(kind) |-> BlockOf(Read(kind)[i], <<kind, i>>)]

(***************************************************************************)
(* WriteKdefFiles: a file for each served workload, and one for all blocks *)
(* of each other kind.                                                     *)
(***************************************************************************)
Separate(kind) == [i \in DOMAIN BlocksOf(kind) |-> [name |-> BlocksOf(kind)[i].name, blocks |-> {BlocksOf(kind)[i]}]]

\* Faulty variant of Together: the file is written whether or not it has blocks.
TogetherAlways(name, kinds) ==
    <<[name |-> name, blocks |-> UNION {ToSet(BlocksOf(k)) : k \in kinds}]>>

Together(name, kinds) ==
    LET blocks == UNION {ToSet(BlocksOf(k)) : k \in kinds}
    IN  IF blocks = {} THEN <<>> ELSE <<[name |-> name, blocks |-> blocks]>>

\* Faulty variant of WriteKdefFiles: a kind was forgotten.
WriteKdefFilesButClaims ==
    Separate("Deployment") \o Separate("DaemonSet") \o Separate("StatefulSet")
    \o Together(<<"rbac">>, {"ClusterRole", "ClusterRoleBinding"})
    \o Together(<<"cronjobs">>, {"CronJob"}) \o Together(<<"configmaps">>, {"ConfigMap"})

WriteKdefFiles ==
    Separate("Deployment") \o Separate("DaemonSet") \o Separate("StatefulSet")
    \o Together(<<"rbac">>, {"ClusterRole", "ClusterRoleBinding"})
    \o Together(<<"cronjobs">>, {"CronJob"}) \o Together(<<"configmaps">>, {"ConfigMap"})
    \o Together(<<"pvcs">>, {"PersistentVolumeClaim"})

Map ==
    /\ phase = "read" /\ gets = Len(GetOrder)
    /\ unwritten' = WriteKdefFiles
    /\ phase' = IF WriteKdefFiles = <<>> THEN "nothing" ELSE "write"
    /\ UNCHANGED <<fromFile, cluster, stable, changes, gets, read, files>>

\* A file takes the place of one of its name.
WriteNext ==
    /\ phase = "write" /\ unwritten # <<>>
    /\ files' = {f \in files : f.name # Head(unwritten).name} \cup {Head(unwritten)}
    /\ unwritten' = Tail(unwritten)
    /\ UNCHANGED <<fromFile, cluster, stable, changes, phase, gets, read>>

\* What has been written stays.
WriteFails ==
    /\ phase = "write" /\ unwritten # <<>>
    /\ phase' = "failed"
    /\ UNCHANGED <<fromFile, cluster, stable, changes, gets, read, unwritten, files>>

WriteEnd ==
    /\ phase = "write" /\ unwritten = <<>>
    /\ phase' = "done"
    /\ UNCHANGED <<fromFile, cluster, stable, changes, gets, read, unwritten, files>>

ImportEnd == phase \in {"done", "nothing", "failed"} /\ UNCHANGED importVars

ImportNext ==
    \/ Delete \/ Create
    \/ Get \/ ReadFails \/ ReadFile
    \/ Map \/ WriteNext \/ WriteFails \/ WriteEnd
    \/ ImportEnd

ImportSpec == ImportInit /\ [][ImportNext]_importVars

(***************************************************************************)
(* Properties.                                                             *)
(***************************************************************************)
Written == UNION {f.blocks : f \in files}

\* The type invariant of the import.
TypeOK ==
    /\ fromFile \in BOOLEAN /\ changes \in 0..MaxChanges /\ gets \in 0..Len(GetOrder)
    /\ phase \in {"read", "nothing", "write", "done", "failed"}
    /\ stable \subseteq ToSet(cluster)
    /\ \A i \in DOMAIN read : read[i].kind \in ReadKinds
    /\ \A f \in files \cup ToSet(unwritten) : f.blocks # {} /\ f.name # <<>>
    /\ \A b \in Written : DOMAIN b = DOMAIN Blank /\ b.kind \in {BlockKind[k] : k \in DOMAIN BlockKind}

\* The file that an object's block goes to.
SharedFile ==
    [CronJob |-> <<"cronjobs">>, ConfigMap |-> <<"configmaps">>, PersistentVolumeClaim |-> <<"pvcs">>,
     ClusterRole |-> <<"rbac">>, ClusterRoleBinding |-> <<"rbac">>]

FileOf(o) == IF o.kind \in DOMAIN SharedFile THEN SharedFile[o.kind] ELSE o.name

\* Another object whose block goes to a file of the same name, and not together.
Rival(o, p) ==
    /\ p # o /\ p.kind \in DOMAIN BlockKind /\ FileOf(p) = FileOf(o)
    /\ ~({o.kind, p.kind} \subseteq DOMAIN SharedFile)

\* An import that ends well has a block for each object that was there, as it
\* was, from beginning to end, whatever else changed between two reads: no kind
\* is dropped on the way from the reads to the files.  Two objects whose blocks
\* go to files of one name are the exception: the last one stays
\* (reader.go:63-262, mapper.go:37-79, writer.go:11-90).
StableObjectsAreImported ==
    phase = "done" =>
        \A o \in {p \in stable : p.kind \in DOMAIN BlockKind /\ Wanted(p)} :
            \/ o.kind \in {"ClusterRole", "ClusterRoleBinding"} /\ ~fromFile
            \/ \E p \in ToSet(read) : Rival(o, p)
            \/ \E b \in Written : <<b.kind, b.ns, b.name>> = <<BlockKind[o.kind], o.ns, o.name>>

\* The workload that a block was made from.
SourceObject(b) == Read(b.at[1])[b.at[2]]

\* Every object once, one namespace, every Service with one workload, every ingress with one
\* Service, and every TLS entry with its secret.
Ordinary ==
    LET served == {o \in ToSet(read) : o.kind \in {"Deployment", "DaemonSet", "StatefulSet"}}
    IN  /\ \A i, j \in DOMAIN read : Address(read[i]) = Address(read[j]) => i = j
        /\ \A o, p \in {q \in ToSet(read) : q.kind \notin {"ClusterRole", "ClusterRoleBinding"}} : o.ns = p.ns
        /\ \A w, v \in served : w # v /\ ServiceOf(w) # None => ServiceOf(w) # ServiceOf(v)
        /\ \A g \in ToSet(Read("Ingress")) :
              /\ \A k, l \in Backends(g) : k.service = l.service
              /\ None \notin ToSet(g.tls)

\* The exception to what is said of ingresses: one that has its workload's own
\* name but is not the first of the block comes back as <name>-2.
Renamed(w) == \E i \in DOMAIN Ruled(w) : i > 1 /\ Ruled(w)[i].name = w.name

\* A statefulset each of whose claim templates asks for storage and is mounted by
\* a container.
ClaimsInUse(w) ==
    \A n \in DOMAIN w.claims :
        /\ "storage" \in w.claims[n]
        /\ \E i \in DOMAIN w.containers : n \in Mentions(w.containers[i])

\* What is written as it stands loads again: every text that is quoted reads the
\* same, and every claim template has the attributes that its block must have.
Expressible == \A o \in ToSet(read) : o.evaluates /\ (o.kind = "StatefulSet" => ClaimsInUse(o))

\* The blocks load: the parser refuses none of them, and no two clash.
Loads(blocks) ==
    /\ \A b \in blocks : BlockAccepted(b)
    /\ ~Duplicates(blocks)
    /\ ~IngressConflict(blocks)

\* What an import of an ordinary namespace has written loads again, though the
\* Services and the ingresses were read at other moments than the workloads.
\* The exceptions, besides Renamed, are what Expressible excludes: a text that HCL
\* reads as a template, a variable that is no attribute, a claim template that
\* no container mounts or that asks for no storage (parser.go:470-533,
\* duplicates.go:33-45, mapper.go:81-167, 400, 577, statefulset_render.go:76-102).
LoadsBack ==
    /\ phase = "done" /\ Ordinary /\ Expressible
    /\ \A b \in Written : b.kind \in ServedKinds => ~Renamed(SourceObject(b))
    => Loads(Written)

\* The object of a kind and a name among those that a block becomes again.
Again(b, kind, name) ==
    {m \in Objects(b, None) : m.kind = kind /\ m.ns = b.ns /\ m.name = name}

IngressReturns(b, g) ==
    \E m \in Again(b, "Ingress", g.name) :
        /\ ToSet(m.spec.hosts) = {g.rules[i].host : i \in DOMAIN g.rules} \ {None}
        /\ g.rules[1].backends # <<>> => m.spec.backend = g.rules[1].backends[1]
        /\ m.spec.secret = IF g.tls = <<>> THEN None ELSE g.tls[1]

\* The account that a pod runs under when it names none.
Under(sa) == IF sa = None THEN DefaultAccount ELSE sa

\* What is imported and rendered again is what was read: the workload under its
\* name with its replicas, the account its pods run under (but for cronjobs) and
\* what its environment refers to (but for single variables of init
\* containers), a cronjob with its deadline, the workload's Service with its
\* ports, and each ingress with its name, hosts, secret and the Service and port
\* that the first path of its first rule leads to (where its other paths lead is
\* not written), though the blocks leave out what the generator is to fill in: a
\* name that is the workload's, the first port, one replica (mapper.go:427-505,
\* 683-691 against deployment_v2.go, ingress.go, cronjob.go:160-181).
RoundTrip ==
    phase = "done" /\ Ordinary =>
        \A b \in {c \in Written : c.kind \in WorkloadKinds} :
            LET w == SourceObject(b)
            IN  /\ \E m \in Again(b, w.kind, w.name) :
                      /\ w.kind \in {"Deployment", "StatefulSet"} => m.spec.replicas = w.replicas
                      /\ b.kind \in ServedKinds => Under(m.spec.sa) = Under(w.sa)
                      /\ w.kind = "CronJob" /\ w.deadline \notin {None, 0} => m.spec.deadline = w.deadline
                      /\ \A i \in DOMAIN b.containers : EnvRefs(w.containers[i]) \subseteq m.spec.refs
                      /\ \A i \in DOMAIN b.inits : w.inits[i].envFrom \subseteq m.spec.refs
                /\ b.kind \in ServedKinds /\ ServiceOf(w) # None /\ ServiceOf(w).ports # <<>> =>
                      \E m \in Again(b, "Service", ServiceOf(w).name) : m.spec.ports = ToSet(ServiceOf(w).ports)
                /\ b.kind \in ServedKinds /\ ~Renamed(w) =>
                      \A g \in ToSet(Ruled(w)) :
                          (\E i \in DOMAIN g.rules : g.rules[i].host # None) => IngressReturns(b, g)

\* What a container mounts of the volumes of the pod, each at its last path.
LastMounts(w, c) == {[name |-> n, path |-> PathOf(c, n)] : n \in Mentions(c) \cap VolumeNames(w.volumes)}

\* The names that an init container of the block finds again: those of the pod's
\* volumes that one of the containers that are written mounts.
Shared(w, b) == VolumeNames(w.volumes) \cap UNION {Mentions(w.containers[i]) : i \in DOMAIN b.containers}

\* Each container of an imported workload mounts again, when its block is
\* rendered, the volumes of the pod that it mounted, where it mounted them, and
\* no other; each init container those of them that it shares with a container;
\* and the pod has them from the same source.  The exceptions are a volume that
\* a container mounts at several paths, of which the last stays, the mounts of
\* claim templates, which are written nowhere, volumes for init containers alone
\* and the path of an init container's mount, and sources that no volume block
\* can say, CSI and projected (mapper.go:587-633, deployment_render.go:148-170
\* against podspec.go:57-78, 126-140, deployment_v2.go:65-86, 342-344).
MountsReturn ==
    phase = "done" =>
        \A b \in {c \in Written : c.kind \in WorkloadKinds} :
            LET w == SourceObject(b)
            IN  \A m \in Again(b, w.kind, w.name) :
                    /\ \A i \in DOMAIN b.containers :
                          m.spec.mounts.containers[i] = LastMounts(w, w.containers[i])
                    /\ \A i \in DOMAIN b.inits :
                          {t.name : t \in m.spec.mounts.inits[i]} = Mentions(w.inits[i]) \cap Shared(w, b)
                    /\ \A v \in ToSet(w.volumes) :
                          /\ v.name \in Shared(w, b) \ DOMAIN w.claims /\ v.source[1] \in Sources \ {"csi"}
                          => \E u \in m.spec.volumes : u.name = v.name /\ u.source = v.source
=============================================================================
