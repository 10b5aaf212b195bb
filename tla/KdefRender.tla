----------------------------- MODULE KdefRender -----------------------------
(***************************************************************************)
(* kdef render: load the project, generate the manifests, write them.      *)
(*                                                                         *)
(* Maps of the program have no order.  Here the service accounts, which    *)
(* are generated while a map is walked, come in any order.                 *)
(***************************************************************************)
EXTENDS KdefLoader, KdefGenerate

\* Names are compared by their parts, those that keys begin with included.
ASSUME AlphabetAssumption ==
    /\ DOMAIN Alphabet \subseteq Nat
    /\ {"namespace", "sa", "pvc"} \cup (KindsOfBlock \ WorkloadKinds) \subseteq {Alphabet[i] : i \in DOMAIN Alphabet}

VARIABLES
    stage,      \* what the command is doing
    pending,    \* uses of service accounts, as name and namespace, not yet dealt with
    manifests   \* the objects generated so far

renderVars == <<stage, pending, manifests>>

allVars == <<vars, renderVars>>

RenderInit ==
    /\ Init
    /\ stage = "load" /\ pending = {} /\ manifests = {}

Load == stage = "load" /\ LoadStep /\ UNCHANGED renderVars

\* A configuration without blocks is an error.
NothingToRender ==
    /\ stage = "load" /\ phase = "done" /\ merged = {}
    /\ stage' = "refused"
    /\ UNCHANGED <<vars, pending, manifests>>

Namespaces == IF Rooted THEN project.root.namespaces ELSE {}
Accounts == IF Rooted THEN project.root.accounts ELSE <<>>

\* The mode of the ingresses comes from the configuration, not from the entry
\* that a block belongs to.
Mode ==
    LET defaults == IF Rooted THEN project.root.defaults ELSE Directory(0).defaults
    IN  IF defaults = None THEN None ELSE defaults.mode

BeginGenerate ==
    /\ stage = "load" /\ phase = "done" /\ merged # {}
    /\ manifests' = GenerateNamespaces(Namespaces)
    /\ pending' = AccountUses(merged)
    /\ stage' = "generate"
    /\ UNCHANGED vars

GenerateNextAccount ==
    /\ stage = "generate"
    /\ \E use \in pending :
          /\ manifests' = Assign(manifests, GenerateAccount(Accounts, use[1], use[2]))
          /\ pending' = pending \ {use}
    /\ UNCHANGED <<vars, stage>>

GenerateRest ==
    /\ stage = "generate" /\ pending = {}
    /\ manifests' = GenerateBlocks(manifests, merged, Mode)
    /\ stage' = "write"
    /\ UNCHANGED <<vars, pending>>

\* The manifests are sorted by Less and written in one go.
Write ==
    /\ stage = "write"
    /\ stage' = "written"
    /\ UNCHANGED <<vars, pending, manifests>>

RenderEnd ==
    /\ stage \in {"refused", "written"} \/ phase = "failed"
    /\ UNCHANGED allVars

RenderNext ==
    \/ Load \/ NothingToRender
    \/ BeginGenerate \/ GenerateNextAccount \/ GenerateRest
    \/ Write
    \/ RenderEnd

RenderSpec == RenderInit /\ [][RenderNext]_allVars

(***************************************************************************)
(* Properties.                                                             *)
(***************************************************************************)
\* The type invariant of the loader and of the command.
TypeOK ==
    /\ project \in Project /\ phase \in Phase /\ entry \in Nat /\ file \in Nat
    /\ overrides \in [Variable -> Value \cup {None}]
    /\ \A b \in loading \cup merged : DOMAIN b = DOMAIN Blank /\ Len(b.at) = 5
    /\ loading # {} => phase \in {"parse", "validate", "override", "join", "complete", "failed"}
    /\ stage \in {"load", "refused", "generate", "write", "written"}
    /\ stage # "load" => phase = "done"

First(s) ==
    LET set == {i \in DOMAIN s : s[i] # None}
    IN  IF set = {} THEN None ELSE s[CHOOSE i \in set : \A j \in set : i <= j]

\* What a variable is worth in the files of a directory, as docs/variables.md
\* and docs/block-types.md:82-87 have it: the command line, the entry of
\* root.kdef, root.kdef, the values file, the declaration.  The root's own files
\* see only the first and the last.
Worth(e, x) ==
    IF Rooted /\ e = 0 THEN First(<<project.cli.set[x], Directory(e).declared[x]>>)
    ELSE IF Rooted
         THEN First(<<project.cli.set[x], Entries[e].set[x], project.root.set[x],
                      project.cli.values[x], Directory(e).declared[x]>>)
         ELSE First(<<project.cli.set[x], project.cli.values[x], Directory(e).declared[x]>>)

\* The directories that a load visits, as numbers of entries.
Visited == IF Rooted THEN 0..Len(Entries) ELSE {0}

\* The elements that the item makes blocks for when its variable is worth w.
Repeats(item, w) ==
    IF item.form = "for" THEN Elements[w]
    ELSE IF item.form = "if" /\ w \notin True THEN <<>> ELSE <<None>>

Files(e) == Directory(e).files

\* The blocks that an item of a file asks for, as places and names.
ItemAsks(item, place, worth(_)) ==
    LET for == Repeats(item, IF item.form = "block" THEN None ELSE worth(item.var))
    IN  {<<place \o <<p, k>>,
           IF item.blocks[p].perItem THEN Append(item.blocks[p].name, for[k])
           ELSE item.blocks[p].name>> : p \in DOMAIN item.blocks, k \in DOMAIN for}

AskedFor(e, worth(_)) ==
    UNION {UNION {ItemAsks(Files(e)[f][i], <<e, f, i>>, worth) : i \in DOMAIN Files(e)[f]} :
              f \in DOMAIN Files(e)}

\* A load that succeeds has each block that the files ask for once, whatever
\* block list it went through and whichever directory of root.kdef it is in,
\* and no other: conditions and collections are taken with the value that the
\* documented precedence gives them for that directory, and what one entry
\* sets says nothing about the next (parser.go:167-303, loop.go, conditional.go).
NothingDeclaredIsLost ==
    phase = "done" =>
        {<<b.at, b.name>> : b \in merged}
            = UNION {AskedFor(e, LAMBDA x : Worth(e, x)) : e \in Visited}

Origin(b) == Files(b.at[1])[b.at[2]][b.at[3]].blocks[b.at[4]]

\* The environment of an entry as docs/block-types.md:82-87 has it.
DocumentedEnv(e) ==
    IF ~Rooted THEN project.cli.env
    ELSE First(<<project.cli.env, Entries[e].env, project.root.env>>)

\* The ingress defaults that are near a block, the nearer first.  The files at
\* the root have those of root.kdef only.
DefaultsNear(b) ==
    <<IF Rooted /\ b.at[1] = 0 THEN None ELSE Directory(b.at[1]).defaults,
      IF Rooted THEN project.root.defaults ELSE None>>

Said(d, field(_)) == IF d = None THEN None ELSE field(d)

FromEntry(b, field(_)) ==
    IF Rooted /\ b.at[1] > 0 THEN field(Entries[b.at[1]]) ELSE None

ReplicasIn(b, own) ==
    LET e == b.at[1]
        f == IF (Rooted /\ e = 0) \/ DocumentedEnv(e) = None THEN None
             ELSE Directory(e).env[DocumentedEnv(e)]
    IN  IF f # None /\ b.kind \in {"deployment", "statefulset"} /\ b.name \in DOMAIN f.replicas
        THEN f.replicas[b.name] ELSE own

\* A block of a load that succeeds has what it says itself; else what its
\* entry says (namespace, service account), what its directory's ingress
\* defaults and then root.kdef's say (TLS secret, class), and the replicas that
\* the one environment in force for its directory gives it (parser.go:225-270,
\* 306-376, 1043-1087; override.go:155-172).  TLS is on if any of them says so.
CompletedByTheNearest ==
    phase = "done" =>
        \A b \in merged :
            LET own  == Origin(b)
                near == DefaultsNear(b)
                of(i, field(_)) ==
                    First(<<field(own.ingresses[i]), Said(near[1], field), Said(near[2], field)>>)
            IN  /\ b.kind \in NamespacedKinds =>
                      b.ns = First(<<own.ns, FromEntry(b, LAMBDA e : e.ns)>>)
                /\ b.kind \in WorkloadKinds =>
                      b.sa = First(<<own.sa, FromEntry(b, LAMBDA e : e.sa)>>)
                /\ b.replicas = ReplicasIn(b, own.replicas)
                /\ \A i \in DOMAIN own.ingresses :
                      /\ b.ingresses[i].secret = of(i, LAMBDA d : d.secret)
                      /\ b.ingresses[i].class = of(i, LAMBDA d : d.class)
                      /\ b.ingresses[i].tls =
                            (own.ingresses[i].tls \/ \E k \in 1..2 : near[k] # None /\ near[k].tls = TRUE)

\* Two manifests stand for one object of the cluster.
SameManifest(m, n) == m.kind = n.kind /\ m.ns = n.ns /\ m.name = n.name

\* What is rendered holds no object twice: the checks for duplicate blocks, for
\* Services of one name and for ingresses and certificates leave nothing out
\* that the generator makes (duplicates.go, parser.go:470-533, generator.go).
DistinctManifests ==
    stage = "written" =>
        \A m, n \in manifests : m # n => ~SameManifest(m, n)

\* A root project is rendered only if each of its namespaced blocks ended up in
\* a namespace, one of those root.kdef lists if it lists any, runs under a
\* service account that root.kdef declares if it declares any (cronjobs are
\* not looked at), and clashes with no other block, once entries and defaults
\* have completed it (parser.go:281-301, 380-533).
SuccessIsSound ==
    phase = "done" /\ Rooted =>
        /\ NamespacesAccepted(merged, project.root)
        /\ ~Duplicates(merged)
        /\ ~IngressConflict(merged)

\* Every block of the configuration has its objects among the manifests, also
\* when blocks of several directories share a name; only a cluster-scoped block
\* takes the place of what has its key (generator.go:36-90).
BlocksSurvive ==
    stage = "written" =>
        \A b \in merged :
            \/ \E c \in merged : c.kind \in ClusterKinds /\ KeyOf(c) = KeyOf(b) /\ c # b
            \/ Objects(b, Mode) \subseteq manifests

IsWorkload(m) == m.kind \in {"Deployment", "DaemonSet", "StatefulSet", "CronJob"}

Workloads == {m \in manifests : IsWorkload(m)}

ProvidedAs(kind) ==
    CASE kind = "configmap" -> {"ConfigMap"}
      [] kind = "secret" -> {"Secret", "SealedSecret"}
      [] kind = "persistentvolumeclaim" -> {"PersistentVolumeClaim"}

\* What a workload refers to is rendered too, or has been warned of.
AccountedFor(w, ref) ==
    \/ \E m \in manifests : m.kind \in ProvidedAs(ref[1]) /\ m.name = ref[2]
    \/ \E warning \in warnings : warning[2] = w.name /\ warning[3] = ref

\* Each ConfigMap, Secret or claim that a rendered pod names in an environment
\* variable or as the source of a volume, in a container or an init container,
\* is rendered too or has been warned of.  The Secret that only the driver of a
\* CSI volume gets (csi_secret) is the exception: it is in the pod's refs, and
\* validateReferences does not look it up (parser.go:536-639, podspec.go, shared.go).
ReferencesAreAccountedFor ==
    stage = "written" =>
        \A w \in Workloads : \A ref \in w.spec.named : AccountedFor(w, ref)

\* The volumes that the containers of a pod, or its init containers, mount.
MountedNames(pod) ==
    LET in(s) == UNION {{m.name : m \in s[i]} : i \in DOMAIN s}
    IN  in(pod.mounts.containers) \cup in(pod.mounts.inits)

\* Each volume that a container of a rendered pod mounts is there, from the pod
\* or from a claim template; a name that only containers use is there once
\* (deployment_v2.go:65-86, podspec.go:57-78, statefulset.go:36-54).
MountsResolve ==
    stage = "written" =>
        \A w \in Workloads :
            LET pod   == w.spec
                block == CHOOSE b \in merged : b.at = w.at
                named(n) == {v \in pod.volumes : v.name = n}
            IN  /\ \A n \in MountedNames(pod) : named(n) # {} \/ n \in pod.claims
                /\ block.kind # "cronjob" =>
                      \A n \in MountedNames(pod) \ VolumeNames(block.volumes) :
                          Cardinality(named(n)) = 1 <=> n \notin pod.claims

\* What m has to find in the cluster when it is applied.
Needs(m, n) ==
    \/ n.kind = "Namespace" /\ n.name = m.ns
    \/ m.kind = "ClusterRoleBinding" /\ n.kind = "ClusterRole"
    \/ /\ IsWorkload(m)
       /\ \/ \E v \in m.spec.volumes : n.kind = "CSIDriver" /\ v.source = <<"csi", n.name>>
          \/ /\ n.ns = m.ns
             /\ \/ n.kind = "ServiceAccount" /\ n.name = m.spec.sa
                \/ n.kind = "Service" /\ n.at = m.at
                \/ \E ref \in m.spec.refs : n.kind \in ProvidedAs(ref[1]) /\ n.name = ref[2]
    \/ m.kind = "HorizontalPodAutoscaler" /\ n.kind = "Deployment" /\ n.at = m.at

\* What a manifest needs is written before it, whatever their names
\* (yaml.go:15-50, 132-168).
PrerequisitesFirst ==
    stage = "written" =>
        \A m, n \in manifests : Needs(m, n) => Less(n, m)

\* The uses of service accounts that root.kdef has a declaration for.
DeclaredUses == {use \in AccountUses(merged) : Declaring(Accounts, use[1], use[2]) # {}}

\* Two uses of accounts whose name and namespace, joined by a dash, are the same.
JoinToOne(u, v) == u # v /\ u[1] \o u[2] = v[1] \o v[2]

\* The keys under which one of several accounts remains.
JoinedKeys == {AccountKey(u[1], u[2]) : u \in {t \in DeclaredUses : \E v \in DeclaredUses : JoinToOne(t, v)}}

\* What a configuration renders to if no account takes the place of another.
Rendering ==
    GenerateBlocks(GenerateNamespaces(Namespaces)
                       \cup UNION {GenerateAccount(Accounts, u[1], u[2]) : u \in AccountUses(merged)},
                   merged, Mode)

\* Two renders of one project write the same, whatever the order in which the
\* map of accounts is walked: each manifest, but for accounts whose name and
\* namespace join to one key, is there in every order, nothing else is, and of
\* two manifests filed under different keys one comes first
\* (generator.go:26-90, 115-158; yaml.go:137-168).
Reproducible ==
    stage = "written" =>
        /\ manifests \subseteq Rendering
        /\ \A m \in Rendering :
              m \in manifests \/ (m.kind = "ServiceAccount" /\ m.key \in JoinedKeys)
        /\ \A m, n \in manifests : m.key # n.key => (Less(m, n) <=> ~Less(n, m))

\* The pods of a workload find the ServiceAccount that root.kdef declares for
\* their namespace, else the one it declares for all of them.  Two uses whose
\* names and namespaces join to one key are left out: one of them is lost
\* (generator.go:26-40, 97-158).
AccountsForWorkloads ==
    stage = "written" =>
        \A w \in Workloads :
            LET name == w.spec.sa
                ns   == w.ns
                declared(n) == {k \in DOMAIN Accounts : Accounts[k].name = name /\ Accounts[k].ns = n}
                joined == \E use \in DeclaredUses : JoinToOne(use, <<name, ns>>)
            IN  name # None /\ declared(ns) \cup declared(None) # {} /\ ~joined =>
                    \E m \in manifests :
                        /\ m.kind = "ServiceAccount" /\ m.name = name /\ m.ns = ns
                        /\ m.spec \in IF declared(ns) # {} THEN declared(ns) ELSE declared(None)

\* A nested ingress that leaves its backend to the workload, whose service block
\* leaves its name and ports to the workload too, is a route to a port that
\* the workload's Service has (ingress.go:27-40, httproute.go:22-33,
\* deployment_v2.go:161-217, workload_extras.go:14-78).
RoutesReachTheService ==
    stage = "written" =>
        \A b \in merged : \A i \in DOMAIN b.ingresses :
            /\ HasService(b) /\ b.service = <<>> /\ b.servicePorts = <<>>
            /\ ContainerPorts(b) # <<>>
            /\ b.ingresses[i].backend \in {None, <<>>} /\ b.ingresses[i].port \in {None, 0}
            => \A m \in {n \in manifests : n.kind \in {"Ingress", "HTTPRoute"} /\ n.at = b.at} :
                  m.name = ResourceName(b, i) =>
                      \E n \in manifests :
                          /\ n.kind = "Service" /\ n.ns = m.ns /\ n.name = m.spec.backend.service
                          /\ m.spec.backend.port \in n.spec.ports

\* docs/variables.md:178-194 gives an environment file with use_vars, and
\* kdef render --env to use it: what it says of a variable is what the blocks
\* see when the command line, root.kdef and the values file say nothing of it.
UseVarsReachTheBlocks ==
    phase = "done" =>
        \A e \in Visited : ~(Rooted /\ e = 0) =>
            LET f == IF DocumentedEnv(e) = None THEN None ELSE Directory(e).env[DocumentedEnv(e)]
                set(x) == First(<<project.cli.set[x]>>
                                \o (IF Rooted THEN <<Entries[e].set[x], project.root.set[x]>> ELSE <<>>))
                worth(x) == IF f # None /\ f.useVars[x] # None
                               /\ set(x) = None /\ project.cli.values[x] = None
                            THEN f.useVars[x] ELSE Worth(e, x)
            IN  {b.at : b \in {c \in merged : c.at[1] = e}} = {w[1] : w \in AskedFor(e, worth)}
=============================================================================
