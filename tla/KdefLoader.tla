----------------------------- MODULE KdefLoader -----------------------------
(***************************************************************************)
(* The load of a project: the definition files of one directory, or, under *)
(* a root.kdef, those of the root and then of the directory of each entry, *)
(* completed from the entry, checked, and merged into one configuration.   *)
(*                                                                         *)
(* A configuration is a set of blocks; a block's field "at" says which     *)
(* entry, file, item of the file, block of the item and element of the     *)
(* loop it comes from, so two definitions of one object stay two blocks.   *)
(* What variables are worth is the business of KdefVariables; here each    *)
(* directory has the default it left for every variable.                   *)
(***************************************************************************)
EXTENDS KdefBlocks

CONSTANTS
    Variable,  \* names of variables
    Value,     \* their values
    True,      \* the values that an if block's condition takes for true
    Elements,  \* Elements[v]: the elements of v, or None if it is no collection
    Dir,       \* directories
    RootDir,   \* the directory of root.kdef
    Env,       \* names of environments
    Project    \* the projects a load may be asked for

Setting == [Variable -> Value \cup {None}]

ItemOK(item) ==
    /\ item.form \in {"block", "if", "for"} /\ (item.form # "block" => item.var \in Variable)
    /\ Lists(item.blocks) /\ \A p \in DOMAIN item.blocks : BlockOK(item.blocks[p])

\* A directory has definition files, lists of items around lists of blocks.
DirectoryOK(d) ==
    /\ Lists(d.files)
    /\ \A f \in DOMAIN d.files :
          Lists(d.files[f]) /\ \A i \in DOMAIN d.files[f] : ItemOK(d.files[f][i])
    /\ d.declared \in Setting
    /\ \A n \in Env : d.env[n] # None => d.env[n].useVars \in Setting

RootOK(root) ==
    /\ Lists(root.entries)
    /\ root.env \in Env \cup {None} /\ root.set \in Setting
    /\ root.namespaces \subseteq Name
    /\ Lists(root.accounts)
    /\ \A i \in DOMAIN root.accounts :
          root.accounts[i].name \in Name /\ root.accounts[i].ns \in Name \cup {None}
    /\ \A e \in DOMAIN root.entries :
          /\ root.entries[e].dir \in Dir /\ root.entries[e].env \in Env \cup {None}
          /\ root.entries[e].set \in Setting
          /\ {root.entries[e].ns, root.entries[e].sa} \subseteq Name \cup {None}

\* The directory to load and the root are there; those of entries may be missing.
ProjectOK(p) ==
    /\ \A d \in Dir : p.dirs[d] # None => DirectoryOK(p.dirs[d])
    /\ p.root = None => p.single \in Dir /\ p.dirs[p.single] # None
    /\ p.root # None => RootOK(p.root) /\ p.dirs[RootDir] # None
    /\ {p.cli.set, p.cli.values} \subseteq Setting /\ p.cli.env \in Env \cup {None}

ASSUME LoaderAssumption ==
    /\ RootDir \in Dir
    /\ None \notin Value \cup Dir \cup Env \cup Name
    /\ \A v \in Value : Elements[v] = None \/ Elements[v] \in Name
    /\ \A p \in Project : ProjectOK(p)

VARIABLES
    project,    \* the project, which nothing changes
    phase,      \* what the load is doing
    entry,      \* the entry of root.kdef being loaded, 0 for the root's own files
    file,       \* the next file of its directory
    overrides,  \* overrides[x]: what --set and the set of root.kdef say of x
    loading,    \* the blocks of the directory being loaded
    merged,     \* the blocks of the configuration so far
    warnings    \* references that nothing in the configuration provides

vars == <<project, phase, entry, file, overrides, loading, merged, warnings>>

Phase == {"start", "parse", "validate", "override", "join", "next", "check", "complete",
          "done", "failed"}

Rooted == project.root # None

Entries == project.root.entries

Directory(e) == project.dirs[IF ~Rooted THEN project.single
                             ELSE IF e = 0 THEN RootDir ELSE Entries[e].dir]

Init ==
    /\ project \in Project
    /\ phase = "start" /\ entry = 0 /\ file = 1
    /\ overrides = project.cli.set
    /\ loading = {} /\ merged = {} /\ warnings = {}

Fail ==
    /\ phase' = "failed"
    /\ UNCHANGED <<project, entry, file, overrides, loading, merged, warnings>>

\* g where f says nothing.
Else(f, g) == [x \in Variable |-> IF f[x] # None THEN f[x] ELSE g[x]]

(***************************************************************************)
(* The file parser.  An item of a file is a block, or an if or for around  *)
(* blocks.  The body of a for is parsed again for every element, with the  *)
(* iterator set to it; a name can only depend on it through the attribute  *)
(* "name" (perItem), which is an error where there is no iterator.         *)
(***************************************************************************)
LoopKinds == WorkloadKinds \cup {"configmap", "ingress"}

\* The elements a block of the item is parsed for; one, None, outside loops.
ElementsFor(item, ctx) ==
    CASE item.form = "block" -> <<None>>
      [] item.form = "if"    -> IF ctx[item.var] \in True THEN <<None>> ELSE <<>>
      [] item.form = "for"   -> Elements[ctx[item.var]]

ItemAccepted(item, ctx) ==
    /\ item.form \in {"if", "for"} => ctx[item.var] # None
    /\ item.form = "for" =>
          /\ Elements[ctx[item.var]] # None
          /\ \A p \in DOMAIN item.blocks : item.blocks[p].kind \in LoopKinds
    /\ ElementsFor(item, ctx) # <<>> =>
          \A p \in DOMAIN item.blocks :
              BlockAccepted(item.blocks[p]) /\ (item.blocks[p].perItem => item.form = "for")

Parsed(block, element, place) ==
    [block EXCEPT !.at = place, !.name = IF block.perItem THEN Append(@, element) ELSE @]

\* Faulty variant of ItemBlocks: the result of a loop is not merged for one kind.
ItemBlocksButLoopIngresses(item, ctx, place) ==
    {Parsed(item.blocks[p], ElementsFor(item, ctx)[k], place \o <<p, k>>) :
        p \in {q \in DOMAIN item.blocks : ~(item.form = "for" /\ item.blocks[q].kind = "ingress")},
        k \in DOMAIN ElementsFor(item, ctx)}

ItemBlocks(item, ctx, place) ==
    {Parsed(item.blocks[p], ElementsFor(item, ctx)[k], place \o <<p, k>>) :
        p \in DOMAIN item.blocks, k \in DOMAIN ElementsFor(item, ctx)}

FileBlocks(items, ctx, place) ==
    UNION {ItemBlocks(items[i], ctx, Append(place, i)) : i \in DOMAIN items}

\* The values files see.  The root's own files are read without the values file.
Context(e, set) ==
    Else(set, Else(IF Rooted /\ e = 0 THEN [x \in Variable |-> None] ELSE project.cli.values,
                   Directory(e).declared))

(***************************************************************************)
(* LoadWithOptions, parseRootFile.                                         *)
(***************************************************************************)
\* A service_account block may not repeat another's name and namespace.
RootAccepted(root) ==
    /\ root.entries # <<>>
    /\ \A i, j \in DOMAIN root.accounts : i # j =>
          <<root.accounts[i].name, root.accounts[i].ns>> # <<root.accounts[j].name, root.accounts[j].ns>>

Start ==
    /\ phase = "start"
    /\ Rooted => RootAccepted(project.root)
    /\ phase' = "parse"
    /\ UNCHANGED <<project, entry, file, overrides, loading, merged, warnings>>

RootRefused == phase = "start" /\ Rooted /\ ~RootAccepted(project.root) /\ Fail

(***************************************************************************)
(* The loop over the definition files of a directory.                      *)
(***************************************************************************)
FileAccepted(items, ctx) == \A i \in DOMAIN items : ItemAccepted(items[i], ctx)

ParseFile ==
    /\ phase = "parse" /\ file <= Len(Directory(entry).files)
    /\ LET items == Directory(entry).files[file]
           ctx   == Context(entry, overrides)
       IN /\ FileAccepted(items, ctx)
          /\ loading' = loading \cup FileBlocks(items, ctx, <<entry, file>>)
    /\ file' = file + 1
    /\ UNCHANGED <<project, phase, entry, overrides, merged, warnings>>

FileRefused ==
    /\ phase = "parse" /\ file <= Len(Directory(entry).files)
    /\ ~FileAccepted(Directory(entry).files[file], Context(entry, overrides))
    /\ Fail

(***************************************************************************)
(* Ingress defaults fill what an ingress leaves open.                      *)
(***************************************************************************)
\* Faulty variant of WithDefaults: the defaults come first.
DefaultsOverBlocks(i, d) ==
    IF d = None THEN i
    ELSE [i EXCEPT
        !.tls    = @ \/ d.tls = TRUE,
        !.secret = IF d.secret # None THEN d.secret ELSE @,
        !.class  = IF d.class # None THEN d.class ELSE @]

WithDefaults(i, d) ==
    IF d = None THEN i
    ELSE [i EXCEPT
        !.tls    = @ \/ d.tls = TRUE,
        !.secret = IF @ = None THEN d.secret ELSE @,
        !.class  = IF @ = None THEN d.class ELSE @]

ApplyIngressDefaults(S, d) ==
    {[b EXCEPT !.ingresses = [i \in DOMAIN @ |-> WithDefaults(@[i], d)]] : b \in S}

(***************************************************************************)
(* The rest of the load of a directory.  For the root's own files it ends  *)
(* with the check for duplicates.                                          *)
(***************************************************************************)
FinishRootFiles ==
    /\ phase = "parse" /\ file > Len(Directory(entry).files)
    /\ Rooted /\ entry = 0
    /\ ~Duplicates(loading)
    /\ merged' = loading /\ loading' = {}
    /\ phase' = "next"
    /\ UNCHANGED <<project, entry, file, overrides, warnings>>

FinishFiles ==
    /\ phase = "parse" /\ file > Len(Directory(entry).files)
    /\ ~(Rooted /\ entry = 0)
    /\ ~Duplicates(loading)
    /\ loading' = ApplyIngressDefaults(loading, Directory(entry).defaults)
    /\ phase' = "validate"
    /\ UNCHANGED <<project, entry, file, overrides, merged, warnings>>

DuplicateInDirectory ==
    /\ phase = "parse" /\ file > Len(Directory(entry).files)
    /\ Duplicates(loading)
    /\ Fail

ValidateIngresses ==
    /\ phase = "validate" /\ ~IngressConflict(loading)
    /\ phase' = "override"
    /\ UNCHANGED <<project, entry, file, overrides, loading, merged, warnings>>

IngressRefused == phase = "validate" /\ IngressConflict(loading) /\ Fail

\* Faulty variant of EnvOf: the command line does not come first.
EntryEnvFirst(e) ==
    IF Rooted /\ Entries[e].env # None THEN Entries[e].env
    ELSE IF project.cli.env # None THEN project.cli.env
    ELSE IF Rooted THEN project.root.env ELSE None

\* The environment of an entry: --env, its own, that of root.kdef.
EnvOf(e) ==
    IF project.cli.env # None \/ ~Rooted THEN project.cli.env
    ELSE IF Entries[e].env # None THEN Entries[e].env ELSE project.root.env

\* The environment file of the entry, None if it has none.
EnvFile(e) == IF EnvOf(e) = None THEN None ELSE Directory(e).env[EnvOf(e)]

ApplyOverrides(S, replicas) ==
    {IF b.kind \in {"deployment", "statefulset"} /\ b.name \in DOMAIN replicas
     THEN [b EXCEPT !.replicas = replicas[b.name]] ELSE b : b \in S}

EnvironmentRefused ==
    /\ phase = "override" /\ EnvFile(entry) # None /\ ~EnvFile(entry).accepted
    /\ Fail

\* The use_vars of the file are added to the overrides, which nothing reads
\* after the files have been parsed.
ApplyEnvironment ==
    /\ phase = "override"
    /\ EnvFile(entry) # None => EnvFile(entry).accepted
    /\ IF EnvFile(entry) = None
       THEN UNCHANGED <<overrides, loading>>
       ELSE /\ loading' = ApplyOverrides(loading, EnvFile(entry).replicas)
            /\ overrides' = Else(overrides, EnvFile(entry).useVars)
    /\ phase' = IF Rooted THEN "join" ELSE "complete"
    /\ UNCHANGED <<project, entry, file, merged, warnings>>

(***************************************************************************)
(* validateReferences: whatever a workload refers to by name should be     *)
(* provided by some block of the configuration, in any namespace.          *)
(***************************************************************************)
VolumeRefs(v) == {<<k, v.sources[k]>> : k \in DOMAIN v.sources \cap ReferredKinds}

VolumesRefs(s) == UNION {VolumeRefs(s[i]) : i \in DOMAIN s}

\* Faulty variant of References: init containers are passed over.
ReferencesButInits(b) ==
    VolumesRefs(b.volumes)
    \cup UNION {EnvRefs(b.containers[i]) \cup VolumesRefs(b.containers[i].volumes) : i \in DOMAIN b.containers}

References(b) ==
    VolumesRefs(b.volumes)
    \cup (UNION {EnvRefs(b.containers[i]) \cup VolumesRefs(b.containers[i].volumes) :
                    i \in DOMAIN b.containers})
    \cup UNION {EnvRefs(b.inits[i]) : i \in DOMAIN b.inits}

Provided(S, ref) == \E c \in S : c.kind \in Providers(ref[1]) /\ c.name = ref[2]

Dangling(S) ==
    UNION {{<<b.kind, b.name, ref>> : ref \in {r \in References(b) : ~Provided(S, r)}} :
              b \in {c \in S : c.kind \in WorkloadKinds}}

\* The load of a directory that is no part of a root project.
FinishSingle ==
    /\ phase = "complete" /\ ~Rooted
    /\ warnings' = Dangling(loading)
    /\ merged' = loading /\ loading' = {}
    /\ phase' = "done"
    /\ UNCHANGED <<project, entry, file, overrides>>

(***************************************************************************)
(* loadRootProject: one entry after the other, in the order of their       *)
(* names.                                                                  *)
(***************************************************************************)
\* Faulty variant of OverridesOf: what the entry before said stays in force.
OverridesKept(e) ==
    Else(project.cli.set, Else(Entries[e].set, Else(overrides, project.root.set)))

OverridesOf(e) == Else(project.cli.set, Else(Entries[e].set, project.root.set))

NextEntry ==
    /\ phase = "next" /\ entry < Len(Entries)
    /\ Directory(entry + 1) # None
    /\ entry' = entry + 1 /\ file' = 1
    /\ overrides' = OverridesOf(entry + 1)
    /\ phase' = "parse"
    /\ UNCHANGED <<project, loading, merged, warnings>>

DirectoryMissing == phase = "next" /\ entry < Len(Entries) /\ Directory(entry + 1) = None /\ Fail

InjectNamespace(b, ns) ==
    IF b.kind \in NamespacedKinds /\ b.ns = None THEN [b EXCEPT !.ns = ns] ELSE b

InjectServiceAccount(b, sa) ==
    IF b.kind \in WorkloadKinds /\ b.sa = None THEN [b EXCEPT !.sa = sa] ELSE b

Injected(b, e) == InjectServiceAccount(InjectNamespace(b, e.ns), e.sa)

\* Faulty variant of JoinEntry: the blocks stay with the directory too.
JoinKept ==
    /\ phase = "join"
    /\ merged' = merged \cup {Injected(b, Entries[entry]) : b \in loading}
    /\ phase' = "next"
    /\ UNCHANGED <<project, entry, file, overrides, loading, warnings>>

JoinEntry ==
    /\ phase = "join"
    /\ merged' = merged \cup {Injected(b, Entries[entry]) : b \in loading}
    /\ loading' = {}
    /\ phase' = "next"
    /\ UNCHANGED <<project, entry, file, overrides, warnings>>

(***************************************************************************)
(* The checks of the merged configuration.  A list of namespaces or        *)
(* service accounts that is empty restricts nothing.                       *)
(***************************************************************************)
NamespaceAccepted(b, root) == b.ns # None /\ (root.namespaces # {} => b.ns \in root.namespaces)

Declared(root) == {root.accounts[i].name : i \in DOMAIN root.accounts}

\* The service accounts of cronjobs are not looked up.
AccountAccepted(b, root) ==
    b.kind \in ServedKinds /\ b.sa # None /\ root.accounts # <<>> => b.sa \in Declared(root)

NamespacesAccepted(S, root) ==
    \A b \in S : b.kind \in NamespacedKinds => NamespaceAccepted(b, root) /\ AccountAccepted(b, root)

\* Faulty variant of MergedAccepted: blocks of two entries are not compared.
MergedUncompared == NamespacesAccepted(merged, project.root)

MergedAccepted == ~Duplicates(merged) /\ NamespacesAccepted(merged, project.root)

CheckMerged ==
    /\ phase = "next" /\ entry = Len(Entries)
    /\ MergedAccepted
    /\ warnings' = Dangling(merged)
    /\ merged' = ApplyIngressDefaults(merged, project.root.defaults)
    /\ phase' = "check"
    /\ UNCHANGED <<project, entry, file, overrides, loading>>

MergedRefused == phase = "next" /\ entry = Len(Entries) /\ ~MergedAccepted /\ Fail

FinishRoot ==
    /\ phase = "check" /\ ~IngressConflict(merged)
    /\ phase' = "done"
    /\ UNCHANGED <<project, entry, file, overrides, loading, merged, warnings>>

MergedIngressRefused == phase = "check" /\ IngressConflict(merged) /\ Fail

LoadStep ==
    \/ Start \/ RootRefused
    \/ ParseFile \/ FileRefused \/ FinishRootFiles \/ FinishFiles \/ DuplicateInDirectory
    \/ ValidateIngresses \/ IngressRefused \/ EnvironmentRefused \/ ApplyEnvironment \/ FinishSingle
    \/ NextEntry \/ DirectoryMissing \/ JoinEntry
    \/ CheckMerged \/ MergedRefused \/ FinishRoot \/ MergedIngressRefused

Finished == phase \in {"done", "failed"} /\ UNCHANGED vars

Next == LoadStep \/ Finished

Spec == Init /\ [][Next]_vars
=============================================================================
