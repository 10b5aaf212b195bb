# kdef: specification, model checking and proofs

kdef turns short HCL files (`*.kdef`) into Kubernetes manifests. It is used in
three ways: a command line (`kdef render | validate | diff | apply | import`),
a language server for editors, and a Flux controller that keeps a cluster in
step with kdef files in Git. This directory holds TLA+ modules of that
program, TLC configurations that check them on small instances, and TLAPS
proofs of what matters most for every instance.

Every definition is translated from the source under `src/`. The `map` of
`PROJECT.json` names the lines behind each definition. Run everything from
this directory:

    tlc -workers 2 -config MCKdefController_safety.cfg MCKdefController
    tlapm KdefController_proofs.tla
    tlapm KdefController_refinement.tla
    tlc -workers 2 -config MCKdefVariables_walk.cfg MCKdefVariables
    tlapm KdefVariables_proofs.tla
    tlc -workers 2 -config MCKdefRender_render.cfg MCKdefRender
    tlapm KdefSequences_proofs.tla
    tlapm KdefGenerate_proofs.tla
    tlapm KdefRender_proofs.tla
    tlc -workers 2 -config MCKdefImporter_import.cfg MCKdefImporter
    tlapm KdefImporter_proofs.tla
    tlc -workers 2 -config MCKdefLsp_editor.cfg MCKdefLsp
    tlapm KdefLsp_proofs.tla

## 1. Inventory

| Component | State it keeps | Operations | Interacts with |
|---|---|---|---|
| **Flux controller** (`flux-controller/`) | the status of each KdefRelease; in memory the release of the call in progress, the work queue and the informer cache | `Reconcile` and its steps | API server (apply, delete, status patch), source controller (artifact), loader and generator as libraries |
| **Project loader** (`internal/parser/parser.go`, `duplicates.go`, `override.go`) | a `Project`: a list per kind of block | `LoadWithOptions`, the merge of a root project, namespace and service account injection, ingress defaults, validation, duplicate detection, override files | reads directories, calls variables and block parsers |
| **Variables and images** (`variables.go`, `images.go`, `loop.go`, `conditional.go`) | the variables declared so far, overrides, ingress defaults, image tags | `LoadVariablesWalk`, `BuildEvalContext`, `ScanImagesWalk`, `LoadValuesFile`, expansion of `for`, `if` | files from the project root down to the leaf |
| **Block parsers** (`app.go`, `deployment.go`, ...) | none: one block in, one value out | one parser per kind | HCL library |
| **Manifest generator** (`internal/generator/`) | the map from output name to manifests | `Generate`, `RenderAllYAML`, one generator per kind | none |
| **Language server** (`internal/lsp/`) | the open documents | didOpen, didChange, didSave, didClose, completion, diagnostics | the client's asynchronous notifications, the files on disk, block parsers |
| **Importer** (`internal/importer/`) | resources read, the kdef values derived, the files written | `ReadFromCluster`, `ReadFromFile`, `MapToKdef`, `WriteKdefFiles` | kubectl, one call per kind; a namespace that goes on changing |
| **Command line** (`internal/cli/`) | none, except the Git hook it installs | one command each | the components above, kubectl, kubeseal |
| **Packaging and editor support** | none | release script, extension, Argo CD plugin, Helm chart | none |

### What makes each one correct, and what makes it hard

**Flux controller.** `Reconcile` is a sequence of API calls: a status patch, a
read of the source, a download, a rendering, one apply per object, one delete
per obsolete object, a last status patch. Any of them can fail or be carried
out with the answer lost. The process can stop between any two. Users and the
source controller change what it works from while it works. Decisions are made
on an informer cache that can lag behind. Correct means: the status a reader
sees is never a lie about the cluster; objects go in before what depends on
them and the old goes only when the new is in place; and whatever happened
before, the release ends up in sync once things calm down. This is where a test
reaches least, so it is modelled first.

**Project loader.** A root project is merged list by list out of
subprojects, and several passes (injection, defaults, validation, references,
duplicates) depend on their order: which entries get the namespace, which
defaults win, what is validated before it is complete. Correct means that
nothing declared is lost, that precedence is the documented one, and that no
duplicate survives in the output.

**Variables and images.** Three sources (import, `--vars-from`, own file) at
each level of a directory walk, then overrides. Correct means that the value of
a variable is the one of the declaration that ranks highest.

**Block parsers and generator.** What a block is called and what follows from it
(its Service, its ingresses, the volumes of its pod) is worked out in several
places: by the checks for duplicates, by the generator of each kind, by the check
of references. Results go into a map keyed by concatenated names, in which some
kinds append and others assign. Correct means that the places agree, that every
block is rendered, and that the order of the output is one the cluster can
apply.

**Language server.** Notifications in any legal order, answers under way in the
other direction, files that change on disk without a message. Correct means
that the server has the editor's text, that what the editor shows and offers is
about that text, and that it always gets an answer.

**Importer.** It reads one kind after the other while the namespace changes, and
leaves out of a block what the generator will fill in. Correct means that what
was there all along is in a file afterwards, that the files load, and that
rendering them gives back what was read.

The hazards themselves, each at its line, are in `PROJECT.json` (`hazards`),
with the properties that would catch them.

## 2. The modules

| Module | Role |
|---|---|
| `KdefController` | the Flux controller, its queue, cache, cluster, users, source and faults; its properties |
| `KdefSync` | the abstract specification: what a declarative sync promises |
| `MCKdefController` | the constants of the small instances |
| `KdefController_proofs` | type correctness, the inductive invariant, and what it implies |
| `KdefController_refinement` | KdefController implements KdefSync |
| `KdefVariables` | the variables, ingress defaults and images a project's definition files see, as a walk over directories |
| `MCKdefVariables` | the constants of its small instances |
| `KdefVariables_proofs` | its loop invariant, and the documented precedence it implies |
| `KdefBlocks` | what a block of a definition file is once parsed, which blocks the parser refuses, which names and clashes follow |
| `KdefLoader` | the load of a project with or without a `root.kdef`, pass by pass |
| `KdefGenerate` | the objects of each block, the keys they are filed under, the order they are written in |
| `KdefRender` | `kdef render`: loader and generator composed; their properties |
| `MCKdefRender` | the projects of its small instances |
| `KdefSequences_proofs` | least numbers, sequences put together, elements that occur once: what the proofs below cite |
| `KdefGenerate_proofs` | the lemmas about names, keys, objects and pods that both rendering and import rest on |
| `KdefRender_proofs` | every property of rendering but the one that is violated |
| `KdefImporter` | `kdef import` beside a changing cluster; what it writes is read back with the loader's and the generator's definitions |
| `MCKdefImporter` | the namespace of its small instances |
| `KdefImporter_proofs` | every property of the import |
| `KdefLsp` | the language server, an editor, and the two channels between them |
| `MCKdefLsp` | the files of its small instance |
| `KdefLsp_proofs` | the server comes to have the editor's text; what it answers and reports is about that text |

`KdefBlocks` has no state; `KdefLoader` and `KdefGenerate` extend it, `KdefRender`
extends both, `KdefImporter` extends `KdefGenerate`. So the names an import
relies on are the very names the loader checks and the generator prints.

### KdefController

One action per API call of `kdefrelease_controller.go`. What is between two
calls is atomic, since only the worker touches the copy in memory.

| Action | Code |
|---|---|
| `Skip`, `Begin` | the Get at the top of `Reconcile`, not found and `spec.suspend` |
| `MarkReconciling` | the patch that sets Reconciling; its answer replaces the copy in memory, spec included |
| `getSourceArtifact`, `fetchArtifact`, `renderKdef`, `PrepareFails` | the functions of those names, and `resolveValuesFrom` |
| `applyObject`, `ApplyFails`, `FinishApply` | the loop of `applyObjects` over the sorted objects |
| `pruneObject`, `PruneFails`, `FinishPrune` | the loop of `pruneObjects`, whose error is only logged |
| `ReportSuccess`, `failWithError`, `StatusPatchFails` | the last patch, and what is returned to the queue |
| `Crash`, `Sync`, `RequestReconcile` | restart of the process; watch events and the predicates of `SetupWithManager` |
| `EditSpec`, `DeleteRelease`, `Publish` | users and the source controller |
| `Heal` | the moment after which calls no longer fail; only the liveness properties refer to it |

| Variable | Code |
|---|---|
| `exists`, `spec`, `status` | the KdefRelease objects as the API server stores them |
| `cache` | the same in the informer of controller-runtime |
| `queue` | the work queue, including what waits for a back-off or a `RequeueAfter` |
| `source` | the artifact revision of the release's source, or none |
| `live` | who last wrote each object of the cluster, and at what revision |
| `job` | the call in progress: `release` in memory, the sorted objects left, the new inventory, the prune set |
| `faulty` | whether calls may still fail and the process crash |

What the reader should know of the abstraction:

- **One worker.** `main.go` parses `--concurrent` and never passes it on, and
  `SetupWithManager` sets no `MaxConcurrentReconciles`: the default is one. So
  `job` is one record.
- **Status patches are merge patches.** `client.MergeFrom(base)` sends only what
  differs from the copy that was read. `MergePatch` models this field by field;
  the condition list is one field, as a JSON merge patch replaces a list whole.
  A patch made from a stale copy can be empty, which is behaviour the runs
  depend on (section 5).
- **Contents are revisions.** An object in the cluster is known by the release
  and revision that wrote it. `Render` says which references a revision gives;
  the values and paths of a release are fixed, so what an edit can change is
  `suspend`, `prune` and `targetNamespace`, the fields with control attached.
- **IDs and addresses are different things.** An inventory entry is the ID that
  `resourceID` prints, with the namespace the object carried. The API server
  ignores that namespace for cluster-scoped kinds: `Key` is the address. The
  string form of an ID (joined with `_`, split with `SplitN`) is left out: it
  breaks for RBAC names with an underscore, a parsing detail listed as a hazard.
- **Ties are left open.** Objects of one `applyOrder` may be applied in any
  order, and a prune deletes in any order. This allows more than the stable sort
  does, so what holds here holds for the code.
- `lastAttemptedRevision` is kept although the code only ever writes it into the
  copy in memory after the patch that marks, and stores it with a last patch.
- A `spec.interval` of zero is accepted by the code and gives no requeue. It is
  in the model; the liveness properties speak of releases with an interval.

### KdefSync

Two variables: `live`, what is where, and `claim`, what a release says of it. A
release that claims something touches nothing; a write comes after all writes
of a lower rank; a removal comes after all of the new output; a claim is made
only when it is true. The refinement mapping takes a settled status (Ready, not
Reconciling) to the claim and the addresses of the references to the
addresses. The controller implements it although it forgets, retries,
crashes and starts over, which is the point of stating it.

### KdefVariables

`loadSingleProject` up to the first definition file: a sequential program over
files, with an early return at each of them. The project it is given (which
directory has which files, what the flags say) is chosen in `Init` and never
changes. The steps:

| Action | Code |
|---|---|
| `SkipDirectory`, `OpenVars`, `MergeNext`, `FinishWalk` | `LoadVariablesWalk`: one directory without or with a `vars.kdef`, one file merged, the end |
| `VariableFileFails` | the returns on a file that does not parse |
| `LoadValuesFile`, `ReadFails` | `LoadValuesFile`, and the errors of it and of the image scan |
| `ScanImages`, `FinishImages` | `ScanImagesWalk`, one directory a step |
| `BuildEvalContext`, `EvaluationFails` | the function of that name, with `overrideValue` |

| Variable | Code |
|---|---|
| `level`, `next` | the loop counters: the directory, and which of its files is merged next |
| `declared`, `ingressDefaults` | the two fields of `LoadedVariables` |
| `images` | the map `ScanImagesWalk` returns |
| `context` | the `var` object of the `hcl.EvalContext` |

What the reader should know of the abstraction:

- **A file is what its parse yields**: the declarations, the imports in order, the
  ingress defaults, or an error (`Broken`, which a missing import is too). Two
  declarations of one name in one file are one, the last.
- **Imports of an imported file are not read.** The code does not follow them,
  neither does `MergeNext`; the instance has such a file (`nested`).
- **`SourceAt` is the order of the code**, import by import and file by file;
  `Outranks` is the order of the documents, written without it. What is checked
  and proved is that the first produces the second.
- Conversions are data (`Converted`): `--set` text becomes a value of the
  declared type, or does not fit. An enum is a string with allowed values; a
  structured variable refuses `--set`.
- Names that only the values file gives are visible, names that only `--set`
  gives are not: that is what `BuildEvalContext` does.

### KdefBlocks, KdefLoader, KdefGenerate and KdefRender

One action per pass of the program over a directory or a configuration. What
variables are worth is the business of `KdefVariables`: here every directory has
the default it left for each.

| Action | Code |
|---|---|
| `Start`, `RootRefused` | `LoadWithOptions` and `parseRootFile` |
| `ParseFile`, `FileRefused` | one file of the loop of `loadSingleProject` and of `parseRootDefinitionFiles`, with the expansion of `for` and `if` |
| `FinishRootFiles`, `FinishFiles`, `DuplicateInDirectory` | the duplicates of a directory; its ingress defaults |
| `ValidateIngresses`, `IngressRefused` | `validateIngresses` of one directory |
| `ApplyEnvironment`, `EnvironmentRefused` | the override file of `--env` |
| `FinishSingle` | `validateReferences` and the end without a `root.kdef` |
| `NextEntry`, `DirectoryMissing`, `JoinEntry` | the loop of `loadRootProject`: what it resolves for an entry, injection, the merge |
| `CheckMerged`, `MergedRefused`, `FinishRoot`, `MergedIngressRefused` | duplicates, namespaces, references, root defaults, ingresses of the merged configuration |
| `NothingToRender`, `BeginGenerate`, `GenerateNextAccount`, `GenerateRest`, `Write` | `runRender`, `Generate`, `RenderAllYAML` |

| Variable | Code |
|---|---|
| `project` | the files, the flags; chosen in `Init` |
| `phase`, `entry`, `file` | where the load is |
| `overrides` | `LoadOptions.Overrides` of the directory being loaded |
| `loading`, `merged` | the lists of the `Project` being loaded and of the merged one |
| `warnings` | the warnings of `validateReferences` |
| `stage`, `pending`, `manifests` | where the command is, the service accounts left, the map of `Generate` |

What the reader should know of the abstraction:

- **A name is the sequence of its parts between dashes**, so a name that the
  program puts together is a concatenation, and two ways to the same name (a
  workload `api-2` and the second ingress of `api`) are one sequence.
- **A configuration is a set of blocks**, each with the place it comes from in `at`.
  The lists per kind of the program are subsets by `kind`; a block list that a merge
  forgot would show as a loss.
- **A file is a list of items**: a block, or `if` or `for` around blocks. Only the
  attribute `name` can depend on the iterator, and only some kinds have one.
- **Attributes that nothing in these properties tells apart are left out**: labels,
  resources, probes' numbers, tolerations, update strategies. Those that the
  parser refuses in combination are kept (`BlockAccepted`), and of those it requires
  the ones that a block may lack in practice: where a volume or a claim template is
  mounted, its storage, the service and port of an ingress block of its own.
- **Texts are abstract.** Whether the expressions of a block have values and its
  attributes are names is a field of it, `evaluates`; what they say is not kept.
- **Maps have no order.** Service accounts are generated one by one in any order
  (`GenerateNextAccount`). `Reproducible` says how far that shows.
- **A manifest** keeps its key, kind, namespace, name, the place of its block, and of
  its content what other manifests have to match: pod references (those of
  `nodePublishSecretRef` apart from the others, `PublishReferences`), volumes,
  the mounts of each container and each init container with their paths, ports,
  backends, hosts, secrets.

### KdefImporter

| Action | Code |
|---|---|
| `Get`, `ReadFails` | one `kubectl get` of `ReadFromCluster`, or its failure |
| `ReadFile` | `ReadFromFile` |
| `Delete`, `Create` | the namespace meanwhile |
| `Map` | `MapToKdef` and the start of `WriteKdefFiles` |
| `WriteNext`, `WriteFails`, `WriteEnd` | one file, its failure, the end |

| Variable | Code |
|---|---|
| `fromFile` | `--from-file` |
| `cluster`, `stable`, `changes` | what there is; what has been there all along; how often it changed |
| `phase`, `gets`, `read` | where the import is, and the `Resources` read |
| `unwritten`, `files` | the files left and the directory written |

An object is a record of what matters to a match or a block. Blocks are the records
of `KdefBlocks`, so what the import writes goes straight into
`BlockAccepted`, `Duplicates` and `Objects`. An object's `evaluates` says whether the
texts quoted from it with `%q` read the same in a definition file (`mapper.go:577`: a
`${` starts a template there) and its variables can be attributes (`mapper.go:400`: a
dot in a name cannot). A claim template is the attributes that it gives the block.

`ReadFile` reads objects that are what the API server accepts. A document
that `ReadFromFile` cannot parse it passes over in silence (`reader.go:199-206`), and
so it does a kind it does not know: such documents are no objects here, and
no property speaks of them.

### KdefLsp

| Action | Code |
|---|---|
| `OpenDocument`, `Edit`, `Save`, `Close`, `Ask`, `Receive` | the editor: the notifications and requests of the protocol, in the orders it allows |
| `WriteFile` | another program |
| `Handle` | `didOpen`, `didChange`, `didSave`, `didClose`, `completion` of `server.go`, on the head of the channel |

| Variable | Code |
|---|---|
| `disk` | the files |
| `buffer`, `shown`, `asked`, `answer` | the editor's texts, the diagnostics it shows, the question it waits on (with the texts it had then, and what has been on disk since: `Meanwhile`) and its last answer |
| `toServer`, `toClient` | the two directions of standard input and output |
| `store` | the `DocumentStore` |
| `steps`, `fresh` | the bound on what the user does; which documents were sent since the disk last changed |

- **A text is a record**: per line its braces and the block it opens, and for the
  whole what it declares, uses, imports and names. That is all that diagnostics
  and completion read of a text.
- **The connection keeps order and the server handles one message at a time**: the
  protocol library (`glsp`, not under `src/`) reads one stream, and a handler returns before
  the next message is read.
- **The schema is data** (`blockSchemaMap`): the sub-blocks that may stand in a block.
  `Takes` is what the parser takes, read from the parser.

## 3. What the runs check

| Run | Shows | Instance |
|---|---|---|
| `controller_safety` | `TypeOK`, `ReadyIsTruthful`, `ImplementsSync` | one release, two revisions (one drops a ConfigMap), two namespaces, two generations with any field edited |
| `controller_recovery` | `InventoryIsOfRevision`, `PruneSparesOutput`, `Converges`, `BrokenSourceSurfaces`, `SuspendTakesEffect` | one release, two good revisions and one that does not load, stale reads, suspension |
| `controller_sharing` | `IInv`, `Converges` | two releases and one worker |
| `controller_retarget` (violated) | `PruneSparesOutput` | a Deployment and a ClusterRole, one edit of `targetNamespace` |
| `controller_orphans` (violated) | `NothingLeftBehind` | one release, two revisions |
| `controller_stale` (violated) | `MarkedWhileReconciling` | one release, stale reads |
| `variables_walk` | `IInv` (of which `TypeOK` is a part), `ResolvesAsDocumented`, `LoadsExactlyTheSound`, `OwnDefaultsPrevail`, `NearestImageWins` | three directories, eight files, every placement of them |
| `variables_varsfrom` (violated) | `VarsFromApplies` | two directories |
| `render` | `TypeOK` and the eleven properties of rendering below | 12 908 states over projects of up to two entries, in five families |
| `render_use_vars` (violated) | `UseVarsReachTheBlocks` | one directory with an environment file |
| `import` | `TypeOK`, `StableObjectsAreImported`, `LoadsBack`, `RoundTrip`, `MountsReturn` | a namespace of ten objects and its variants, one change while it is read |
| `editor` | `TypeOK` and the seven properties of the editor below | seven files in three directories, four acts of the user |

**The properties.**

- `ReadyIsTruthful`: when a release reads Ready and not Reconciling, its
  inventory is the output of the revision it names, and each object of it is in
  the cluster as that revision renders it.
- `InventoryIsOfRevision`: Ready or not, the recorded inventory is the output of
  the recorded revision for some `targetNamespace`: single fields patched from
  copies read at different times never mix the records of two calls.
- `PruneSparesOutput`: an object disappears only when the call has applied its
  whole output, and is no part of it. It holds where no two references of one
  release share an address; `controller_retarget` shows it violated where they do.
- `ImplementsSync`: every step is a step of `KdefSync` or changes nothing there.
- `Converges`: once calls stop failing and source and spec stop changing, the
  release reaches the source's revision and stays there.
- `BrokenSourceSurfaces`: a revision that does not load ends as Ready = False,
  and never becomes the applied revision.
- `SuspendTakesEffect`: a suspended release comes to rest, even while faults go on.

- `ResolvesAsDocumented`: after the walk each variable has the declaration of
  the file that outranks the others that declare it; after a successful load its
  value is `--set` converted to that declaration's type, else the values file's,
  else that declaration's default.
- `LoadsExactlyTheSound`: a load succeeds exactly when every file that counts is
  sound and every declared variable has a value that fits.
- `OwnDefaultsPrevail`, `NearestImageWins`: the deepest `vars.kdef` with ingress
  defaults, and the nearest directory that names an image, decide.

Of rendering:

- `NothingDeclaredIsLost`: the configuration has each block that the files ask
  for exactly once, with conditions and loops evaluated by the documented
  precedence, directory by directory.
- `CompletedByTheNearest`: what a block leaves open is filled from the nearest
  place that says it.
- `SuccessIsSound`: a root project that loads has every block in an accepted namespace
  under a declared account, and no two blocks or ingresses that clash.
- `DistinctManifests`: no object is written twice. The checks are on blocks, the
  claim is on objects: it holds because the two derive the same names.
- `BlocksSurvive`: each block has its objects in the output, unless a
  cluster-scoped block has its key.
- `ReferencesAreAccountedFor`: each ConfigMap, Secret or claim that a pod names in an
  environment variable or as the source of a volume is rendered too or warned of. The
  Secret of a CSI driver is excepted: nothing looks it up (section 5).
- `MountsResolve`: each mount finds one volume.
- `PrerequisitesFirst`: what a manifest needs is written before it.
- `Reproducible`: in whatever order the map of accounts is walked, what is written
  is one set that the configuration determines (`Rendering`), less accounts that
  have lost their key to another, and the keys decide the order. The accounts that
  the walk can make differ are exactly those whose name and namespace join to one key
  (`JoinedKeys`), and they do differ.
- `AccountsForWorkloads`: a workload finds the ServiceAccount declared for its
  namespace, else the one for all.
- `RoutesReachTheService`: a route left to the defaults leads to a port the Service has.

Of an import:

- `StableObjectsAreImported`: an object that was there from beginning to end has
  its block in a file, whatever else changed, except where two files have one name.
- `LoadsBack`: the files load again: each block is accepted, no two clash. Excepted are
  namespaces with a text that does not read the same, or a claim template without
  storage or that no container mounts (`Expressible`).
- `RoundTrip`: rendered again, workload, Service and ingresses are what was read; of an
  ingress the host names, the secrets and where the first path of the first rule leads. Where
  its other paths lead is not written, and not compared.
- `MountsReturn`: container by container, what is mounted from the volumes of the pod,
  and where, is mounted again and nothing else; an init container finds again the names
  it shares with a container, but it mounts them where the container does; the sources
  are the same. Of a volume that one container mounts at two paths the last stays
  (`LastMounts`). CSI and projected sources have no attribute and are excepted, and
  so are claim templates.

Of the editor:

- `StoreFollowsTheEditor`: with nothing under way about a document, the server has
  the editor's text of it.
- `ShownIsOfTheText`: with nothing under way at all, the diagnostics are those of
  the text shown.
- `VariablesAreOfTheText`: the variables on offer are exactly those that the `vars.kdef`
  of the directory, that of a root above it, and all that these import, directly or not,
  declare: in the buffers as they were when the editor asked, or on disk at one moment
  since. The own file is last, its buffer before its text on disk.
- `UnsavedNamesAreOffered`: the names on offer are of the buffers as they were when the
  editor asked, saved or not.
- `OffersFitTheBlock`: the blocks on offer are blocks the parser takes there.
- `EveryQuestionIsAnswered`, `RealTimeDiagnostics`: each question gets its answer,
  and a syntax error shows or vanishes while one types.

**The bounds of the controller, and why they are enough.** `MaxGeneration` bounds the edits of the
spec; two generations let one edit fall between any two calls, and a second
edit meets the same code in the same kinds of state. Two revisions give an
upgrade, a downgrade and a change of mind in the middle of a call. Two objects
of different rank give an order and a partial apply; one of them obsolete in
the second revision gives a prune. Two releases are what it takes to starve one
another. The number of calls, crashes, failures, publications and requests
is not bounded.

**The bounds of the variables.** Three directories, because a deeper one can
overrule a shallower one with one in between that is silent. The eight files
are three that only declare (a string with a default, a number without one, an
enum; two of them with ingress defaults), two that import two files each with one
in common (one of them also declares a list), one that imports an importing
file, one whose second import is missing, and one that is missing itself. They
are placed in the directories in all 9^3 ways, with every `--set` and
`--values`, and none or one `--vars-from`. One variable is enough:
variables do not interact but in the errors, and those are by file. The proofs
have no such bounds.

**The bounds of rendering.** Two entries, because what one entry must not pass on
to the next and what two entries may make between them needs two; a third meets
the same loop. Two files in a directory, and a root with files of its own. The
projects come in five families, each of which takes all combinations of one
concern: `Settings` (where a variable and an environment come from),
`Spaces` (namespaces and accounts of entries, blocks and `root.kdef`, two of which
join to one key),
`Defaulted` (ingress defaults near and far, and none), `Odds` (single projects
with each thing the checks refuse, or just accept) and `OddRoots` (the same
between entries). The kinds of block are all thirteen.

**The bounds of the import.** The namespace has a workload of each kind, two
Services, an ingress, a cronjob, a ConfigMap and a claim. Its variants change rules,
backends, TLS, selectors, labels, names and namespaces; a volume is mounted twice by one
container, by two containers at two paths, or by an init container only; a claim template
lacks its storage or its mount; a text does not read the same. `MaxChanges` is one:
one creation or deletion can fall between any two reads, and it is a
difference between two reads that matters.

**The bounds of the editor.** Two documents are opened, one of them a `vars.kdef`
that the other is checked against; two directories above and beside it give
the walk to the root and the sibling whose URI begins alike; two files import
each other. `MaxSteps` is four: open, edit, ask, and one act that crosses the
answer; or open, edit, save, close, with all messages in flight. Messages are
not bounded otherwise. The proof of `StoreFollowsTheEditor` has no bound.

**Stopping.** `controller_sharing` allows deadlock: once every release is
deleted and the only revision is published, nothing is left to happen. So does
`editor`: after its last act the user is done.

## 4. Fairness

`FairSpec` assumes three things and no more.

- The worker goes on with its job (`WF_vars(Work)`): it is a goroutine that
  blocks only in calls, the download has a timeout and the API server answers or
  closes the connection. Failing is going on, so this promises no success.
- The watch delivers (`WF_vars(Sync(r))`): controller-runtime's informers reconnect
  and list again.
- The work queue is first in, first out, so a release that keeps coming back to
  it is taken in the end although others are taken first:
  `SF_vars(Skip(r) \/ Begin(r))`. Weak fairness would not do, since while the
  worker is busy nothing can be taken.

Nothing is assumed of users, of the source, or of the end of faults: the
liveness properties say themselves from when on they need calm.

`Fairness` of `KdefLsp` assumes that what is sent is read: the server's loop takes
the head of its channel again and again, and so does the editor
(`WF_toServer(Taking(toServer))`, `WF_toClient(Taking(toClient))`). A handler
that would never end is not assumed away: `LoadVarsFrom` is a recursion that TLC
evaluates on the cycle of imports, and that is proved to end on any. Nothing is assumed of the user.

## 5. Where the code and its documents disagree

- **A new `targetNamespace` deletes cluster-scoped objects**
  (`controller_retarget`). The override writes a namespace on every object, also
  on a ClusterRole. The address does not change, the ID does; so the old ID is
  missing from the new inventory and the prune deletes the object just applied.
  The next call restores it.
- **Pruning forgets** (`controller_orphans`). What a failed call applied is in
  no inventory. When the next revision no longer has it, nothing removes it.
  The same follows from a delete that fails, whose rest is skipped and whose
  record is replaced.
- **The mark can be an empty patch** (`controller_stale`). A call that read a
  stale copy, one that still says Reconciling for this generation, sends no
  change and works while the stored status says Ready.

- **`--vars-from` can vanish** (`variables_varsfrom`). The loop passes over a
  directory without a `vars.kdef` before it comes to `--vars-from`: a project that
  has its variables in a directory above, or nowhere else, never reads the files
  it was told to.

- **`use_vars` reaches nothing** (`render_use_vars`). The environment file is read
  after the definition files were evaluated; what it says of variables is copied
  into overrides that nothing reads any more.

Met while modelling and not turned into runs. The models behave as the code does
in each of these; where a property would be false it says so in its statement. The first
four are such exceptions: take one from its property, and TLC shows the
property violated in the instance that checks it.

- **The Secret of a CSI driver is looked up nowhere.** `validateReferences` says that
  it checks all references to Secrets (`parser.go:536`); it knows three attributes of a
  volume (588-600), and `csi_secret`, which `shared.go:147` puts into the pod, is a
  fourth. `ReferencesAreAccountedFor` speaks of `named`, not of all `refs`.
- **The output can depend on the walk of a map**, though `yaml.go:136` calls it
  deterministic. Account `a` in namespace `b-c` and account `a-b` in namespace `c` have
  one key (`generator.go:38`), and Go's map order decides which of them is rendered:
  `JoinedKeys` in `Reproducible`.
- **An imported claim template may not load.** Its `mount_path` is taken from the
  containers (`statefulset_render.go:80`); if only an init container mounts it, or
  nothing, the block is written without an attribute that `parser/statefulset.go:220`
  requires: `ClaimsInUse` in `LoadsBack`.
- **An imported claim is mounted nowhere.** Volume blocks are written for the volumes of
  the pod (`mapper.go:599`), to which claim templates do not belong, and the generator
  mounts volume blocks only: `LastMounts` in `MountsReturn`.

*Loading and rendering.*

- `docs/variables.md` says of imports that later ones override earlier ones, in a
  sentence about variables and `ingress_defaults` both; for `ingress_defaults`
  the first import wins, also against imports of deeper directories
  (`MergedDefaults`).
- `tls = true` in `ingress_defaults` overrides an explicit `tls = false`
  (`docs/block-types.md:107` says "anything set on the ingress block itself
  wins"): a Boolean keeps no trace of being set.
- The mode of the ingresses comes from `root.kdef`; an entry's own
  `mode = "gateway"` is dropped.
- The ingresses of an entry are validated before the defaults of `root.kdef` reach it,
  so a clash those defaults would remove is an error.
- Namespaces and accounts: `validateNamespaces` passes over the accounts of cronjobs, and
  nothing asks a single project for namespaces.
- References are checked by name without namespaces; image pull secrets are not checked.
- `AccountsForWorkloads` leaves out accounts that share a key, one of which is lost.
- A deployment's init containers lose their `args` (`InitArgs`); a volume of the
  deployment is mounted only by the init containers that list it; mounts of a
  `volume_claim` (`docs/block-types.md:582`) are not generated.
- Of two containers' volumes with one name the second gets the first's source.
- A route's default backend is the workload's name, also when its `service` block
  has a name of its own; a statefulset's default governing Service is its own name.
- A `replicas` of an override or a block is written beside an autoscaler.
- Cronjobs and config maps have no `name` attribute, so they clash in a `for` of
  more than one element.

*Importing.*

- Lost: volumes only init containers mount, all but the last of a volume's paths in
  one container, the path of an init container's mount, an init
  container's single variables, the type of a Service, the class of an ingress,
  exec probes, a cronjob's arguments, account, node selector, history limits
  and further containers, ingress rules without a host, named ports,
  `kind: List`, cluster roles of a cluster.
- An ingress that has its workload's name and is not the first of the block comes back
  as `<name>-2`.
- Files of one name overwrite one another; namespaces are ignored in matching.
- A Service that two workloads match, or an ingress with two backends that are imported, is written
  twice and does not load back (`Ordinary` leaves them out).
- Values are written with `%q`, so a `${` in a ConfigMap or a variable is a template
  when it is read again, and a variable's name is written bare: with a dot or a
  leading digit it is no attribute. Documents of a file that do not parse are passed over.
- A cronjob without containers panics (`mapper.go:171`).
- `writePodVolumes` (`deployment_render.go:201`) is never called.

*Editing.*

- `sidecar` and `ingress_defaults` are offered where the parser takes no such block;
  the pattern of block types lacks `daemonset`, `statefulset`, `probes` and
  `lifecycle`, so inside them the block around is taken.
- Braces in strings and comments count; on the line of a closing brace the
  offers are those of the outer block.
- Diagnostics read variables from disk, not from buffers; they are not
  refreshed when a `vars.kdef` is saved nor cleared when a document is closed. A
  required variable is reported as undeclared, an imports-only file is
  diagnosed as a definition file.
- The own `vars.kdef` is loaded last, so that it wins over the one above ("Local vars
  (higher precedence, overwrites)", `completion.go:274`), but not if the one above imports
  it: then it has been seen, and what comes between overwrites it.
- Completion follows imports of imports, the loader only one level; it looks for a
  `root.kdef` in the parent directory only; it offers names of documents whose
  directory's URI merely begins alike, and names deleted in a buffer but still
  on disk.

## 6. What is proved

### The controller

For every set of releases, revisions, objects and namespaces, any rendering and
any bound on generations that satisfies `ConstantsAssumption`:

| Theorem | Statement | Hypotheses |
|---|---|---|
| `TypeCorrect` | `Spec => []TypeOK` | none |
| `Inductive` | `Spec => []IInv` | `~StaleReads`, `AddressesApart` |
| `Truthful` | `Spec => []ReadyIsTruthful` | the same |
| `Refines` | `Spec => ImplementsSync` | the same |
| `Recorded` | `Spec => []InventoryIsOfRevision` | none |
| `Spares` | `Spec => PruneSparesOutput` | `OwnAddressesApart` |

**The hypotheses.** `~StaleReads`: a read of the cache returns what is stored.
It is needed, as `controller_stale` shows: without it a call works under a status
that says Ready. `AddressesApart`: no two references that releases can render
share an address. It fails in two ways in practice: two releases that render
one object, which take it from one another with `ForceOwnership`, and one
release with a cluster-scoped object whose `targetNamespace` changes, which is
`controller_retarget`. `OwnAddressesApart` is the half of it about one release: a
release without cluster-scoped objects meets it, whatever other releases render.
`Recorded` and `Spares` hold with stale reads too.

**The argument.** `ReadyIsTruthful` is not inductive: it says nothing about a
call in progress, and it is that call that makes the next status. `IInv` adds
three parts. `InventoriesOwned`: inventories hold only what the release can
render, so that no prune touches what belongs to another. `JobMirrorsStatus`:
after its first patch, the stored status carries the mark and the copy in memory
agrees with it, so that a merge patch stores what was meant, and the release is
not settled while the cluster changes. `JobProgress`: what the call counts as
done is in the cluster, at its revision; what it has done and what is left
make up its output; the prune set is apart from it. Each action is one step
of the proof. `Refines` uses the same invariant: a write of the job is a `Write` of
the abstract specification because the call has its mark stored and because
sorting puts what ranks lower first; a prune is a `Remove` because nothing is left to
apply; the last patch is a `Claim` because all of it is in place.

**Under stale reads** a settled status is no longer the truth about the cluster, but
two things remain. `Owned`, the part of `IInv` that needs no assumption, says that
what a call applies is one output of its release and that what it is about to
prune is its release's and apart from that (`JobOutput`); `Spares` follows where
apart as references means apart as addresses. For `Recorded` it is the answer to the
first patch that counts: it is decoded into the copy in memory, so from then on
that copy holds the stored record (`JobHasRecord`), however old the copy was that
the call began with; a mark and a report of failure do not touch the record, and a
report of success stores all of it, or a part of it that already is there.

### The variables

For every depth, every set of files, variables and images, whatever the files
import and declare, `KdefVariables_proofs` proves, from `ConstantsAssumption`
alone:

| Theorem | Statement |
|---|---|
| `Inductive` | `Spec => []IInv` |
| `Resolves` | `Spec => []ResolvesAsDocumented` |
| `Exact` | `Spec => []LoadsExactlyTheSound` |
| `NearestWins` | `Spec => [](OwnDefaultsPrevail /\ NearestImageWins)` |

**The argument.** The properties speak of the end of a loop; `IInv` says the
same of what has been read so far. `Merged` is the set of sources merged
up to now, and `WalkedSoFar` says that `declared` is what these make of each
variable. The step that matters is `MergeNext`: the file it merges outranks every
source merged before (`SourceAt` is increasing in `Outranks`), so overwriting is
right; and when a directory ends, `Merged` has gained exactly its `SourcesOf`.
When the walk is over, `Merged` is `Sources`. `ScannedSoFar` does the same for
images and `DefaultsSoFar` for ingress defaults, where an import may fill a gap but
never displace what a `vars.kdef` said.

`NearestImage` and `Typing` state two of its parts on their own.

### Loader and render

For every set of projects that satisfies `LoaderAssumption` (entries and directories
in any number, any files, loops over any values) and every order of names that
satisfies `AlphabetAssumption`, `KdefRender_proofs` proves each property of rendering:

| Theorem | Statement |
|---|---|
| `Inductive` | `RenderSpec => []IInv` |
| `Typing` | `RenderSpec => []TypeOK` |
| `Sound` | `RenderSpec => []SuccessIsSound` |
| `Survival` | `RenderSpec => []BlocksSurvive` |
| `Ordered` | `RenderSpec => []Reproducible` |
| `Distinct` | `RenderSpec => []DistinctManifests` |
| `ReferencesKept` | `RenderSpec => []ReferencesAreAccountedFor` |
| `MountsThere` | `RenderSpec => []MountsResolve` |
| `AccountsThere` | `RenderSpec => []AccountsForWorkloads` |
| `OrderedByNeed` | `RenderSpec => []PrerequisitesFirst` |
| `RoutesLead` | `RenderSpec => []RoutesReachTheService` |
| `NothingLost` | `RenderSpec => []NothingDeclaredIsLost` |
| `Completion` | `RenderSpec => []CompletedByTheNearest` |

**The assumptions.** `LoaderAssumption` says what a project is (`ProjectOK`), that
None is no value, directory, environment or name, and that a loop's elements are
names. `AlphabetAssumption` says that the order of names is given by numbers and that
the words that the program itself puts into keys are among the parts of names.

**What a load guarantees.** `SuccessIsSound` is about the configuration after the last
pass, but namespaces and duplicates are checked before root defaults are applied.
`Checked` says that the result of the check holds on from there: by
`DefaultsKeepChecks` the defaults touch only `ingresses`, which neither check reads.
`Somewhere` and `InEntry` say which directory is being loaded in which phase, which
types the environment file and the overrides. `Placed` says that a block is told
apart by the place it comes from. `ReferencesKept` adds what the
generator adds to a pod (`PodVolumesAreKnown`) to what `Warned` says of the load;
the references by a driver's Secret it does not cover, as the property does not.

**What is written.** `Made`, `Accounted` and `Filed` say of the map of manifests that it
holds nothing that the configuration does not ask for, the accounts dealt with, and
the objects of every block whose key no cluster-scoped block has.
`Survival` rests on `FiledUnderItsKey` (the objects of a block all have its key)
and on what kinds assign: only an object of a cluster-scoped block removes another,
and only under its own key. `Distinct` goes through the forms of objects
(`ObjectsAreDistinct`): kind by kind, two objects of one identity would make two blocks
that `Duplicates` or `IngressConflict` finds.

**Whatever the walk.** `Ordered` needs more than that the order of strings is total on names
(`NamesAreOrdered`): that the walk leaves no other trace. `Made`, `Accounted` and `Rendered` say together that
at the end of it the map holds every namespace, no account that `Rendering` has not, and
each of its accounts that no other one's key took away (`Kept`);
two accounts have one key only if name and namespace join to one (`AccountKeysJoin`), where a
key is told apart from that of a namespace by its first part. The blocks that are
generated from the map then differ in such accounts at most (`WrittenIsRendering`).

**What the files ask for.** `NothingDeclaredIsLost` compares the configuration with
`AskedFor`, which is written without reference to the load. `InForce` says which
overrides are in force while a file is parsed; `Collected` says that the blocks
collected so far carry exactly the labels that the files read so far ask for, and
those merged so far the labels of the entries before. `LoadingCompleted` and
`MergedCompleted` say the same of what blocks leave open: which of namespace,
account, routes and replicas has been filled in by which phase, and from where.

**In place of induction over data.** What `FlattenSeq` collects would be shown by induction
on the length, which the provers cannot instantiate here. `LeastNatural` (a set of
numbers that is not empty has a least element) is a statement about sets, so it can be
cited: if a prefix of the sequence did not flatten to what its parts make, there
would be a shortest one, and the one before it refutes that. `FlattenExists`,
`FlattenSeqCollects` and `FlattenSeqOnce` are proved in this way, and so is each claim
about the least index of a name.

### Importer

For every namespace, every object that may appear, and any number of changes while
the import reads, `KdefImporter_proofs` proves from `ImporterAssumption`:

| Theorem | Statement |
|---|---|
| `Typing` | `ImportSpec => []TypeOK` |
| `StableImported` | `ImportSpec => []StableObjectsAreImported` |
| `MountsComeBack` | `ImportSpec => []MountsReturn` |
| `ComesBack` | `ImportSpec => []RoundTrip` |
| `LoadsAgain` | `ImportSpec => []LoadsBack` |
| `DurationsReturn` | for every number of seconds, what `formatDuration` writes is what `parseDuration` of the generator reads back |

**The assumption.** `ObjectOK` is what the API server accepts: names are not empty, a
pod's volumes differ in name, a mount has a path, ports are not zero, only a statefulset has claims and a
governing Service, and what is for all namespaces is in none. `None` is no
name and no number, and the parts of names are in an order without repetition.

**The argument.** `Importing` has three parts. `Readable`: what is in the cluster and
what has been read are objects. `ReadSoFar`: of the kinds asked for up to now, what
has been there all along has been read; this is what a change between two reads
could break. `OfTheRead`: written and unwritten files together are those of what was
read, and a file is missing only where another has its name. At the end nothing is
unwritten. From there on the proof is about one block and its object. The block as it was written is followed
through the generator (`WorkloadFields`, `ContainersAreMade`, `IngressesAreMade`,
`NameReturns`, `BackendReturns`), field by field what was left out and what fills it in again.
`MountsComeBack` goes container by container: the last of the mounts of one name is
the one that `PathOf` finds (`LastPath`), the volume blocks of the container are exactly
those of its mounts that the pod has (`VolumesAreWritten`, `ContainerMountsReturn`), and a name that
an init container shares is found again among them (`NamesAreShared`, `InitMountsReturn`).
`LoadsAgain` goes the other way: two blocks that clash would come from two objects
with one kind, namespace and name, or from two workloads with one Service (`IdentityTells`,
`ServiceTells`, `RouteTells`).

The proof showed that `Ordinary` must say of *all* objects that are in a namespace
that it is the same one. With objects read from a file of which some name a
namespace and some do not, two Services of one name clash once they are blocks, and
the statement without it is false.

### Language server

For every set of files, directories, texts and any number of steps, from
`LspAssumption`, `TextAssumption`, `TreeAssumption` and `NoneAssumption`:

| Theorem | Statement |
|---|---|
| `Inductive` | `Spec => []IInv` |
| `Synchronised` | `Spec => []StoreFollowsTheEditor` |
| `Typing` | `Spec => []TypeOK` |
| `SecretsOffered` | `Spec => []UnsavedNamesAreOffered` |
| `OffersFit` | `Spec => []OffersFitTheBlock` |
| `DiagnosticsFollow` | `Spec => []ShownIsOfTheText` |
| `VariablesOffered` | `Spec => []VariablesAreOfTheText` |

**The assumptions.** There are finitely many files. A text's lines and imports are sequences, no variable is called
like one of the other two diagnostics, each directory has a name for its `vars.kdef` and a list
of ancestors that begins with itself, and None is none of the things it stands
beside. How the directories lie otherwise, and what imports what, is free.

**The store.** What holds when the channel is empty says nothing of a channel
that is not. `Follows` says for each document that the last message in flight that
tells of its text tells the editor's text, and that without any the server's
text is the editor's. That is not yet inductive, because `Update` ignores a
change of a document that is not open; so `Follows` adds `OpenAt`: by the time a
change or save is handled, the messages before it have opened the document
and none has closed it since. `Append` (the editor) and `Head`/`Tail` (the
server) each preserve both.

**Questions.** `Conversation` says where the one question of the editor is: on its way to
the server, and then the messages *before it* bring the store to the texts of the
moment it was asked; or on its way back as an answer that fits these texts.
`OffersFit` adds `Remembered` (the line asked about is one of the document), and that
`findBlockContext`, which walks backwards, stops at the block that encloses the line.
It walks by depth, the definition of `Enclosing` does not; `Tidy` texts (a block
opens at the end of its line and closes on its own) are those in which the two agree.
The lines that open nothing the server knows, `sidecar`, the
line of a brace and the top level of a `root.kdef` are the exceptions the property names.

**Diagnostics.** `Diagnosed` says that what was last sent about an open document, or is
shown if nothing is under way, speaks of variables of the text in the store, and, where
the document was sent after the last change of the disk, that it *is* the
diagnosis of that text. The walk to the root is a function over `Ancestors`, the imports a set of
files, so neither needs induction.

**Variables.** `LoadVarsFrom` calls itself for the imports of a file and for the files that
are left, each time with more files seen; `Unseen` counts those that are not. That
there is such a function is no matter of course, and TLA+ gives a recursive definition a meaning
only if there is: `LoaderBelow` makes one that is right where fewer than *n* files are unseen
out of one for *n - 1*, and the least *n* for which there were none refutes
itself (`VarsAreLoaded`). In the same way `LoadingCollects`: a call loads what it is given
and what that imports, and nothing outside a set that no import leads out of. So what is
loaded is `Reached` (`LoadsTheReached`), which is the least such set and says nothing of an
order; and the own file is last (`OwnIsLast`), unless the one above leads
to it. The question remembers what has been on disk since it was asked, `Conversation` that this
includes what is there now, so the answer fits one of them.

## 7. Only model-checked

- **Liveness under fairness** is out of the prover's reach: `Converges`,
  `BrokenSourceSurfaces`, `SuspendTakesEffect`, `EveryQuestionIsAnswered` and
  `RealTimeDiagnostics` rest on TLC.
- **Convergence from stale reads** is liveness, so TLC's; what is proved under stale
  reads is typing, `Recorded` and `Spares`. `ReadyIsTruthful` does not hold there.
- **The disagreements** of section 5: a counterexample needs no proof.

## 8. Not modelled

- Leader election: `main.go` asks for none, so two processes can overlap during
  a rollout. The model has one process.
- `--concurrent`, which has no effect; `lastHandledReconcileAt`, which the code
  never sets; Bucket sources, which the documents name and the code refuses.
- Events, metrics, logging, the tarball and its checksum: pure I/O.
- An entry of `root.kdef` whose directory has a `root.kdef` of its own; the
  resources and image of an override file; `config.Variables` and the enum check
  of `validate` that reads it.
- The conversion of single attributes by the block parsers (resources, labels,
  annotations, tolerations, probes, schedules) and what the generator hands
  on unchanged. So the numeric edges there are not covered either: a port label
  goes through `Atoi` to `int32`, replicas to `int32`, without a check.
- The functions of the evaluation context (`image`, `secret`, `env`) beyond what
  they look up, and the loop expansion's second read of the source by byte offsets.
- `validate`, `diff`, `apply` and `seal`: the same load, then an external tool.
  `install-hook`: one file. `PrintKdef`: the blocks of an import, printed.
- Completion of attribute values.
- Release script, editor extension, Argo CD plugin, shell completions, Helm chart:
  no state of their own.

Hazards the code has and no property covers, besides those in the list:
two processes during a rollout (`flux-controller/cmd/main.go:43`), resource IDs joined with `_` (`kdefrelease_controller.go:540`), an interval of zero
(`kdefrelease_controller.go:188`), `--set` of a name that nothing declares, which
is silently ignored, and `ingress_defaults` of imports, first of which wins.

## 9. Plan

In the order of what a mistake costs. There are twelve runs: the controller takes
six, variables two, rendering two, import and editor one each.

1. **KdefController**, its abstract specification and proofs. Done.
2. **KdefVariables**: the walk from the root to the leaf, and the proof that it
   gives the documented precedence. Done.
3. **KdefBlocks, KdefLoader, KdefGenerate, KdefRender**: done but for nested root
   projects and the attributes left out above.
4. **KdefImporter**: done but for the attributes copied one to one.
5. **KdefLsp**: done but for completion of attribute values.
6. Proofs: every safety property that a passing run checks is a theorem. Left: what
   the controller promises of two releases that share an object.
7. Nested root projects; two controller processes at once; `install-hook`; the
   numeric edges of the block parsers.
8. The composition of `KdefRender` behind the `Render` of the controller.
