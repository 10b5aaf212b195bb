------------------------------- MODULE KdefLsp -------------------------------
(***************************************************************************)
(* The language server and an editor: the editor sends the text of its     *)
(* open documents and asks for completions, the server answers from what   *)
(* it was sent and from the files on disk.  The two are connected by       *)
(* channels that keep order, and the server handles one message at a time. *)
(*                                                                         *)
(* A text is a record: its lines, for which only the braces and the type   *)
(* of a block that the line opens count, the variables that it declares    *)
(* (with or without a default) and uses, the files that it imports, and    *)
(* the names of the secrets and config maps that it has blocks for.        *)
(***************************************************************************)
EXTENDS Integers, SequencesExt

CONSTANTS
    Doc,        \* the files, by URI
    Dir,        \* the directories
    DirOf,      \* DirOf[d]: the directory of d
    Ancestors,  \* Ancestors[dir]: the directory, its parent and so on, to the top
    RootFile,   \* RootFile[dir]: its root.kdef
    VarsFile,   \* VarsFile[dir]: its vars.kdef
    Beneath,    \* Beneath[dir]: the files whose URI begins with that of dir
    Text,       \* Text[d]: the texts that d may have
    Disk,       \* the texts that the files have at first, None for no file
    Editable,   \* the files that the editor opens
    Cursor,     \* where the cursor may be: lines, and what may be before it on its line
    MaxSteps,   \* bound on what the user does
    Absent,     \* in place of the text, in a save message without it
    None

ASSUME LspAssumption ==
    /\ IsFiniteSet(Doc) /\ Editable \subseteq Doc /\ MaxSteps \in Nat
    /\ Disk = [d \in Doc |-> Disk[d]] /\ \A d \in Doc : Disk[d] \in Text[d] \cup {None}
    /\ \A d \in Doc : None \notin Text[d] /\ Absent \notin Text[d]

\* No variable has the name of one of the two other diagnostics.
ASSUME TextAssumption ==
    \A d \in Doc : \A t \in Text[d] :
        /\ t.imports \in Seq(Doc) /\ {"syntax", "import"} \cap t.uses = {}
        /\ t.lines \in Seq([type : {line.type : line \in ToSet(t.lines)}, braces : Seq({"open", "close"})])

ASSUME TreeAssumption ==
    /\ \A d \in Doc : DirOf[d] \in Dir /\ d \in Beneath[DirOf[d]]
    /\ \A dir \in Dir :
          /\ VarsFile[dir] \in Doc /\ RootFile[dir] \in Doc \cup {None}
          /\ Ancestors[dir] \in Seq(Dir) /\ Ancestors[dir] # <<>> /\ Ancestors[dir][1] = dir

Texts(d) == Text[d] \cup {None}

\* The texts that the files or the documents may have.
AllTexts == [Doc -> UNION {Texts(d) : d \in Doc}]

\* What the editor remembers of a question.
Question == [doc : Editable, line : {at.line : at \in Cursor}, texts : AllTexts, disks : SUBSET AllTexts]

\* The types of block that findBlockContext knows.
BlockTypes ==
    {"deployment", "cronjob", "configmap", "secret", "sealedsecret", "persistentvolumeclaim", "images",
     "container", "init", "sidecar", "scale", "service", "ingress", "autoscale", "port", "env", "env_from",
     "resources", "volume", "security_context"}

ASSUME NoneAssumption == None \notin Question \cup BlockTypes

VARIABLES
    disk,      \* the texts of the files, None for no file
    buffer,    \* the texts in the editor, None for a file that is not open
    shown,     \* the diagnostics in the editor
    asked,     \* the completion that the editor waits for, with the texts at that time and the files since
    answer,    \* the last answer, with what was asked
    steps,     \* how much the user has done
    toServer, toClient,
    store,     \* the texts that the server has, None for a document that is not open
    fresh      \* documents sent since the disk last changed

vars == <<disk, buffer, shown, asked, answer, steps, toServer, toClient, store, fresh>>

(***************************************************************************)
(* Texts.                                                                  *)
(***************************************************************************)
\* The braces of the lines first to last, by line and place.
Braces(lines, first, last, brace) ==
    UNION {{<<i, k>> : k \in {n \in DOMAIN lines[i].braces : lines[i].braces[n] = brace}} : i \in first..last}

\* How many blocks more these lines open than they close.
Open(lines, first, last) ==
    Cardinality(Braces(lines, first, last, "open")) - Cardinality(Braces(lines, first, last, "close"))

\* Whether the library finds a syntax error.
Broken(text) == Open(text.lines, 1, Len(text.lines)) # 0

Readable(texts, f) == texts[f] # None /\ ~Broken(texts[f])

(***************************************************************************)
(* The variables that a definition file is checked against: those of the   *)
(* vars.kdef of every directory from the project root down, and of the     *)
(* files that these import, from disk.  The walk ends at a file that       *)
(* cannot be read.                                                         *)
(***************************************************************************)
IsRoot(dir) == RootFile[dir] # None /\ disk[RootFile[dir]] # None

\* How far up the project's root is, 0 for no root.
findRootDir(dir) == SelectInSeq(Ancestors[dir], IsRoot)

\* Faulty variant of WalkedDirs: the directories above are not looked at.
WalkedOwnDir(dir) == <<dir>>

WalkedDirs(dir) ==
    IF findRootDir(dir) = 0 THEN <<dir>> ELSE Reverse(SubSeq(Ancestors[dir], 1, findRootDir(dir)))

\* The files in the order of the walk; a vars.kdef is read before the files it
\* imports, but counts after them.
WalkedFiles(dir) ==
    FlattenSeq([i \in DOMAIN WalkedDirs(dir) |->
        LET f == VarsFile[WalkedDirs(dir)[i]]
        IN  IF disk[f] = None THEN <<>>
            ELSE <<[file |-> f, counts |-> FALSE]>>
                 \o [k \in DOMAIN disk[f].imports |-> [file |-> disk[f].imports[k], counts |-> TRUE]]
                 \o <<[file |-> f, counts |-> TRUE]>>])

\* The variables that have a value in the editor: those whose last declaration
\* has a default.
ValuedVariables(dir) ==
    LET files     == WalkedFiles(dir)
        counted   == {i \in DOMAIN files :
                        files[i].counts /\ \A k \in 1..i : Readable(disk, files[k].file)}
        in(i)     == disk[files[i].file].declares
        naming(x) == {i \in counted : x \in DOMAIN in(i)}
    IN  {x \in UNION {DOMAIN in(i) : i \in counted} : in(Max(naming(x)))[x] = "default"}

IsVariableFile(doc, text) ==
    doc \in {VarsFile[dir] : dir \in Dir} \/ (~Broken(text) /\ DOMAIN text.declares # {})

diagnoseFile(doc, text) ==
    IF Broken(text) THEN {"syntax"}
    ELSE IF IsVariableFile(doc, text) \/ \E dir \in Dir : doc = RootFile[dir] THEN {}
    ELSE (text.uses \ ValuedVariables(DirOf[doc]))
         \cup (IF text.imports = <<>> THEN {} ELSE {"import"})

(***************************************************************************)
(* Completion.                                                             *)
(***************************************************************************)
\* Faulty variant of findBlockContext: a block that the line closes counts as open.
findBlockContextOpenFirst(lines, cursor) ==
    LET opening == {i \in 1..cursor : Braces(lines, i, i, "open") # {} /\ Open(lines, i + 1, cursor) >= 0}
    IN  IF opening = {} THEN None
        ELSE LET i == CHOOSE k \in opening : \A j \in opening : j <= k
             IN  IF lines[i].type \in BlockTypes THEN lines[i].type ELSE None

\* Lines are read upwards from the cursor's own, each in full, its closing
\* braces first, until one opens more than has been closed.
findBlockContext(lines, cursor) ==
    LET opening == {i \in 1..cursor : Open(lines, i, cursor) > 0}
    IN  IF opening = {} THEN None
        ELSE LET i == CHOOSE k \in opening : \A j \in opening : j <= k
             IN  IF lines[i].type \in BlockTypes THEN lines[i].type ELSE None

\* The blocks that the schema has in a block, and at the top of a file.
WorkloadMembers ==
    [deployment  |-> {"container", "init", "sidecar", "scale", "volume", "security_context", "service",
                      "ingress", "autoscale", "toleration"},
     daemonset   |-> {"container", "init", "volume", "security_context", "service", "toleration"},
     statefulset |-> {"container", "init", "scale", "volume", "volume_claim", "security_context", "service",
                      "ingress", "toleration"}]

ContainerMembers ==
    [container |-> {"port", "env", "env_from", "resources", "volume", "security_context", "probes", "lifecycle"},
     init      |-> {"env", "env_from", "security_context"},
     sidecar   |-> {"port", "env", "env_from", "resources", "volume", "security_context"}]

OtherMembers ==
    [cronjob |-> {"env", "env_from", "resources", "volume", "security_context", "toleration"},
     service |-> {"port"}]

topLevelBlocks ==
    {"deployment", "daemonset", "statefulset", "cronjob", "configmap", "secret", "sealedsecret",
     "persistentvolumeclaim", "clusterrole", "clusterrolebinding", "crd", "csidriver", "ingress",
     "images", "ingress_defaults"}

blockSchemaMap(block) ==
    CASE block \in DOMAIN WorkloadMembers -> WorkloadMembers[block]
      [] block \in DOMAIN ContainerMembers -> ContainerMembers[block]
      [] block \in DOMAIN OtherMembers -> OtherMembers[block]
      [] OTHER -> {}

\* Environment variables are written freely.
Members(block) == IF block = None THEN topLevelBlocks ELSE blockSchemaMap(block)

Declares(texts, f) == IF Readable(texts, f) THEN texts[f].declares ELSE <<>>
Imports(f)         == IF Readable(disk, f) THEN disk[f].imports ELSE <<>>

Over(f, g) == [x \in DOMAIN f \cup DOMAIN g |-> IF x \in DOMAIN f THEN f[x] ELSE g[x]]

\* Faulty variant of Declared: the disk comes after the buffer.
DeclaredDiskLast(f) == Over(Declares(disk, f), Declares(store, f))

\* What a file declares on disk, then what it declares in an open document.
Declared(f) == Over(Declares(store, f), Declares(disk, f))

\* The first of these that the server has not seen.
NextFile(seen, files) == files[SelectInSeq(files, LAMBDA g : g \notin seen)]

\* The files that loading these makes the server load, in order: the imports of
\* a file that can be read before the file itself, and no file twice.
LoadVarsFrom[seen \in SUBSET Doc] == [files \in Seq(Doc) |->
    IF ToSet(files) \subseteq seen THEN <<>>
    ELSE LET f      == NextFile(seen, files)
             loaded == Append(LoadVarsFrom[seen \cup {f}][Imports(f)], f)
         IN  loaded \o LoadVarsFrom[seen \cup ToSet(loaded)][files]]

\* The parent's directory counts if it is a root; those above it do not.
NearDirs(dir) ==
    IF Len(Ancestors[dir]) > 1 /\ IsRoot(Ancestors[dir][2]) THEN <<Ancestors[dir][2], dir>> ELSE <<dir>>

\* Of the files that declare a variable the one that is loaded last counts.
completeVariables(dir) ==
    LET loaded    == LoadVarsFrom[{}][[i \in DOMAIN NearDirs(dir) |-> VarsFile[NearDirs(dir)[i]]]]
        naming(x) == {i \in DOMAIN loaded : x \in DOMAIN Declared(loaded[i])}
    IN  [x \in UNION {DOMAIN Declared(f) : f \in ToSet(loaded)} |-> Declared(loaded[Max(naming(x))])[x]]

\* Images are found by parsing, the names of blocks line by line, so that a
\* syntax error does not matter to them.
Named(text) == {n \in text.names : n[1] # "image" \/ ~Broken(text)}

SavedNames(dir) ==
    UNION {Named(disk[f]) : f \in {g \in Doc : disk[g] # None /\ DirOf[g] \in ToSet(NearDirs(dir))}}

\* Faulty variant of scanNames: what is not saved does not count.
scanSavedNames(dir) == SavedNames(dir)

scanNames(dir) ==
    SavedNames(dir) \cup UNION {Named(store[f]) : f \in {g \in Beneath[dir] : store[g] # None}}

\* What counts is the first of these that is before the cursor.
Order == <<"var.", "env.", "image(", "secret(", "configmap(", "=">>

Wanted(before) ==
    LET i == SelectInSeq(Order, LAMBDA p : p \in before) IN IF i = 0 THEN "structure" ELSE Order[i]

completion(doc, line, before) ==
    LET names(kind) == {n[2] : n \in {m \in scanNames(DirOf[doc]) : m[1] = kind}}
    IN  IF store[doc] = None \/ line > Len(store[doc].lines) THEN [about |-> "nothing", items |-> {}]
        ELSE CASE Wanted(before) = "var." -> [about |-> "variables", items |-> completeVariables(DirOf[doc])]
               [] Wanted(before) = "image(" -> [about |-> "images", items |-> names("image")]
               [] Wanted(before) = "secret(" -> [about |-> "secrets", items |-> names("secret")]
               [] Wanted(before) = "configmap(" -> [about |-> "configmaps", items |-> names("configmap")]
               [] Wanted(before) \in {"env.", "="} -> [about |-> "values", items |-> {}]
               [] OTHER -> [about |-> "structure", items |-> Members(findBlockContext(store[doc].lines, line))]

(***************************************************************************)
(* The editor.                                                             *)
(***************************************************************************)
Init ==
    /\ disk = Disk
    /\ buffer = [d \in Doc |-> None] /\ store = buffer
    /\ shown = [d \in Doc |-> {}]
    /\ asked = None /\ answer = None /\ steps = 0
    /\ toServer = <<>> /\ toClient = <<>> /\ fresh = {}

Step == steps < MaxSteps /\ steps' = steps + 1

\* The answer that the editor waits for may be about these files or about earlier ones.
Meanwhile == asked' = IF asked = None THEN None ELSE [asked EXCEPT !.disks = @ \cup {disk'}]

OpenDocument ==
    /\ Step
    /\ \E d \in Editable :
          /\ buffer[d] = None /\ disk[d] # None
          /\ buffer' = [buffer EXCEPT ![d] = disk[d]]
          /\ toServer' = Append(toServer, [what |-> "open", doc |-> d, text |-> disk[d]])
          /\ fresh' = fresh \cup {d}
    /\ UNCHANGED <<disk, shown, asked, answer, toClient, store>>

\* A message may carry several changes, each the whole text.
Edit ==
    /\ Step
    /\ \E d \in Editable : \E t, u \in Text[d] :
          /\ buffer[d] # None /\ t # buffer[d]
          /\ buffer' = [buffer EXCEPT ![d] = t]
          /\ toServer' = Append(toServer, [what |-> "change", doc |-> d,
                                           texts |-> IF u = t THEN <<t>> ELSE <<u, t>>])
          /\ fresh' = fresh \cup {d}
    /\ UNCHANGED <<disk, shown, asked, answer, toClient, store>>

\* An editor may leave out the text, which the server has asked for.
Save ==
    /\ Step
    /\ \E d \in Editable : \E with \in BOOLEAN :
          /\ buffer[d] # None
          /\ disk' = [disk EXCEPT ![d] = buffer[d]]
          /\ toServer' = Append(toServer, [what |-> "save", doc |-> d,
                                           text |-> IF with THEN buffer[d] ELSE Absent])
          /\ fresh' = (IF disk' = disk THEN fresh ELSE {}) \cup (IF with THEN {d} ELSE {})
    /\ Meanwhile
    /\ UNCHANGED <<buffer, shown, answer, toClient, store>>

Close ==
    /\ Step
    /\ \E d \in Editable :
          /\ buffer[d] # None
          /\ buffer' = [buffer EXCEPT ![d] = None]
          /\ toServer' = Append(toServer, [what |-> "close", doc |-> d])
    /\ UNCHANGED <<disk, shown, asked, answer, toClient, store, fresh>>

\* Another program writes or removes a file.
WriteFile ==
    /\ Step
    /\ \E d \in Doc : \E t \in Text[d] \cup {None} :
          t # disk[d] /\ disk' = [disk EXCEPT ![d] = t]
    /\ fresh' = {} /\ Meanwhile
    /\ UNCHANGED <<buffer, shown, answer, toServer, toClient, store>>

Ask ==
    /\ Step /\ asked = None
    /\ \E d \in Editable : buffer[d] # None /\ \E at \in {c \in Cursor : c.line \in DOMAIN buffer[d].lines} :
          /\ toServer' = Append(toServer, [what |-> "complete", doc |-> d, line |-> at.line, before |-> at.before])
          /\ asked' = [doc |-> d, line |-> at.line, texts |-> buffer, disks |-> {disk}]
    /\ answer' = None
    /\ UNCHANGED <<disk, buffer, shown, toClient, store, fresh>>

Receive ==
    /\ toClient # <<>>
    /\ LET m == Head(toClient)
       IN  \/ /\ m.what = "diagnostics"
              /\ shown' = [shown EXCEPT ![m.doc] = m.errors]
              /\ UNCHANGED <<asked, answer>>
           \/ /\ m.what = "completion"
              /\ answer' = [asked |-> asked, got |-> m.answer]
              /\ asked' = None
              /\ UNCHANGED shown
    /\ toClient' = Tail(toClient)
    /\ UNCHANGED <<disk, buffer, steps, toServer, store, fresh>>

(***************************************************************************)
(* The server.                                                             *)
(***************************************************************************)
Publish(doc, text) ==
    toClient' = Append(toClient, [what |-> "diagnostics", doc |-> doc, errors |-> diagnoseFile(doc, text)])

Update(doc, text) == [store EXCEPT ![doc] = IF @ = None THEN None ELSE text]

didOpen(m) == store' = [store EXCEPT ![m.doc] = m.text] /\ Publish(m.doc, m.text)

\* Faulty variant of didChange: the first change counts.
didChangeFirst(m) == store' = Update(m.doc, m.texts[1]) /\ Publish(m.doc, m.texts[1])

\* Faulty variant of didChange: diagnostics wait for a save.
didChangeQuietly(m) == store' = Update(m.doc, m.texts[Len(m.texts)]) /\ UNCHANGED toClient

\* The last change is the text.
didChange(m) == store' = Update(m.doc, m.texts[Len(m.texts)]) /\ Publish(m.doc, m.texts[Len(m.texts)])

\* Faulty variant of didSave: a message without text is taken like one with it.
didSaveAny(m) == store' = Update(m.doc, m.text) /\ UNCHANGED toClient

didSave(m) ==
    IF m.text = Absent THEN UNCHANGED <<store, toClient>>
    ELSE store' = Update(m.doc, m.text) /\ Publish(m.doc, m.text)

\* The diagnostics of the document are left as they are.
didClose(m) == store' = [store EXCEPT ![m.doc] = None] /\ UNCHANGED toClient

\* Faulty variant of complete: with nothing to offer there is no answer.
completeOrNot(m) ==
    LET answered == completion(m.doc, m.line, m.before)
    IN  /\ IF answered.about = "structure" /\ answered.items = {} THEN UNCHANGED toClient
           ELSE toClient' = Append(toClient, [what |-> "completion", answer |-> answered])
        /\ UNCHANGED store

complete(m) ==
    /\ toClient' = Append(toClient, [what |-> "completion", answer |-> completion(m.doc, m.line, m.before)])
    /\ UNCHANGED store

Handle ==
    /\ toServer # <<>>
    /\ LET m == Head(toServer)
       IN  \/ m.what = "open" /\ didOpen(m)
           \/ m.what = "change" /\ didChange(m)
           \/ m.what = "save" /\ didSave(m)
           \/ m.what = "close" /\ didClose(m)
           \/ m.what = "complete" /\ complete(m)
    /\ toServer' = Tail(toServer)
    /\ UNCHANGED <<disk, buffer, shown, asked, answer, steps, fresh>>

User == OpenDocument \/ Edit \/ Save \/ Close \/ WriteFile \/ Ask

Next == User \/ Receive \/ Handle

\* The server reads on and the editor shows what it gets; the user is free to
\* stop.  Only Handle takes a message off the one channel, only Receive off the
\* other, and each can whenever there is one.
Taking(channel) == channel # <<>> /\ channel' = Tail(channel)

Fairness == WF_toServer(Taking(toServer)) /\ WF_toClient(Taking(toClient))

Spec == Init /\ [][Next]_vars /\ Fairness

(***************************************************************************)
(* Properties.                                                             *)
(***************************************************************************)
\* The type invariant: of the messages, those that are in the order in which
\* the editor may send them.
TypeOK ==
    /\ \A d \in Doc : {disk[d], buffer[d], store[d]} \subseteq Texts(d)
    /\ \A d \in Doc : shown[d] \subseteq {"syntax", "import"} \cup UNION {t.uses : t \in Text[d]}
    /\ fresh \subseteq Editable /\ steps \in 0..MaxSteps
    /\ asked # None => asked \in Question /\ asked.texts[asked.doc] # None
    /\ \A i \in DOMAIN toServer : toServer[i].what \in {"open", "change", "save", "close", "complete"}
    /\ \A i \in DOMAIN toClient : toClient[i].what \in {"diagnostics", "completion"}

About(d) == {i \in DOMAIN toServer : toServer[i].doc = d}

\* When the server has read all that the editor sent about a document, it has
\* the editor's text, however many changes one message carried and whether or
\* not saves carry the text, and no text of a document that is closed
\* (document.go:28-53, server.go:80-114).
StoreFollowsTheEditor == \A d \in Doc : About(d) = {} => store[d] = buffer[d]

\* Every vars.kdef from the directory up to the project's root, when it can be
\* read and its imports can, has had its say.
ReadableAbove(dir) ==
    \A i \in DOMAIN WalkedFiles(dir) : Readable(disk, WalkedFiles(dir)[i].file)

\* The directories whose vars.kdef counts: the own one, and those up to the nearest root.
DirsAbove(dir) ==
    {Ancestors[dir][k] : k \in {n \in DOMAIN Ancestors[dir] :
        \/ n = 1
        \/ /\ \E j \in n..Len(Ancestors[dir]) : IsRoot(Ancestors[dir][j])
           /\ \A j \in 1..(n - 1) : ~IsRoot(Ancestors[dir][j])}}

\* How the variable is declared there and in what is imported there.
Declarations(dir, x) ==
    LET own == {f \in {VarsFile[a] : a \in DirsAbove(dir)} : disk[f] # None}
        all == own \cup UNION {ToSet(disk[f].imports) : f \in own}
    IN  {disk[f].declares[x] : f \in {g \in all : x \in DOMAIN disk[g].declares}}

\* Once all messages have arrived, what the editor shows for an open document
\* is about the text that it shows: a syntax error exactly if there is one, no
\* variable that the text does not use, and, if no file changed on disk in the
\* meantime and those with declarations can be read, every used variable that
\* no vars.kdef up to the root declares and none that all of them give a default
\* (server.go:80-122, diagnostics.go:18-113).  A root.kdef is not looked at for
\* variables.
ShownIsOfTheText ==
    toServer = <<>> /\ toClient = <<>> =>
        \A d \in {e \in Doc : buffer[e] # None} :
            /\ "syntax" \in shown[d] <=> Broken(buffer[d])
            /\ shown[d] \subseteq {"syntax", "import"} \cup buffer[d].uses
            /\ /\ d \in fresh /\ ~Broken(buffer[d]) /\ ReadableAbove(DirOf[d])
               /\ ~IsVariableFile(d, buffer[d]) /\ \A dir \in Dir : d # RootFile[dir]
               => \A x \in buffer[d].uses :
                     /\ Declarations(DirOf[d], x) = {} => x \in shown[d]
                     /\ Declarations(DirOf[d], x) = {"default"} => x \notin shown[d]

Answered(about) == answer # None /\ answer.got.about = about

\* The files that imports lead to from these, with this on disk.
Reached(files, on) ==
    LET closed == {S \in SUBSET Doc :
                      files \subseteq S /\ \A f \in S : Readable(on, f) => ToSet(on[f].imports) \subseteq S}
    IN  {f \in Doc : \A S \in closed : f \in S}

\* The vars.kdef of the directory above, if that is a root.
VarsAbove(dir, on) ==
    {VarsFile[root] : root \in {r \in Dir : /\ Len(Ancestors[dir]) > 1 /\ r = Ancestors[dir][2]
                                         /\ RootFile[r] # None /\ on[RootFile[r]] # None}}

\* The variables on offer are those that the vars.kdef of the directory, that of
\* a root above it, and all that they import declare, on disk at some moment
\* since the editor asked or, saved or not, in the editor when it asked; no
\* other, and no cycle of imports keeps the answer away or a file out.  Those of
\* the directory's own vars.kdef are as it declares them, in the editor rather
\* than on disk, unless the one above imports it (completion.go:230-287).
VariablesAreOfTheText ==
    Answered("variables") =>
        LET texts == answer.asked.texts
            dir   == DirOf[answer.asked.doc]
            own   == VarsFile[dir]
            offer == answer.got.items
        IN  \E on \in answer.asked.disks :
                /\ DOMAIN offer = UNION {DOMAIN Declares(texts, f) \cup DOMAIN Declares(on, f) :
                                           f \in Reached(VarsAbove(dir, on) \cup {own}, on)}
                /\ own \notin Reached(VarsAbove(dir, on), on) =>
                      /\ \A x \in DOMAIN Declares(texts, own) : offer[x] = Declares(texts, own)[x]
                      /\ \A x \in DOMAIN Declares(on, own) \ DOMAIN Declares(texts, own) :
                            offer[x] = Declares(on, own)[x]

\* The block that a line is in: the last one before it that is still open.
Enclosing(lines, cursor) ==
    LET open == {i \in 1..(cursor - 1) :
                    /\ \E k \in DOMAIN lines[i].braces :
                          /\ lines[i].braces[k] = "open"
                          /\ \A n \in (k + 1)..Len(lines[i].braces) : lines[i].braces[n] # "close"
                    /\ \A j \in (i + 1)..(cursor - 1) : Open(lines, i + 1, j) >= 0}
    IN  IF open = {} THEN None ELSE lines[CHOOSE i \in open : \A j \in open : j <= i].type

\* The blocks that the parser takes in a block.
Takes ==
    [deployment |-> {"container", "init", "scale", "volume", "security_context", "service", "ingress",
                     "autoscale", "rollout", "toleration"},
     container  |-> {"port", "env", "env_from", "resources", "volume", "security_context", "probes", "lifecycle"},
     init       |-> {"env", "env_from", "security_context"},
     service    |-> {"port"},
     cronjob    |-> {"env", "env_from", "resources", "volume", "security_context", "toleration"}]

Taken(block) == IF block \in DOMAIN Takes THEN Takes[block] ELSE {}

\* Whether a line opens one block at most, and closes none before it.
Tidy(line) == \A k \in DOMAIN line.braces : line.braces[k] = "open" => k = 1

\* On a line without braces of its own, in a block of a type that the backward
\* scan knows, the blocks on offer are blocks that the parser takes there, in
\* the text that the editor had when it asked, if its lines are laid out as
\* they usually are.  The sidecar block is the exception: the schema has it, the
\* parser does not (completion.go:93-117, schema.go against deployment.go:31-42,
\* 227-236 and app.go:942-950).
OffersFitTheBlock ==
    Answered("structure") =>
        LET lines == answer.asked.texts[answer.asked.doc].lines
            line  == answer.asked.line
        IN  /\ lines[line].braces = <<>> /\ \A i \in 1..(line - 1) : Tidy(lines[i])
            /\ Enclosing(lines, line) \in BlockTypes \ {"sidecar"}
            => answer.got.items \ {"sidecar"} \subseteq Taken(Enclosing(lines, line))

\* Names of secrets and config maps are offered from all open documents of the
\* directory as they were when the editor asked, saved or not, and even while
\* their text has a syntax error, as it has when the name is being typed
\* (completion.go:354-424, document.go:63-73).
UnsavedNamesAreOffered ==
    Answered("secrets") =>
        \A d \in {e \in Doc : answer.asked.texts[e] # None /\ DirOf[e] = DirOf[answer.asked.doc]} :
            {n[2] : n \in {m \in answer.asked.texts[d].names : m[1] = "secret"}} \subseteq answer.got.items

\* The editor does not wait for ever, whatever else it sends meanwhile
\* (completion.go:18-90, server.go:80-122).
EveryQuestionIsAnswered == asked # None ~> asked = None

\* Diagnostics come as one types: an open document comes to show a syntax error
\* exactly if its text has one, or it is closed, without a save
\* (README.md:149, server.go:88-99).
RealTimeDiagnostics ==
    \A d \in Editable :
        buffer[d] # None ~> (buffer[d] = None \/ ("syntax" \in shown[d] <=> Broken(buffer[d])))
=============================================================================
