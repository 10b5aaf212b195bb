--------------------------- MODULE KdefVariables ---------------------------
(***************************************************************************)
(* What a definition file may refer to: the variables, ingress defaults    *)
(* and images of one project directory, gathered by loadSingleProject      *)
(* before it parses the first definition file.                             *)
(*                                                                         *)
(* The directories from the root of the repository (level 1) down to the   *)
(* project (level Depth) are walked twice: for the vars.kdef files, with   *)
(* their imports and --vars-from, and for the images blocks.  Then the     *)
(* values file and the overrides turn declarations into values.  One step  *)
(* per file that is read; the first error ends the load.                   *)
(***************************************************************************)
EXTENDS Naturals, Sequences

CONSTANTS
    Depth,       \* directories from the root to the project, both included
    Variable,    \* names of variables
    Image,       \* names of images
    Reference,   \* what an image name stands for
    File,        \* variable files: vars.kdef, imported or named by --vars-from
    Broken,      \* the files that do not exist or do not parse
    Imports,     \* Imports[f]: the files f imports, in order
    Declares,    \* Declares[f][x]: the declaration of x in f, or None
    Defaults,    \* contents of ingress_defaults blocks
    DefaultsOf,  \* DefaultsOf[f]: the ingress_defaults of f, or None
    Text,        \* what --set can carry
    Value,       \* values of variables
    Converted,   \* Converted[t][raw]: raw as a value of type t, or None
    Project,     \* the projects a load may be asked for
    Unreadable,  \* in place of a values file or a directory that fails
    None         \* absent

Level == 1 .. Depth

\* A declaration.  "structured" stands for list and any; an enum is a string
\* with allowed values; a variable without a default is required.
Decl == [type: {"string", "number", "bool", "structured"},
         allowed: SUBSET Text,
         default: Value \cup {None}]

ImageTable == [Image -> Reference \cup {None}]

\* What a load starts from: the vars.kdef of each directory, --vars-from, --set,
\* --values, and the images blocks of each directory.
ProjectType ==
    [vars: [Level -> File \cup {None}],
     varsFrom: Seq(File),
     set: [Variable -> Text \cup {None}],
     values: [Variable -> Value \cup {None}] \cup {Unreadable},
     images: [Level -> ImageTable \cup {Unreadable}]]

ASSUME ConstantsAssumption ==
    /\ Depth \in Nat \ {0}
    /\ None \notin File \cup Text \cup Value \cup Decl \cup Defaults \cup Reference
    /\ Unreadable \notin ImageTable \cup [Variable -> Value \cup {None}]
    /\ Broken \subseteq File
    /\ Imports \in [File -> Seq(File)]
    /\ Declares \in [File -> [Variable -> Decl \cup {None}]]
    /\ DefaultsOf \in [File -> Defaults \cup {None}]
    /\ Converted \in [{"string", "number", "bool"} -> [Text -> Value \cup {None}]]
    /\ Project \subseteq ProjectType

VARIABLES
    project,          \* the project, which nothing changes
    phase,            \* what the load is doing
    level,            \* the directory it is at
    next,             \* the next file to merge there
    declared,         \* declared[x]: the declaration in force so far, or None
    ingressDefaults,  \* the ingress defaults in force so far, or None
    images,           \* images[i]: the reference in force so far, or None
    context           \* context[x]: the value definition files see, or None

vars == <<project, phase, level, next, declared, ingressDefaults, images, context>>

Phase == {"walk", "merge", "values", "images", "evaluate", "done", "failed"}

Undefined == [x \in Variable |-> None]

Init ==
    /\ project \in Project
    /\ phase = "walk" /\ level = 1 /\ next = 1
    /\ declared = Undefined
    /\ ingressDefaults = None
    /\ images = [i \in Image |-> None]
    /\ context = Undefined

Fail ==
    /\ phase' = "failed"
    /\ UNCHANGED <<project, level, next, declared, ingressDefaults, images, context>>

(***************************************************************************)
(* LoadVariablesWalk.  A directory without vars.kdef is passed over.       *)
(* Otherwise its file is parsed first, then each import is parsed and      *)
(* merged, then, at the project itself, each --vars-from file, and last    *)
(* its own declarations.  The imports of an imported file are not read.    *)
(***************************************************************************)
ImportsAt(l) == Imports[project.vars[l]]

VarsFromAt(l) == IF l = Depth THEN project.varsFrom ELSE <<>>

SourceCount(l) == Len(ImportsAt(l)) + Len(VarsFromAt(l)) + 1

\* Faulty variant of SourceAt: the own declarations come first.
OwnSourceFirst(l, k) ==
    IF k = 1 THEN [level |-> l, tier |-> "own", pos |-> 1, file |-> project.vars[l]]
    ELSE IF k - 1 <= Len(ImportsAt(l))
    THEN [level |-> l, tier |-> "import", pos |-> k - 1, file |-> ImportsAt(l)[k - 1]]
    ELSE LET n == k - 1 - Len(ImportsAt(l))
         IN [level |-> l, tier |-> "varsFrom", pos |-> n, file |-> VarsFromAt(l)[n]]

\* The k-th file merged at level l.
SourceAt(l, k) ==
    IF k <= Len(ImportsAt(l))
    THEN [level |-> l, tier |-> "import", pos |-> k, file |-> ImportsAt(l)[k]]
    ELSE IF k < SourceCount(l)
    THEN LET n == k - Len(ImportsAt(l))
         IN [level |-> l, tier |-> "varsFrom", pos |-> n, file |-> VarsFromAt(l)[n]]
    ELSE [level |-> l, tier |-> "own", pos |-> 1, file |-> project.vars[l]]

SkipDirectory ==
    /\ phase = "walk" /\ level <= Depth
    /\ project.vars[level] = None
    /\ level' = level + 1
    /\ UNCHANGED <<project, phase, next, declared, ingressDefaults, images, context>>

OpenVars ==
    /\ phase = "walk" /\ level <= Depth
    /\ project.vars[level] \in File \ Broken
    /\ phase' = "merge" /\ next' = 1
    /\ UNCHANGED <<project, level, declared, ingressDefaults, images, context>>

\* Faulty variant of MergedDefaults: an import replaces what is there.
LastDefaults(s) ==
    IF s.tier # "varsFrom" /\ DefaultsOf[s.file] # None
    THEN DefaultsOf[s.file] ELSE ingressDefaults

\* Defaults of an import count only while there are none; those of a --vars-from
\* file do not count.
MergedDefaults(s) ==
    IF DefaultsOf[s.file] # None /\ (s.tier = "own" \/ (s.tier = "import" /\ ingressDefaults = None))
    THEN DefaultsOf[s.file] ELSE ingressDefaults

MergeNext ==
    /\ phase = "merge"
    /\ LET s == SourceAt(level, next) IN
          /\ s.file \notin Broken
          /\ declared' = [x \in Variable |->
                 IF Declares[s.file][x] # None THEN Declares[s.file][x] ELSE declared[x]]
          /\ ingressDefaults' = MergedDefaults(s)
    /\ IF next < SourceCount(level)
       THEN next' = next + 1 /\ UNCHANGED <<phase, level>>
       ELSE phase' = "walk" /\ level' = level + 1 /\ next' = 1
    /\ UNCHANGED <<project, images, context>>

\* A vars.kdef, an imported or a --vars-from file does not parse.
VariableFileFails ==
    /\ \/ phase = "walk" /\ level <= Depth /\ project.vars[level] \in Broken
       \/ phase = "merge" /\ SourceAt(level, next).file \in Broken
    /\ Fail

FinishWalk ==
    /\ phase = "walk" /\ level = Depth + 1
    /\ phase' = "values"
    /\ UNCHANGED <<project, level, next, declared, ingressDefaults, images, context>>

LoadValuesFile ==
    /\ phase = "values"
    /\ project.values # Unreadable
    /\ phase' = "images" /\ level' = 1
    /\ UNCHANGED <<project, next, declared, ingressDefaults, images, context>>

\* Faulty variant of MergedImages: the first definition stays.
FirstImages(found) == [i \in Image |-> IF images[i] # None THEN images[i] ELSE found[i]]

MergedImages(found) == [i \in Image |-> IF found[i] # None THEN found[i] ELSE images[i]]

\* ScanImagesWalk, one directory.
ScanImages ==
    /\ phase = "images" /\ level <= Depth
    /\ project.images[level] # Unreadable
    /\ images' = MergedImages(project.images[level])
    /\ level' = level + 1
    /\ UNCHANGED <<project, phase, next, declared, ingressDefaults, context>>

FinishImages ==
    /\ phase = "images" /\ level = Depth + 1
    /\ phase' = "evaluate"
    /\ UNCHANGED <<project, level, next, declared, ingressDefaults, images, context>>

\* The values file or a directory cannot be read.
ReadFails ==
    /\ \/ phase = "values" /\ project.values = Unreadable
       \/ phase = "images" /\ level <= Depth /\ project.images[level] = Unreadable
    /\ Fail

(***************************************************************************)
(* BuildEvalContext.  --set beats the values file, which beats the         *)
(* default.  --set is looked up for declared variables only; a value of    *)
(* the values file is visible whether its name is declared or not.         *)
(***************************************************************************)
\* Faulty variant of overrideValue: the text is not converted.
RawOverride(d, raw) ==
    IF d.allowed # {} /\ raw \notin d.allowed THEN None ELSE raw

\* raw as a value of the declared type, None if it does not fit.
overrideValue(d, raw) ==
    IF d.allowed # {} /\ raw \notin d.allowed THEN None
    ELSE IF d.type = "structured" THEN None
    ELSE Converted[d.type][raw]

\* Faulty variant of Chosen: the values file is not asked.
ChosenWithoutValues(x, d) ==
    IF project.set[x] # None THEN overrideValue(d, project.set[x]) ELSE d.default

\* The value of x if it is declared as d; None is an error.
Chosen(x, d) ==
    IF project.set[x] # None THEN overrideValue(d, project.set[x])
    ELSE IF project.values[x] # None THEN project.values[x]
    ELSE d.default

BuildEvalContext ==
    /\ phase = "evaluate"
    /\ \A x \in Variable : declared[x] # None => Chosen(x, declared[x]) # None
    /\ context' = [x \in Variable |->
           IF declared[x] # None THEN Chosen(x, declared[x]) ELSE project.values[x]]
    /\ phase' = "done"
    /\ UNCHANGED <<project, level, next, declared, ingressDefaults, images>>

\* A required variable has no value, or --set does not fit its declaration.
EvaluationFails ==
    /\ phase = "evaluate"
    /\ \E x \in Variable : declared[x] # None /\ Chosen(x, declared[x]) = None
    /\ Fail

\* The load has returned.
Finished == phase \in {"done", "failed"} /\ UNCHANGED vars

Next ==
    \/ SkipDirectory \/ OpenVars \/ MergeNext \/ VariableFileFails \/ FinishWalk
    \/ LoadValuesFile \/ ScanImages \/ FinishImages \/ ReadFails
    \/ BuildEvalContext \/ EvaluationFails
    \/ Finished

Spec == Init /\ [][Next]_vars
-----------------------------------------------------------------------------
\* Every variable holds a value of its type; the values definition files see
\* are values, never the text of a flag.
TypeOK ==
    /\ project \in Project
    /\ phase \in Phase
    /\ level \in 1 .. Depth + 1
    /\ next \in Nat \ {0}
    /\ declared \in [Variable -> Decl \cup {None}]
    /\ ingressDefaults \in Defaults \cup {None}
    /\ images \in ImageTable
    /\ context \in [Variable -> Value \cup {None}]

(***************************************************************************)
(* Precedence as the documents give it (docs/variables.md, the comment of  *)
(* LoadVariablesWalk): deeper directories over shallower ones; in one      *)
(* directory vars.kdef over --vars-from over its imports; later files over *)
(* earlier ones.                                                           *)
(***************************************************************************)
RankOf(tier) == IF tier = "own" THEN 3 ELSE IF tier = "varsFrom" THEN 2 ELSE 1

Outranks(s, t) ==
    \/ s.level > t.level
    \/ s.level = t.level /\ RankOf(s.tier) > RankOf(t.tier)
    \/ s.level = t.level /\ s.tier = t.tier /\ s.pos > t.pos

HasVars == {l \in Level : project.vars[l] # None}

\* The files that count for the project.
SourcesOf(l) ==
    {[level |-> l, tier |-> "own", pos |-> 1, file |-> project.vars[l]]}
    \cup {[level |-> l, tier |-> "import", pos |-> k, file |-> ImportsAt(l)[k]] :
              k \in 1 .. Len(ImportsAt(l))}
    \cup {[level |-> l, tier |-> "varsFrom", pos |-> k, file |-> VarsFromAt(l)[k]] :
              k \in 1 .. Len(VarsFromAt(l))}

Sources == UNION {SourcesOf(l) : l \in HasVars}

\* d is what the files of S make of x: nothing, if none of them declares it, and
\* otherwise the declaration of the one that outranks the others.
InForce(x, d, S) ==
    IF d = None
    THEN \A s \in S : Declares[s.file][x] = None
    ELSE \E s \in S :
            /\ Declares[s.file][x] = d
            /\ \A t \in S : Declares[t.file][x] # None => t = s \/ Outranks(s, t)

Loaded == phase \in {"values", "images", "evaluate", "done"}

\* When the walk is over, each variable has the declaration that the documents
\* put first, whatever files lie in between declare; and when the load succeeds
\* its value is the --set flag as that declaration types it, or else what the
\* values file says, or else the default of that declaration.
ResolvesAsDocumented ==
    /\ Loaded => \A x \in Variable : InForce(x, declared[x], Sources)
    /\ phase = "done" =>
          \A x \in Variable : LET d == declared[x] IN
              /\ d # None /\ project.set[x] # None =>
                    context[x] = Converted[d.type][project.set[x]]
              /\ d = None \/ project.set[x] = None =>
                    context[x] = IF project.values[x] # None \/ d = None
                                 THEN project.values[x] ELSE d.default

\* --set gives x a value that suits declaration d.
SetFits(x, d) ==
    /\ d.type # "structured"
    /\ d.allowed # {} => project.set[x] \in d.allowed
    /\ Converted[d.type][project.set[x]] # None

HasValue(x, d) ==
    IF project.set[x] # None THEN SetFits(x, d)
    ELSE project.values[x] # None \/ d.default # None

\* A load succeeds only if every file that counts is sound and every declared
\* variable has a value, and fails only if one is not: no error is dropped on the
\* way and none is made up by the order in which files are read.
Sound ==
    /\ \A s \in Sources : s.file \notin Broken
    /\ project.values # Unreadable
    /\ \A l \in Level : project.images[l] # Unreadable
    /\ \A x \in Variable, s \in Sources : LET d == Declares[s.file][x] IN
          d # None /\ InForce(x, d, Sources) => HasValue(x, d)

LoadsExactlyTheSound ==
    /\ phase = "done" => Sound
    /\ phase = "failed" => ~Sound

\* "If ingress_defaults is defined in both vars.kdef and an imported file,
\* vars.kdef takes precedence" (docs/variables.md), of one directory or another:
\* the deepest vars.kdef that has defaults decides.
OwnDefaultsPrevail ==
    Loaded =>
        \A l \in HasVars :
            /\ DefaultsOf[project.vars[l]] # None
            /\ \A m \in HasVars : DefaultsOf[project.vars[m]] # None => m <= l
            => ingressDefaults = DefaultsOf[project.vars[l]]

\* Each image stands for what the last of the first n directories that names it says.
NearestUpTo(n) ==
    \A i \in Image :
        \/ images[i] = None /\ \A l \in 1 .. n : project.images[l][i] = None
        \/ \E l \in 1 .. n :
              /\ images[i] # None /\ images[i] = project.images[l][i]
              /\ \A m \in 1 .. n : m > l => project.images[m][i] = None

\* "Definitions closer to fromDir override those from ancestor directories": each
\* image stands for what the nearest directory that names it says.
NearestImageWins == phase \in {"evaluate", "done"} => NearestUpTo(Depth)

(***************************************************************************)
(* The properties above speak of the end of a loop.  The inductive         *)
(* invariant says the same of the files and directories read so far.       *)
(***************************************************************************)
Merged ==
    {s \in Sources :
        \/ s.level < level
        \/ phase = "merge" /\ \E k \in 1 .. next - 1 : s = SourceAt(level, k)}

WalkedSoFar ==
    /\ phase = "merge" =>
          /\ level \in HasVars /\ project.vars[level] \notin Broken
          /\ next \in 1 .. SourceCount(level)
    /\ phase \in {"walk", "merge"} =>
          /\ \A x \in Variable : InForce(x, declared[x], Merged)
          /\ \A s \in Merged : s.file \notin Broken
    /\ Loaded =>
          /\ \A x \in Variable : InForce(x, declared[x], Sources)
          /\ \A s \in Sources : s.file \notin Broken

DefaultsSoFar ==
    phase \in {"walk", "merge"} =>
        \A l \in HasVars :
            /\ l < level /\ DefaultsOf[project.vars[l]] # None
            /\ \A m \in HasVars : m < level /\ DefaultsOf[project.vars[m]] # None => m <= l
            => ingressDefaults = DefaultsOf[project.vars[l]]

ScannedSoFar ==
    /\ phase \in {"images", "evaluate", "done"} => project.values # Unreadable
    /\ phase = "images" =>
          /\ \A l \in 1 .. level - 1 : project.images[l] # Unreadable
          /\ NearestUpTo(level - 1)
    /\ phase \in {"evaluate", "done"} => \A l \in Level : project.images[l] # Unreadable
    /\ phase \in {"walk", "merge", "values"} => images = [i \in Image |-> None]

IInv ==
    /\ TypeOK /\ WalkedSoFar /\ DefaultsSoFar /\ ScannedSoFar
    /\ ResolvesAsDocumented /\ LoadsExactlyTheSound /\ OwnDefaultsPrevail /\ NearestImageWins

\* "varsFromFiles is applied between imports and local vars at the deepest level":
\* what a --vars-from file declares is declared when the load succeeds.
VarsFromApplies ==
    phase = "done" =>
        \A k \in 1 .. Len(project.varsFrom), x \in Variable :
            Declares[project.varsFrom[k]][x] # None => declared[x] # None
=============================================================================
