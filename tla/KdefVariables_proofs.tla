------------------------ MODULE KdefVariables_proofs ------------------------
(***************************************************************************)
(* Proofs about KdefVariables: the walk gives every variable the           *)
(* declaration that the documented precedence puts first, and a load       *)
(* succeeds exactly if the project is sound.                               *)
(***************************************************************************)
EXTENDS KdefVariables, TLAPS

USE ConstantsAssumption DEF Level

SourceType ==
    [level: Level, tier: {"import", "varsFrom", "own"}, pos: Nat, file: File]

\* Everything that is known of a project.
LEMMA ProjectTyped ==
    ASSUME project \in Project
    PROVE  /\ project.vars \in [Level -> File \cup {None}]
           /\ project.varsFrom \in Seq(File)
           /\ project.set \in [Variable -> Text \cup {None}]
           /\ project.values \in [Variable -> Value \cup {None}] \cup {Unreadable}
           /\ project.images \in [Level -> ImageTable \cup {Unreadable}]
BY DEF ProjectType

\* A directory with a vars.kdef has a number of files to merge, its own last.
LEMMA SourcesCounted ==
    ASSUME project \in Project, NEW l \in HasVars
    PROVE  /\ l \in Level
           /\ project.vars[l] \in File
           /\ ImportsAt(l) \in Seq(File)
           /\ VarsFromAt(l) \in Seq(File)
           /\ Len(ImportsAt(l)) \in Nat
           /\ Len(VarsFromAt(l)) \in Nat
           /\ SourceCount(l) \in Nat \ {0}
           /\ SourceCount(l) = Len(ImportsAt(l)) + Len(VarsFromAt(l)) + 1
<1>1. l \in Level /\ project.vars[l] \in File
  BY ProjectTyped DEF HasVars
<1>2. ImportsAt(l) \in Seq(File) /\ VarsFromAt(l) \in Seq(File)
  BY <1>1, ProjectTyped DEF ImportsAt, VarsFromAt
<1>3. Len(ImportsAt(l)) \in Nat /\ Len(VarsFromAt(l)) \in Nat
  BY <1>2
<1>4. QED
  BY <1>1, <1>2, <1>3 DEF SourceCount

\* What the k-th file of a directory is.
LEMMA SourceAtTyped ==
    ASSUME project \in Project, NEW l \in HasVars, NEW k \in 1 .. SourceCount(l)
    PROVE  /\ SourceAt(l, k) \in SourceType
           /\ SourceAt(l, k).level = l
           /\ SourceAt(l, k).tier = "own" <=> k = SourceCount(l)
           /\ k = SourceCount(l) => SourceAt(l, k).file = project.vars[l]
<1> DEFINE i == Len(ImportsAt(l))
           v == Len(VarsFromAt(l))
<1>1. /\ l \in Level /\ project.vars[l] \in File
      /\ ImportsAt(l) \in Seq(File) /\ VarsFromAt(l) \in Seq(File)
      /\ i \in Nat /\ v \in Nat /\ SourceCount(l) = i + v + 1
  BY SourcesCounted
<1>2. CASE k <= i
  <2>1. ImportsAt(l)[k] \in File
    BY <1>1, <1>2
  <2>2. QED
    BY <1>1, <1>2, <2>1 DEF SourceAt, SourceType
<1>3. CASE k > i /\ k < i + v + 1
  <2>1. k - i \in 1 .. v /\ k - i \in Nat
    BY <1>1, <1>3
  <2>2. VarsFromAt(l)[k - i] \in File
    BY <1>1, <2>1
  <2>3. SourceAt(l, k) = [level |-> l, tier |-> "varsFrom", pos |-> k - i,
                          file |-> VarsFromAt(l)[k - i]]
    BY <1>1, <1>3 DEF SourceAt
  <2>4. QED
    BY <1>1, <1>3, <2>1, <2>2, <2>3 DEF SourceType
<1>4. CASE k = i + v + 1
  BY <1>1, <1>4 DEF SourceAt, SourceType
<1>5. k <= i \/ (k > i /\ k < i + v + 1) \/ k = i + v + 1
  <2> HIDE DEF i, v
  <2>1. i \in Nat /\ v \in Nat /\ k \in 1 .. i + v + 1
    BY <1>1
  <2>2. QED
    BY <2>1
<1>6. QED
  BY <1>2, <1>3, <1>4, <1>5

\* The files that count are the files the walk merges.
LEMMA SourcesEnumerated ==
    ASSUME project \in Project
    PROVE  /\ \A l \in HasVars : \A k \in 1 .. SourceCount(l) : SourceAt(l, k) \in Sources
           /\ \A s \in Sources : \E l \in HasVars : \E k \in 1 .. SourceCount(l) :
                  s = SourceAt(l, k)
<1>1. ASSUME NEW l \in HasVars, NEW k \in 1 .. SourceCount(l)
      PROVE  SourceAt(l, k) \in SourcesOf(l)
  <2>1. CASE k <= Len(ImportsAt(l))
    <3>1. k \in 1 .. Len(ImportsAt(l))
      BY <2>1, SourcesCounted
    <3>2. QED
      BY <2>1, <3>1 DEF SourceAt, SourcesOf
  <2>2. CASE k > Len(ImportsAt(l)) /\ k - Len(ImportsAt(l)) \in 1 .. Len(VarsFromAt(l))
    <3>1. SourceAt(l, k) = [level |-> l, tier |-> "varsFrom", pos |-> k - Len(ImportsAt(l)),
                            file |-> VarsFromAt(l)[k - Len(ImportsAt(l))]]
      BY <2>2, SourcesCounted DEF SourceAt
    <3>2. QED
      BY <2>2, <3>1 DEF SourcesOf
  <2>3. CASE k = Len(ImportsAt(l)) + Len(VarsFromAt(l)) + 1
    <3>1. SourceAt(l, k) = [level |-> l, tier |-> "own", pos |-> 1, file |-> project.vars[l]]
      BY <2>3, SourcesCounted DEF SourceAt
    <3>2. QED
      BY <3>1 DEF SourcesOf
  <2>4. QED
    BY <2>1, <2>2, <2>3, SourcesCounted
<1>2. ASSUME NEW l \in HasVars, NEW s \in SourcesOf(l)
      PROVE  \E k \in 1 .. SourceCount(l) : s = SourceAt(l, k)
  <2>1. CASE s = [level |-> l, tier |-> "own", pos |-> 1, file |-> project.vars[l]]
    <3>1. /\ SourceCount(l) \in 1 .. SourceCount(l)
          /\ s = SourceAt(l, SourceCount(l))
      BY <2>1, SourcesCounted DEF SourceAt
    <3>2. QED
      BY <3>1
  <2>2. CASE s \in {[level |-> l, tier |-> "import", pos |-> k, file |-> ImportsAt(l)[k]] :
                        k \in 1 .. Len(ImportsAt(l))}
    <3>1. PICK k \in 1 .. Len(ImportsAt(l)) :
              s = [level |-> l, tier |-> "import", pos |-> k, file |-> ImportsAt(l)[k]]
      BY <2>2
    <3>2. k \in 1 .. SourceCount(l) /\ s = SourceAt(l, k)
      BY <3>1, SourcesCounted DEF SourceAt
    <3>3. QED
      BY <3>2
  <2>3. CASE s \in {[level |-> l, tier |-> "varsFrom", pos |-> k, file |-> VarsFromAt(l)[k]] :
                        k \in 1 .. Len(VarsFromAt(l))}
    <3>1. PICK k \in 1 .. Len(VarsFromAt(l)) :
              s = [level |-> l, tier |-> "varsFrom", pos |-> k, file |-> VarsFromAt(l)[k]]
      BY <2>3
    <3> DEFINE j == Len(ImportsAt(l)) + k
    <3>2. /\ j \in 1 .. SourceCount(l)
          /\ ~(j <= Len(ImportsAt(l))) /\ j < SourceCount(l)
          /\ j - Len(ImportsAt(l)) = k
      BY SourcesCounted
    <3>3. s = SourceAt(l, j)
      BY <3>1, <3>2 DEF SourceAt
    <3>4. QED
      BY <3>2, <3>3
  <2>4. QED
    BY <2>1, <2>2, <2>3 DEF SourcesOf
<1>3. QED
  BY <1>1, <1>2 DEF Sources

\* The walk merges the files in the order of the documented precedence.
LEMMA WalkedInOrder ==
    ASSUME project \in Project,
           NEW l \in HasVars, NEW k \in 1 .. SourceCount(l),
           NEW m \in HasVars, NEW j \in 1 .. SourceCount(m),
           m < l \/ (m = l /\ j < k)
    PROVE  Outranks(SourceAt(l, k), SourceAt(m, j))
<1> DEFINE s == SourceAt(l, k)
           t == SourceAt(m, j)
<1>1. s.level = l /\ t.level = m
  BY SourceAtTyped
<1>2. CASE m < l
  BY <1>1, <1>2 DEF Outranks
<1>3. CASE m = l /\ j < k
  <2>1. CASE j <= Len(ImportsAt(l))
    <3>1. t.tier = "import" /\ t.pos = j
      BY <1>3, <2>1, SourcesCounted DEF SourceAt
    <3>2. s.tier \in {"varsFrom", "own"} \/ (s.tier = "import" /\ s.pos = k)
      BY SourcesCounted DEF SourceAt
    <3>3. QED
      BY <1>1, <1>3, <3>1, <3>2 DEF Outranks, RankOf
  <2>2. CASE ~(j <= Len(ImportsAt(l)))
    <3>1. t.tier = "varsFrom" /\ t.pos = j - Len(ImportsAt(l))
      BY <1>3, <2>2, SourcesCounted DEF SourceAt
    <3>2. \/ s.tier = "own"
          \/ s.tier = "varsFrom" /\ s.pos = k - Len(ImportsAt(l))
      BY <1>3, <2>2, SourcesCounted DEF SourceAt
    <3>3. QED
      BY <1>1, <1>3, <2>2, <3>1, <3>2, SourcesCounted DEF Outranks, RankOf
  <2>3. QED
    BY <2>1, <2>2
<1>4. QED
  BY <1>2, <1>3

\* What a set of files makes of a variable is unique.
LEMMA InForceUnique ==
    ASSUME NEW x \in Variable, NEW S \in SUBSET SourceType,
           NEW d \in Decl \cup {None}, NEW e \in Decl \cup {None},
           InForce(x, d, S), InForce(x, e, S)
    PROVE  d = e
<1>1. CASE d = None
  BY <1>1 DEF InForce
<1>2. CASE e = None
  BY <1>2 DEF InForce
<1>3. CASE d # None /\ e # None
  <2>1. PICK s \in S :
            /\ Declares[s.file][x] = d
            /\ \A t \in S : Declares[t.file][x] # None => t = s \/ Outranks(s, t)
    BY <1>3 DEF InForce
  <2>2. PICK u \in S :
            /\ Declares[u.file][x] = e
            /\ \A t \in S : Declares[t.file][x] # None => t = u \/ Outranks(u, t)
    BY <1>3 DEF InForce
  <2>3. s \in SourceType /\ u \in SourceType
    OBVIOUS
  <2>4. ~(Outranks(s, u) /\ Outranks(u, s))
    BY <2>3 DEF Outranks, RankOf, SourceType
  <2>5. QED
    BY <1>3, <2>1, <2>2, <2>4
<1>4. QED
  BY <1>1, <1>2, <1>3

\* Reading one more file that outranks those read before.
LEMMA InForceExtended ==
    ASSUME NEW x \in Variable, NEW S, NEW d, NEW s,
           InForce(x, d, S),
           \A t \in S : Outranks(s, t)
    PROVE  InForce(x, IF Declares[s.file][x] # None THEN Declares[s.file][x] ELSE d,
                   S \cup {s})
BY DEF InForce
-----------------------------------------------------------------------------
(***************************************************************************)
(* Nothing changes the project, so nothing changes which files count.      *)
(***************************************************************************)
LEMMA ProjectFixed ==
    ASSUME [Next]_vars
    PROVE  project' = project
BY DEF Next, vars, SkipDirectory, OpenVars, MergeNext, VariableFileFails, FinishWalk,
       LoadValuesFile, ScanImages, FinishImages, ReadFails, BuildEvalContext,
       EvaluationFails, Finished, Fail

LEMMA SourcesFixed ==
    ASSUME project' = project
    PROVE  /\ HasVars' = HasVars
           /\ Sources' = Sources
           /\ \A l : SourceCount(l)' = SourceCount(l)
           /\ \A l, k : SourceAt(l, k)' = SourceAt(l, k)
<1>1. HasVars' = HasVars
  BY DEF HasVars
<1>2. \A l : ImportsAt(l)' = ImportsAt(l) /\ VarsFromAt(l)' = VarsFromAt(l)
  BY DEF ImportsAt, VarsFromAt
<1>3. \A l : SourceCount(l)' = SourceCount(l)
  BY <1>2 DEF SourceCount
<1>4. \A l, k : SourceAt(l, k)' = SourceAt(l, k)
  BY <1>2, <1>3 DEF SourceAt
<1>5. \A l : SourcesOf(l)' = SourcesOf(l)
  BY <1>2 DEF SourcesOf
<1>6. QED
  BY <1>1, <1>3, <1>4, <1>5 DEF Sources

\* Files that count have a type.
LEMMA SourcesTyped ==
    ASSUME project \in Project
    PROVE  Sources \subseteq SourceType
BY SourcesEnumerated, SourceAtTyped

\* A value --set gives is the declared type's, and there is one if it fits.
LEMMA OverrideFits ==
    ASSUME NEW x \in Variable, NEW d \in Decl, project \in Project, project.set[x] # None
    PROVE  /\ overrideValue(d, project.set[x]) \in Value \cup {None}
           /\ overrideValue(d, project.set[x]) # None <=> SetFits(x, d)
           /\ overrideValue(d, project.set[x]) # None =>
                 overrideValue(d, project.set[x]) = Converted[d.type][project.set[x]]
<1>1. project.set[x] \in Text
  BY ProjectTyped
<1>2. CASE d.type = "structured"
  BY <1>2 DEF overrideValue, SetFits
<1>3. CASE d.type \in {"string", "number", "bool"}
  <2>1. Converted[d.type][project.set[x]] \in Value \cup {None}
    BY <1>1, <1>3
  <2>2. QED
    BY <1>3, <2>1 DEF overrideValue, SetFits
<1>4. QED
  BY <1>2, <1>3 DEF Decl

\* What a declared variable gets, and whether it gets anything.
LEMMA ChosenHasValue ==
    ASSUME NEW x \in Variable, NEW d \in Decl, project \in Project,
           project.values # Unreadable
    PROVE  /\ Chosen(x, d) \in Value \cup {None}
           /\ Chosen(x, d) # None <=> HasValue(x, d)
<1>1. project.values[x] \in Value \cup {None}
  BY ProjectTyped
<1>2. d.default \in Value \cup {None}
  BY DEF Decl
<1>3. QED
  BY <1>1, <1>2, OverrideFits DEF Chosen, HasValue
-----------------------------------------------------------------------------
LEMMA InitEstablishes ==
    Init => IInv
<1> SUFFICES ASSUME Init PROVE IInv
  OBVIOUS
<1>1. TypeOK
  BY DEF Init, TypeOK, Phase, Undefined, ImageTable
<1>2. Merged = {}
  <2>1. \A s \in Sources : s.level \in Level
    BY SourcesTyped DEF Init, SourceType
  <2>2. QED
    BY <2>1 DEF Merged, Init
<1>3. WalkedSoFar
  BY <1>2 DEF Init, WalkedSoFar, Loaded, InForce, Undefined
<1>4. DefaultsSoFar
  BY DEF Init, DefaultsSoFar, HasVars
<1>5. ScannedSoFar
  BY DEF Init, ScannedSoFar
<1>6. QED
  BY <1>1, <1>3, <1>4, <1>5
  DEF Init, IInv, ResolvesAsDocumented, LoadsExactlyTheSound, OwnDefaultsPrevail,
      NearestImageWins, Loaded

LEMMA NextTyped ==
    ASSUME IInv, [Next]_vars
    PROVE  TypeOK'
<1>0. TypeOK /\ WalkedSoFar /\ ScannedSoFar
  BY DEF IInv
<1>1. CASE SkipDirectory
  BY <1>0, <1>1 DEF SkipDirectory, TypeOK
<1>2. CASE OpenVars
  BY <1>0, <1>2 DEF OpenVars, TypeOK, Phase
<1>3. CASE MergeNext
  <2> DEFINE s == SourceAt(level, next)
  <2>1. level \in HasVars /\ next \in 1 .. SourceCount(level)
    BY <1>0, <1>3 DEF MergeNext, WalkedSoFar
  <2>2. s.file \in File
    BY <1>0, <2>1, SourceAtTyped DEF TypeOK, SourceType
  <2>3. declared' \in [Variable -> Decl \cup {None}]
    BY <1>0, <1>3, <2>2 DEF MergeNext, TypeOK
  <2>4. ingressDefaults' \in Defaults \cup {None}
    BY <1>0, <1>3, <2>2 DEF MergeNext, MergedDefaults, TypeOK
  <2>5. phase' \in Phase /\ level' \in 1 .. Depth + 1 /\ next' \in Nat \ {0}
    BY <1>0, <1>3, <2>1, SourcesCounted DEF MergeNext, TypeOK, Phase
  <2>6. QED
    BY <1>0, <1>3, <2>3, <2>4, <2>5 DEF MergeNext, TypeOK
<1>4. CASE VariableFileFails
  BY <1>0, <1>4 DEF VariableFileFails, Fail, TypeOK, Phase
<1>5. CASE FinishWalk
  BY <1>0, <1>5 DEF FinishWalk, TypeOK, Phase
<1>6. CASE LoadValuesFile
  BY <1>0, <1>6 DEF LoadValuesFile, TypeOK, Phase
<1>7. CASE ScanImages
  <2>1. project.images[level] \in ImageTable
    BY <1>0, <1>7, ProjectTyped DEF ScanImages, TypeOK
  <2>2. images' \in ImageTable
    BY <1>0, <1>7, <2>1 DEF ScanImages, MergedImages, TypeOK, ImageTable
  <2>3. QED
    BY <1>0, <1>7, <2>2 DEF ScanImages, TypeOK
<1>8. CASE FinishImages
  BY <1>0, <1>8 DEF FinishImages, TypeOK, Phase
<1>9. CASE ReadFails
  BY <1>0, <1>9 DEF ReadFails, Fail, TypeOK, Phase
<1>10. CASE BuildEvalContext
  <2>1. project \in Project /\ project.values # Unreadable
    BY <1>0, <1>10 DEF BuildEvalContext, TypeOK, ScannedSoFar
  <2>2. \A x \in Variable : project.values[x] \in Value \cup {None}
    BY <2>1, ProjectTyped
  <2>3. \A x \in Variable : declared[x] # None => Chosen(x, declared[x]) \in Value \cup {None}
    BY <1>0, <2>1, ChosenHasValue DEF TypeOK
  <2>4. context' \in [Variable -> Value \cup {None}]
    BY <1>10, <2>2, <2>3 DEF BuildEvalContext
  <2>5. QED
    BY <1>0, <1>10, <2>4 DEF BuildEvalContext, TypeOK, Phase
<1>11. CASE EvaluationFails
  BY <1>0, <1>11 DEF EvaluationFails, Fail, TypeOK, Phase
<1>12. CASE UNCHANGED vars
  BY <1>0, <1>12 DEF vars, TypeOK
<1>13. QED
  BY <1>1, <1>2, <1>3, <1>4, <1>5, <1>6, <1>7, <1>8, <1>9, <1>10, <1>11, <1>12
  DEF Next, Finished
-----------------------------------------------------------------------------
\* The files merged when one more is: those of before and that one; and the last
\* one of a directory completes it.
LEMMA MergedGrows ==
    ASSUME IInv, MergeNext
    PROVE  LET s == SourceAt(level, next)
           IN  /\ s \in Sources
               /\ Merged' = Merged \cup {s}
               /\ \A t \in Merged : Outranks(s, t)
<1> DEFINE s == SourceAt(level, next)
<1>0. TypeOK /\ WalkedSoFar /\ project \in Project /\ project' = project
  BY DEF IInv, TypeOK, MergeNext
<1>1. /\ phase = "merge" /\ level \in HasVars /\ next \in 1 .. SourceCount(level)
      /\ level \in Level /\ SourceCount(level) \in Nat
  BY <1>0, SourcesCounted DEF MergeNext, WalkedSoFar
<1>2. s \in Sources
  BY <1>0, <1>1, SourcesEnumerated
<1>3. \A t \in Merged : Outranks(s, t)
  <2> SUFFICES ASSUME NEW t \in Merged PROVE Outranks(s, t)
    OBVIOUS
  <2>1. PICK m \in HasVars : \E j \in 1 .. SourceCount(m) : t = SourceAt(m, j)
    BY <1>0, SourcesEnumerated DEF Merged
  <2>2. CASE t.level < level
    <3>1. PICK j \in 1 .. SourceCount(m) : t = SourceAt(m, j)
      BY <2>1
    <3>2. t.level = m
      BY <1>0, <3>1, SourceAtTyped
    <3>3. QED
      BY <1>0, <1>1, <2>2, <3>1, <3>2, WalkedInOrder
  <2>3. CASE \E k \in 1 .. next - 1 : t = SourceAt(level, k)
    <3>1. PICK k \in 1 .. next - 1 : t = SourceAt(level, k)
      BY <2>3
    <3>2. k \in 1 .. SourceCount(level) /\ k < next
      BY <1>1
    <3>3. QED
      BY <1>0, <1>1, <3>1, <3>2, WalkedInOrder
  <2>4. QED
    BY <2>2, <2>3 DEF Merged
<1>4. \A t \in Sources : t \in Merged' <=> t \in Merged \cup {s}
  <2> SUFFICES ASSUME NEW t \in Sources PROVE t \in Merged' <=> t \in Merged \cup {s}
    OBVIOUS
  <2>1. /\ Sources' = Sources
        /\ \A k : SourceAt(level, k)' = SourceAt(level', k)
        /\ \A l, k : SourceAt(l, k)' = SourceAt(l, k)
    BY <1>0, SourcesFixed
  <2>2. t.level \in Level /\ s.level = level
    BY <1>0, <1>1, SourcesTyped, SourceAtTyped DEF SourceType
  <2>3. CASE next < SourceCount(level)
    <3>1. phase' = "merge" /\ level' = level /\ next' = next + 1
      BY <1>1, <2>3 DEF MergeNext
    <3>2. t \in Merged' <=>
            t.level < level \/ \E k \in 1 .. next : t = SourceAt(level, k)
      BY <1>1, <2>1, <3>1 DEF Merged
    <3>3. (\E k \in 1 .. next : t = SourceAt(level, k)) <=>
             t = s \/ \E k \in 1 .. next - 1 : t = SourceAt(level, k)
      BY <1>1
    <3>4. QED
      BY <1>1, <3>2, <3>3 DEF Merged
  <2>4. CASE ~(next < SourceCount(level))
    <3>1. phase' = "walk" /\ level' = level + 1 /\ next = SourceCount(level)
      BY <1>1, <2>4 DEF MergeNext
    <3>2. t \in Merged' <=> t.level < level \/ t.level = level
      BY <1>1, <2>1, <2>2, <3>1 DEF Merged
    <3>3. t.level = level <=> \E k \in 1 .. next : t = SourceAt(level, k)
      <4>1. ASSUME t.level = level PROVE \E k \in 1 .. next : t = SourceAt(level, k)
        <5>1. PICK m \in HasVars : \E j \in 1 .. SourceCount(m) : t = SourceAt(m, j)
          BY <1>0, SourcesEnumerated
        <5>2. m = level
          BY <1>0, <4>1, <5>1, SourceAtTyped
        <5>3. QED
          BY <3>1, <5>1, <5>2
      <4>2. QED
        BY <1>0, <1>1, <3>1, <4>1, SourceAtTyped
    <3>4. (\E k \in 1 .. next : t = SourceAt(level, k)) <=>
             t = s \/ \E k \in 1 .. next - 1 : t = SourceAt(level, k)
      BY <1>1
    <3>5. QED
      BY <1>1, <3>2, <3>3, <3>4 DEF Merged
  <2>5. QED
    BY <2>3, <2>4
<1>5. Merged' \subseteq Sources /\ Merged \subseteq Sources
  BY <1>0, SourcesFixed DEF Merged
<1>6. QED
  BY <1>2, <1>3, <1>4, <1>5

\* The walk over the directories keeps to the precedence.
LEMMA NextWalked ==
    ASSUME IInv, [Next]_vars
    PROVE  WalkedSoFar'
<1>0. /\ TypeOK /\ WalkedSoFar /\ project \in Project /\ project' = project
  BY ProjectFixed DEF IInv, TypeOK
<1>a. /\ HasVars' = HasVars /\ Sources' = Sources
      /\ \A l : SourceCount(l)' = SourceCount(l)
      /\ \A l, k : SourceAt(l, k)' = SourceAt(l, k)
  BY <1>0, SourcesFixed
<1>b. \A s \in Sources : s.level \in Level /\ s.level \in HasVars
  <2> SUFFICES ASSUME NEW s \in Sources PROVE s.level \in Level /\ s.level \in HasVars
    OBVIOUS
  <2>1. PICK l \in HasVars : \E k \in 1 .. SourceCount(l) : s = SourceAt(l, k)
    BY <1>0, SourcesEnumerated
  <2>2. QED
    BY <1>0, <2>1, SourceAtTyped, SourcesCounted
<1>1. CASE SkipDirectory
  <2>1. level \notin HasVars /\ level \in Level
    BY <1>0, <1>1 DEF SkipDirectory, HasVars, TypeOK
  <2>2. Merged' = Merged
    BY <1>a, <1>b, <1>1, <2>1 DEF SkipDirectory, Merged
  <2>3. QED
    BY <1>0, <1>1, <2>2 DEF SkipDirectory, WalkedSoFar, Loaded, InForce
<1>2. CASE OpenVars
  <2>1. Merged' = Merged
    BY <1>a, <1>2 DEF OpenVars, Merged
  <2>2. level \in HasVars
    BY <1>0, <1>2 DEF OpenVars, HasVars, TypeOK
  <2>3. 1 \in 1 .. SourceCount(level)
    BY <1>0, <2>2, SourcesCounted
  <2>4. QED
    BY <1>0, <1>a, <1>2, <2>1, <2>2, <2>3 DEF OpenVars, WalkedSoFar, Loaded, InForce
<1>3. CASE MergeNext
  <2> DEFINE s == SourceAt(level, next)
  <2>1. /\ Merged' = Merged \cup {s}
        /\ \A t \in Merged : Outranks(s, t)
    BY <1>3, MergedGrows
  <2>2. \A x \in Variable : InForce(x, declared'[x], Merged')
    <3> SUFFICES ASSUME NEW x \in Variable PROVE InForce(x, declared'[x], Merged')
      OBVIOUS
    <3>1. InForce(x, declared[x], Merged)
      BY <1>0, <1>3 DEF MergeNext, WalkedSoFar
    <3>2. declared'[x] = IF Declares[s.file][x] # None THEN Declares[s.file][x] ELSE declared[x]
      BY <1>3 DEF MergeNext
    <3>3. QED
      BY <2>1, <3>1, <3>2, InForceExtended
  <2>3. \A t \in Merged' : t.file \notin Broken
    BY <1>0, <1>3, <2>1 DEF MergeNext, WalkedSoFar
  <2>4. phase' = "merge" =>
           /\ level' \in HasVars' /\ project'.vars[level'] \notin Broken
           /\ next' \in 1 .. SourceCount(level)
           /\ level' = level
    BY <1>0, <1>a, <1>3, SourcesCounted DEF MergeNext, WalkedSoFar
  <2>5. phase' \in {"walk", "merge"}
    BY <1>3 DEF MergeNext
  <2>6. QED
    BY <1>a, <2>2, <2>3, <2>4, <2>5 DEF WalkedSoFar, Loaded, InForce
<1>4. CASE VariableFileFails \/ ReadFails \/ EvaluationFails
  BY <1>4 DEF VariableFileFails, ReadFails, EvaluationFails, Fail, WalkedSoFar, Loaded
<1>5. CASE FinishWalk
  <2>1. Merged = Sources
    BY <1>0, <1>b, <1>5 DEF FinishWalk, Merged
  <2>2. QED
    BY <1>0, <1>a, <1>5, <2>1 DEF FinishWalk, WalkedSoFar, Loaded, InForce
<1>6. CASE LoadValuesFile \/ ScanImages \/ FinishImages \/ BuildEvalContext
  BY <1>0, <1>a, <1>6
  DEF LoadValuesFile, ScanImages, FinishImages, BuildEvalContext, WalkedSoFar, Loaded, InForce
<1>7. CASE UNCHANGED vars
  <2>1. Merged' = Merged
    BY <1>a, <1>7 DEF vars, Merged
  <2>2. QED
    BY <1>0, <1>a, <1>7, <2>1 DEF vars, WalkedSoFar, Loaded, InForce
<1>8. QED
  BY <1>1, <1>2, <1>3, <1>4, <1>5, <1>6, <1>7 DEF Next, Finished

\* Defaults of a vars.kdef stay until a deeper vars.kdef has some.
LEMMA NextDefaults ==
    ASSUME IInv, [Next]_vars
    PROVE  DefaultsSoFar'
<1>0. /\ TypeOK /\ WalkedSoFar /\ DefaultsSoFar /\ project \in Project /\ project' = project
      /\ HasVars' = HasVars
  BY ProjectFixed, SourcesFixed DEF IInv, TypeOK
<1>1. CASE SkipDirectory
  <2>1. level \notin HasVars /\ level \in Level
    BY <1>0, <1>1 DEF SkipDirectory, HasVars, TypeOK
  <2>2. \A m \in HasVars : m < level + 1 <=> m < level
    BY <2>1 DEF HasVars
  <2>3. QED
    BY <1>0, <1>1, <2>2 DEF SkipDirectory, DefaultsSoFar
<1>2. CASE MergeNext
  <2> DEFINE s == SourceAt(level, next)
  <2>1. /\ level \in HasVars /\ level \in Level /\ next \in 1 .. SourceCount(level)
        /\ SourceCount(level) \in Nat /\ phase = "merge"
    BY <1>0, <1>2, SourcesCounted DEF MergeNext, WalkedSoFar
  <2>2. /\ s.tier = "own" <=> next = SourceCount(level)
        /\ next = SourceCount(level) => s.file = project.vars[level]
        /\ s.file \in File
    BY <1>0, <2>1, SourceAtTyped DEF SourceType
  <2>3. CASE next < SourceCount(level)
    <3>1. level' = level /\ phase' = "merge"
      BY <1>2, <2>1, <2>3 DEF MergeNext
    <3>2. ingressDefaults # None => ingressDefaults' = ingressDefaults
      BY <1>2, <2>1, <2>2, <2>3 DEF MergeNext, MergedDefaults
    <3>3. QED
      BY <1>0, <2>1, <3>1, <3>2 DEF DefaultsSoFar
  <2>4. CASE next = SourceCount(level)
    <3>1. level' = level + 1 /\ phase' = "walk"
      BY <1>2, <2>1, <2>4 DEF MergeNext
    <3>2. ingressDefaults' = IF DefaultsOf[project.vars[level]] # None
                             THEN DefaultsOf[project.vars[level]] ELSE ingressDefaults
      BY <1>2, <2>2, <2>4 DEF MergeNext, MergedDefaults
    <3>3. \A m \in HasVars : m \in Nat /\ (m < level + 1 <=> m < level \/ m = level)
      BY <2>1 DEF HasVars
    <3>4. ASSUME NEW l \in HasVars, l < level + 1, DefaultsOf[project.vars[l]] # None,
                 \A m \in HasVars :
                     m < level + 1 /\ DefaultsOf[project.vars[m]] # None => m <= l
          PROVE  ingressDefaults' = DefaultsOf[project.vars[l]]
      <4>1. CASE l = level
        BY <3>2, <3>4, <4>1
      <4>2. CASE l < level
        <5>1. DefaultsOf[project.vars[level]] = None
          BY <2>1, <3>3, <3>4, <4>2
        <5>2. ingressDefaults = DefaultsOf[project.vars[l]]
          BY <1>0, <2>1, <3>3, <3>4, <4>2 DEF DefaultsSoFar
        <5>3. QED
          BY <3>2, <5>1, <5>2
      <4>3. QED
        BY <2>1, <3>3, <3>4, <4>1, <4>2
    <3>5. QED
      BY <1>0, <3>1, <3>4 DEF DefaultsSoFar
  <2>5. QED
    BY <2>1, <2>3, <2>4
<1>3. CASE OpenVars
  BY <1>0, <1>3 DEF OpenVars, DefaultsSoFar
<1>4. CASE VariableFileFails \/ ReadFails \/ EvaluationFails
  BY <1>4 DEF VariableFileFails, ReadFails, EvaluationFails, Fail, DefaultsSoFar
<1>5. CASE FinishWalk \/ LoadValuesFile \/ ScanImages \/ FinishImages \/ BuildEvalContext
  BY <1>5 DEF FinishWalk, LoadValuesFile, ScanImages, FinishImages, BuildEvalContext, DefaultsSoFar
<1>6. CASE UNCHANGED vars
  BY <1>0, <1>6 DEF vars, DefaultsSoFar
<1>7. QED
  BY <1>1, <1>2, <1>3, <1>4, <1>5, <1>6 DEF Next, Finished

\* When the walk ends, what holds of the directories so far holds of all.
LEMMA NextOwnDefaults ==
    ASSUME IInv, [Next]_vars
    PROVE  OwnDefaultsPrevail'
<1>0. /\ TypeOK /\ DefaultsSoFar /\ OwnDefaultsPrevail /\ project' = project /\ HasVars' = HasVars
  BY ProjectFixed, SourcesFixed DEF IInv
<1>1. CASE FinishWalk
  <2>1. \A m \in HasVars : m < level
    BY <1>1 DEF FinishWalk, HasVars
  <2>2. QED
    BY <1>0, <1>1, <2>1 DEF FinishWalk, DefaultsSoFar, OwnDefaultsPrevail
<1>2. CASE SkipDirectory \/ OpenVars \/ MergeNext \/ VariableFileFails \/ ReadFails \/ EvaluationFails
  BY <1>2 DEF SkipDirectory, OpenVars, MergeNext, VariableFileFails, ReadFails, EvaluationFails,
              Fail, OwnDefaultsPrevail, Loaded
<1>3. CASE LoadValuesFile \/ ScanImages \/ FinishImages \/ BuildEvalContext
  BY <1>0, <1>3 DEF LoadValuesFile, ScanImages, FinishImages, BuildEvalContext,
                    OwnDefaultsPrevail, Loaded
<1>4. CASE UNCHANGED vars
  BY <1>0, <1>4 DEF vars, OwnDefaultsPrevail, Loaded
<1>5. QED
  BY <1>1, <1>2, <1>3, <1>4 DEF Next, Finished

\* One more directory scanned for images.
LEMMA NearestExtended ==
    ASSUME project \in Project, project' = project, NEW n \in Level,
           images' = MergedImages(project.images[n]),
           NearestUpTo(n - 1)
    PROVE  \A i \in Image :
              \/ images'[i] = None /\ \A l \in 1 .. n : project.images[l][i] = None
              \/ \E l \in 1 .. n :
                    /\ images'[i] # None /\ images'[i] = project.images[l][i]
                    /\ \A m \in 1 .. n : m > l => project.images[m][i] = None
<1> SUFFICES ASSUME NEW i \in Image
             PROVE  \/ images'[i] = None /\ \A l \in 1 .. n : project.images[l][i] = None
                    \/ \E l \in 1 .. n :
                          /\ images'[i] # None /\ images'[i] = project.images[l][i]
                          /\ \A m \in 1 .. n : m > l => project.images[m][i] = None
  OBVIOUS
<1> DEFINE found == project.images[n]
<1>1. images'[i] = IF found[i] # None THEN found[i] ELSE images[i]
  BY DEF MergedImages
<1>2. \A l \in 1 .. n : l \in 1 .. n - 1 \/ l = n
  OBVIOUS
<1>3. CASE found[i] # None
  BY <1>1, <1>3
<1>4. CASE found[i] = None
  <2>1. images'[i] = images[i]
    BY <1>1, <1>4
  <2>2. CASE images[i] = None /\ \A l \in 1 .. n - 1 : project.images[l][i] = None
    BY <1>2, <1>4, <2>1, <2>2
  <2>3. CASE \E l \in 1 .. n - 1 :
                /\ images[i] # None /\ images[i] = project.images[l][i]
                /\ \A m \in 1 .. n - 1 : m > l => project.images[m][i] = None
    BY <1>2, <1>4, <2>1, <2>3
  <2>4. QED
    BY <2>2, <2>3 DEF NearestUpTo
<1>5. QED
  BY <1>3, <1>4

LEMMA NextScanned ==
    ASSUME IInv, [Next]_vars
    PROVE  ScannedSoFar' /\ NearestImageWins'
<1>0. /\ TypeOK /\ ScannedSoFar /\ NearestImageWins /\ project \in Project /\ project' = project
  BY ProjectFixed DEF IInv, TypeOK
<1>1. CASE LoadValuesFile
  <2>1. level' - 1 = 0 /\ phase' = "images" /\ images' = images
        /\ images = [i \in Image |-> None] /\ project'.values # Unreadable
    BY <1>0, <1>1 DEF LoadValuesFile, ScannedSoFar
  <2>2. QED
    BY <2>1 DEF ScannedSoFar, NearestUpTo, NearestImageWins
<1>2. CASE ScanImages
  <2>1. /\ level \in Level /\ level' - 1 = level /\ phase = "images" /\ phase' = "images"
        /\ images' = MergedImages(project.images[level])
        /\ project.values # Unreadable /\ project.images[level] # Unreadable
    BY <1>0, <1>2 DEF ScanImages, TypeOK, ScannedSoFar
  <2>2. NearestUpTo(level - 1) /\ \A l \in 1 .. level - 1 : project.images[l] # Unreadable
    BY <1>0, <2>1 DEF ScannedSoFar
  <2>3. \A i \in Image :
           \/ images'[i] = None /\ \A l \in 1 .. level : project.images[l][i] = None
           \/ \E l \in 1 .. level :
                 /\ images'[i] # None /\ images'[i] = project.images[l][i]
                 /\ \A m \in 1 .. level : m > l => project.images[m][i] = None
    BY <1>0, <2>1, <2>2, NearestExtended
  <2>4. \A l \in 1 .. level : project.images[l] # Unreadable
    <3>1. \A l \in 1 .. level : l \in 1 .. level - 1 \/ l = level
      BY <2>1
    <3>2. QED
      BY <2>1, <2>2, <3>1
  <2>5. ScannedSoFar'
    BY SMTT(30), <1>0, <2>1, <2>3, <2>4 DEF ScannedSoFar, NearestUpTo
  <2>6. QED
    BY <2>1, <2>5 DEF NearestImageWins
<1>3. CASE FinishImages
  <2>1. level - 1 = Depth /\ phase = "images" /\ phase' = "evaluate" /\ images' = images
    BY <1>3 DEF FinishImages
  <2>2. QED
    BY <1>0, <2>1 DEF ScannedSoFar, NearestImageWins, NearestUpTo
<1>4. CASE BuildEvalContext
  BY <1>0, <1>4 DEF BuildEvalContext, ScannedSoFar, NearestImageWins, NearestUpTo
<1>5. CASE SkipDirectory \/ OpenVars \/ MergeNext \/ FinishWalk
  BY <1>0, <1>5 DEF SkipDirectory, OpenVars, MergeNext, FinishWalk, ScannedSoFar, NearestImageWins
<1>6. CASE VariableFileFails \/ ReadFails \/ EvaluationFails
  BY <1>6 DEF VariableFileFails, ReadFails, EvaluationFails, Fail, ScannedSoFar, NearestImageWins
<1>7. CASE UNCHANGED vars
  BY <1>0, <1>7 DEF vars, ScannedSoFar, NearestImageWins, NearestUpTo
<1>8. QED
  BY <1>1, <1>2, <1>3, <1>4, <1>5, <1>6, <1>7 DEF Next, Finished

\* The values definition files see are what the precedence makes of them.
LEMMA NextResolves ==
    ASSUME IInv, [Next]_vars
    PROVE  ResolvesAsDocumented'
<1>0. /\ TypeOK /\ ScannedSoFar /\ ResolvesAsDocumented /\ project \in Project
      /\ project' = project /\ WalkedSoFar'
  BY ProjectFixed, NextWalked DEF IInv, TypeOK
<1>1. CASE BuildEvalContext
  <2>1. /\ project.values # Unreadable /\ declared' = declared
        /\ context' = [x \in Variable |->
               IF declared[x] # None THEN Chosen(x, declared[x]) ELSE project.values[x]]
        /\ \A x \in Variable : declared[x] # None => Chosen(x, declared[x]) # None
    BY <1>0, <1>1 DEF BuildEvalContext, ScannedSoFar
  <2>2. ASSUME NEW x \in Variable, declared[x] # None, project.set[x] # None
        PROVE  context'[x] = Converted[declared[x].type][project.set[x]]
    <3>1. declared[x] \in Decl
      BY <1>0, <2>2 DEF TypeOK
    <3>2. /\ context'[x] = overrideValue(declared[x], project.set[x])
          /\ overrideValue(declared[x], project.set[x]) # None
      BY <2>1, <2>2 DEF Chosen
    <3>3. QED
      BY <1>0, <2>2, <3>1, <3>2, OverrideFits
  <2>3. ASSUME NEW x \in Variable, declared[x] = None \/ project.set[x] = None
        PROVE  context'[x] = IF project.values[x] # None \/ declared[x] = None
                             THEN project.values[x] ELSE declared[x].default
    BY <2>1, <2>3 DEF Chosen
  <2>4. QED
    BY <1>0, <2>1, <2>2, <2>3 DEF ResolvesAsDocumented, WalkedSoFar
<1>2. CASE UNCHANGED vars
  BY <1>0, <1>2 DEF vars, ResolvesAsDocumented, WalkedSoFar
<1>3. CASE Next /\ ~BuildEvalContext /\ ~Finished
  <2>1. phase' # "done"
    BY <1>3 DEF Next, SkipDirectory, OpenVars, MergeNext, VariableFileFails, FinishWalk,
                LoadValuesFile, ScanImages, FinishImages, ReadFails, EvaluationFails, Fail
  <2>2. QED
    BY <1>0, <2>1 DEF ResolvesAsDocumented, WalkedSoFar
<1>4. QED
  BY <1>1, <1>2, <1>3 DEF Finished

\* No error is dropped, and none is made up.
LEMMA NextExact ==
    ASSUME IInv, [Next]_vars
    PROVE  LoadsExactlyTheSound'
<1>0. /\ TypeOK /\ WalkedSoFar /\ ScannedSoFar /\ LoadsExactlyTheSound
      /\ project \in Project /\ project' = project /\ Sources' = Sources
  BY ProjectFixed, SourcesFixed DEF IInv, TypeOK
<1>1. Sound' = Sound
  BY <1>0 DEF Sound, HasValue, SetFits, InForce
<1>2. CASE BuildEvalContext
  <2>1. /\ phase = "evaluate" /\ phase' = "done" /\ project.values # Unreadable
        /\ \A l \in Level : project.images[l] # Unreadable
        /\ \A s \in Sources : s.file \notin Broken
        /\ \A x \in Variable : InForce(x, declared[x], Sources)
        /\ \A x \in Variable : declared[x] # None => Chosen(x, declared[x]) # None
    BY <1>0, <1>2 DEF BuildEvalContext, ScannedSoFar, WalkedSoFar, Loaded
  <2>2. ASSUME NEW x \in Variable, NEW s \in Sources, Declares[s.file][x] # None,
               InForce(x, Declares[s.file][x], Sources)
        PROVE  HasValue(x, Declares[s.file][x])
    <3>1. s.file \in File /\ Sources \in SUBSET SourceType
      BY <1>0, SourcesTyped DEF SourceType
    <3>2. declared[x] \in Decl \cup {None} /\ Declares[s.file][x] \in Decl \cup {None}
      BY <1>0, <3>1 DEF TypeOK
    <3>3. declared[x] = Declares[s.file][x]
      BY <2>1, <2>2, <3>1, <3>2, InForceUnique
    <3>4. QED
      BY <1>0, <2>1, <2>2, <3>2, <3>3, ChosenHasValue
  <2>3. QED
    BY <1>1, <2>1, <2>2 DEF LoadsExactlyTheSound, Sound
<1>3. CASE VariableFileFails
  <2>1. CASE phase = "walk" /\ level <= Depth /\ project.vars[level] \in Broken
    <3>1. level \in HasVars
      BY <1>0, <2>1 DEF HasVars, TypeOK
    <3>2. /\ SourceCount(level) \in 1 .. SourceCount(level)
          /\ SourceAt(level, SourceCount(level)).file = project.vars[level]
      BY SMTT(30), <1>0, <3>1, SourcesCounted, SourceAtTyped
    <3>3. ~Sound
      BY <1>0, <2>1, <3>1, <3>2, SourcesEnumerated DEF Sound
    <3>4. QED
      BY <1>1, <1>3, <3>3 DEF VariableFileFails, Fail, LoadsExactlyTheSound
  <2>2. CASE phase = "merge" /\ SourceAt(level, next).file \in Broken
    <3>1. SourceAt(level, next) \in Sources
      BY <1>0, <2>2, SourcesEnumerated DEF WalkedSoFar
    <3>2. QED
      BY <1>1, <1>3, <2>2, <3>1 DEF VariableFileFails, Fail, LoadsExactlyTheSound, Sound
  <2>3. QED
    BY <1>3, <2>1, <2>2 DEF VariableFileFails
<1>4. CASE ReadFails
  <2>1. ~Sound
    BY <1>0, <1>4 DEF ReadFails, Sound, TypeOK
  <2>2. QED
    BY <1>1, <1>4, <2>1 DEF ReadFails, Fail, LoadsExactlyTheSound
<1>5. CASE EvaluationFails
  <2>1. /\ phase = "evaluate" /\ phase' = "failed" /\ project.values # Unreadable
        /\ \A x \in Variable : InForce(x, declared[x], Sources)
    BY <1>0, <1>5 DEF EvaluationFails, Fail, ScannedSoFar, WalkedSoFar, Loaded
  <2>2. PICK x \in Variable : declared[x] # None /\ Chosen(x, declared[x]) = None
    BY <1>5 DEF EvaluationFails
  <2>3. declared[x] \in Decl /\ ~HasValue(x, declared[x])
    BY <1>0, <2>1, <2>2, ChosenHasValue DEF TypeOK
  <2>4. PICK s \in Sources : Declares[s.file][x] = declared[x]
    BY <2>1, <2>2 DEF InForce
  <2>5. ~Sound
    BY <2>1, <2>2, <2>3, <2>4 DEF Sound
  <2>6. QED
    BY <1>1, <2>1, <2>5 DEF LoadsExactlyTheSound
<1>6. CASE \/ SkipDirectory \/ OpenVars \/ MergeNext \/ FinishWalk
           \/ LoadValuesFile \/ ScanImages \/ FinishImages
  BY <1>6 DEF SkipDirectory, OpenVars, MergeNext, FinishWalk, LoadValuesFile, ScanImages,
              FinishImages, LoadsExactlyTheSound
<1>7. CASE UNCHANGED vars
  BY <1>0, <1>1, <1>7 DEF vars, LoadsExactlyTheSound
<1>8. QED
  BY <1>2, <1>3, <1>4, <1>5, <1>6, <1>7 DEF Next, Finished
-----------------------------------------------------------------------------
\* The inductive invariant holds in every state of every load, whatever the number of
\* directories, the files, their imports and what they declare.
THEOREM Inductive == Spec => []IInv
<1>1. Init => IInv
  BY InitEstablishes
<1>2. IInv /\ [Next]_vars => IInv'
  <2> SUFFICES ASSUME IInv, [Next]_vars PROVE IInv'
    OBVIOUS
  <2>1. TypeOK' /\ WalkedSoFar' /\ DefaultsSoFar'
    BY NextTyped, NextWalked, NextDefaults
  <2>2. ScannedSoFar' /\ NearestImageWins' /\ OwnDefaultsPrevail'
    BY NextScanned, NextOwnDefaults
  <2>3. ResolvesAsDocumented' /\ LoadsExactlyTheSound'
    BY NextResolves, NextExact
  <2>4. QED
    BY <2>1, <2>2, <2>3 DEF IInv
<1>3. QED
  BY <1>1, <1>2, PTL DEF Spec

\* Every variable has the declaration and the value that the documented precedence
\* gives it, for any layout of directories and files.
THEOREM Resolves == Spec => []ResolvesAsDocumented
<1>1. IInv => ResolvesAsDocumented
  BY DEF IInv
<1>2. QED
  BY <1>1, Inductive, PTL

\* A load succeeds exactly if all files that count are sound and all declared
\* variables have a value.
THEOREM Exact == Spec => []LoadsExactlyTheSound
<1>1. IInv => LoadsExactlyTheSound
  BY DEF IInv
<1>2. QED
  BY <1>1, Inductive, PTL

\* vars.kdef beats imports for ingress defaults, and near images beat far ones.
THEOREM NearestWins == Spec => [](OwnDefaultsPrevail /\ NearestImageWins)
<1>1. IInv => OwnDefaultsPrevail /\ NearestImageWins
  BY DEF IInv
<1>2. QED
  BY <1>1, Inductive, PTL

\* Of images with one name that several directories know, that of the directory
\* nearest to the project is the one, however deep the project is.
THEOREM NearestImage == Spec => []NearestImageWins
<1>1. OwnDefaultsPrevail /\ NearestImageWins => NearestImageWins
  OBVIOUS
<1>2. QED
  BY <1>1, NearestWins, PTL

\* Whatever is scanned and declared on the way, the state of a load keeps its type.
THEOREM Typing == Spec => []TypeOK
<1>1. IInv => TypeOK
  BY DEF IInv
<1>2. QED
  BY <1>1, Inductive, PTL
=============================================================================
