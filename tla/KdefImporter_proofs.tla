------------------------ MODULE KdefImporter_proofs -------------------------
(***************************************************************************)
(* Proofs about an import: what it reads, writes, and the generator reads  *)
(* again.                                                                  *)
(***************************************************************************)
EXTENDS KdefImporter, KdefGenerate_proofs

\* The deadline of a cronjob is written with the largest unit that divides it
\* and read back as the same number of seconds, whatever number it is
\* (mapper.go:683-691, cronjob.go:160-181).
THEOREM DurationsReturn ==
    \A seconds \in Nat :
        /\ formatDuration(seconds)[1] \in Nat /\ formatDuration(seconds)[2] \in DOMAIN SecondsIn
        /\ parseDuration(formatDuration(seconds)) = seconds
<1> TAKE seconds \in Nat
<1>1. CASE seconds % 3600 = 0
  <2>1. formatDuration(seconds) = <<seconds \div 3600, "h">>
    BY <1>1 DEF formatDuration
  <2>2. seconds \div 3600 \in Nat /\ (seconds \div 3600) * 3600 = seconds
    BY <1>1
  <2>3. QED
    BY <2>1, <2>2 DEF parseDuration, SecondsIn
<1>2. CASE seconds % 3600 # 0 /\ seconds % 60 = 0
  <2>1. formatDuration(seconds) = <<seconds \div 60, "m">>
    BY <1>2 DEF formatDuration
  <2>2. seconds \div 60 \in Nat /\ (seconds \div 60) * 60 = seconds
    BY <1>2
  <2>3. QED
    BY <2>1, <2>2 DEF parseDuration, SecondsIn
<1>3. CASE seconds % 3600 # 0 /\ seconds % 60 # 0
  <2>1. formatDuration(seconds) = <<seconds, "s">>
    BY <1>3 DEF formatDuration
  <2>2. QED
    BY <2>1 DEF parseDuration, SecondsIn
<1>4. QED
  BY <1>1, <1>2, <1>3

(***************************************************************************)
(* Selections.                                                             *)
(***************************************************************************)
LEMMA OnlyCollects ==
    ASSUME NEW s, Lists(s), NEW T
    PROVE  Lists(Only(s, T)) /\ ToSet(Only(s, T)) = ToSet(s) \cap T
<1> DEFINE S == ToSet(s)
           parts == [i \in DOMAIN s |-> IF s[i] \in T THEN <<s[i]>> ELSE <<>>]
<1>1. Len(s) \in Nat /\ DOMAIN s = 1..Len(s) /\ \A i \in DOMAIN s : s[i] \in S
  BY DEF Lists, ToSet
<1>2. \A i \in DOMAIN s : parts[i] \in Seq(S)
  BY <1>1
<1>3. parts \in Seq(Seq(S)) /\ DOMAIN parts = DOMAIN s
  BY <1>1, <1>2
<1>4. \A i \in DOMAIN s : ToSet(parts[i]) = {s[i]} \cap T
  BY <1>1 DEF ToSet
<1> HIDE DEF parts
<1>5. FlattenSeq(parts) \in Seq(S) /\ ToSet(FlattenSeq(parts)) = UNION {ToSet(parts[i]) : i \in DOMAIN parts}
  BY <1>3, FlattenSeqCollects
<1>6. (UNION {ToSet(parts[i]) : i \in DOMAIN parts}) = S \cap T
  BY <1>3, <1>4 DEF ToSet
<1>7. Only(s, T) = FlattenSeq(parts)
  BY DEF Only, parts
<1>8. Only(s, T) \in Seq(ToSet(Only(s, T)))
  BY <1>5, <1>7, SeqIsProper DEF ProperSeq
<1>9. QED
  BY <1>5, <1>6, <1>7, <1>8 DEF Lists, ToSet

\* What was read of a kind.
LEMMA ReadOfKind ==
    ASSUME Lists(read), NEW kind
    PROVE  Lists(Read(kind)) /\ ToSet(Read(kind)) = {o \in ToSet(read) : o.kind = kind}
BY OnlyCollects DEF Read

LEMMA ListIndices ==
    ASSUME NEW s, Lists(s)
    PROVE  /\ Len(s) \in Nat /\ DOMAIN s = 1..Len(s)
           /\ \A i \in DOMAIN s : s[i] \in ToSet(s)
           /\ \A x \in ToSet(s) : \E i \in DOMAIN s : s[i] = x
           /\ s \in Seq(ToSet(s))
BY DEF Lists, ToSet

\* The Service of a workload is one of those read.
LEMMA ServiceIsRead ==
    ASSUME Lists(read), NEW w
    PROVE  ServiceOf(w) = None \/ (ServiceOf(w) \in ToSet(read) /\ ServiceOf(w).kind = "Service")
<1>1. ASSUME NEW key PROVE ServiceUnder(key) = None \/ ServiceUnder(key) \in ToSet(Read("Service"))
  <2> DEFINE under == Only(Read("Service"), {s \in ToSet(Read("Service")) :
                                                s.name # <<"kubernetes">> /\ FiledUnder(s) = key})
  <2>1. Lists(under) /\ ToSet(under) \subseteq ToSet(Read("Service"))
    BY ReadOfKind, OnlyCollects
  <2>2. ServiceUnder(key) = IF under = <<>> THEN None ELSE under[Len(under)]
    BY DEF ServiceUnder, Last
  <2> HIDE DEF under
  <2>3. CASE under # <<>>
    <3>1. Len(under) \in DOMAIN under
      BY <2>1, <2>3, ListIndices, EmptySeq
    <3>2. QED
      BY <2>1, <2>2, <2>3, <3>1, ListIndices
  <2>4. QED
    BY <2>2, <2>3
<1> DEFINE s == <<ServiceUnder(w.name),
                  IF w.label = None THEN None ELSE ServiceUnder(w.label),
                  IF w.kind = "StatefulSet" /\ w.governing # <<>> THEN ServiceUnder(w.governing) ELSE None>>
<1>2. \A i \in 1..3 : s[i] = None \/ s[i] \in ToSet(Read("Service"))
  BY <1>1
<1>3. ServiceOf(w) = FirstOf(s) /\ Len(s) = 3
  BY DEF ServiceOf
<1> HIDE DEF s
<1>4. FirstOf(s) = None \/ \E i \in 1..3 : FirstOf(s) = s[i]
  <2> DEFINE I == {i \in 1..Len(s) : s[i] # None}
  <2>1. SelectInSeq(s, LAMBDA x : x # None) = IF I # {} THEN Min(I) ELSE 0
    BY DEF SelectInSeq
  <2>2. CASE I # {}
    <3>1. Min(I) \in I
      BY <1>3, <2>2, MinIsLeast
    <3>2. QED
      BY <1>3, <2>1, <2>2, <3>1 DEF FirstOf
  <2>3. QED
    BY <2>1, <2>2 DEF FirstOf
<1>5. QED
  BY <1>2, <1>3, <1>4, ReadOfKind
(***************************************************************************)
(* The blocks of what was read.                                            *)
(***************************************************************************)
LEMMA ListsConcat ==
    ASSUME NEW s, Lists(s), NEW t, Lists(t)
    PROVE  Lists(s \o t) /\ ToSet(s \o t) = ToSet(s) \cup ToSet(t)
<1> DEFINE S == ToSet(s) \cup ToSet(t)
<1>1. s \in Seq(ToSet(s)) /\ t \in Seq(ToSet(t))
  BY ListIndices
<1>2. s \in Seq(S) /\ t \in Seq(S)
  BY <1>1
<1> HIDE DEF S
<1>3. s \o t \in Seq(S) /\ ToSet(s \o t) = ToSet(s) \cup ToSet(t)
  BY <1>2, ConcatToSet
<1>4. s \o t \in Seq(ToSet(s \o t))
  BY <1>3, SeqIsProper DEF ProperSeq
<1>5. QED
  BY <1>3, <1>4 DEF Lists, ToSet

LEMMA FunctionsList ==
    ASSUME NEW s, Lists(s), NEW t, DOMAIN t = DOMAIN s, t = [i \in DOMAIN t |-> t[i]]
    PROVE  Lists(t)
<1>1. Len(s) \in Nat /\ DOMAIN s = 1..Len(s)
  BY ListIndices
<1> DEFINE T == {t[i] : i \in DOMAIN t}
<1>2. \A i \in 1..Len(s) : t[i] \in T
  BY <1>1
<1> HIDE DEF T
<1>3. t \in [1..Len(s) -> T]
  BY <1>1, <1>2
<1>4. t \in Seq(T)
  BY <1>1, <1>3
<1>5. QED
  BY <1>4 DEF Lists, T

LEMMA OfOne ==
    ASSUME NEW x
    PROVE  Lists(<<x>>) /\ ToSet(<<x>>) = {x} /\ DOMAIN <<x>> = {1} /\ <<x>>[1] = x
<1>1. DOMAIN <<x>> = {1} /\ <<x>>[1] = x /\ <<x>> \in Seq({x})
  OBVIOUS
<1>2. {<<x>>[i] : i \in DOMAIN <<x>>} = {x}
  BY <1>1
<1>3. QED
  BY <1>1, <1>2 DEF Lists, ToSet

\* The objects that a block is made of.
ServedObjects == {"Deployment", "DaemonSet", "StatefulSet"}

PlaceOf(b, kind) == \E i \in DOMAIN Read(kind) : b = BlockOf(Read(kind)[i], <<kind, i>>)

LEMMA BlocksOfKind ==
    ASSUME Lists(read), NEW kind
    PROVE  /\ Lists(BlocksOf(kind))
           /\ \A b : b \in ToSet(BlocksOf(kind)) <=> PlaceOf(b, kind)
           /\ DOMAIN BlocksOf(kind) = DOMAIN Read(kind)
<1>1. DOMAIN BlocksOf(kind) = DOMAIN Read(kind) /\ BlocksOf(kind) = [i \in DOMAIN BlocksOf(kind) |-> BlocksOf(kind)[i]]
  BY DEF BlocksOf
<1>2. Lists(BlocksOf(kind))
  BY <1>1, ReadOfKind, FunctionsList
<1>3. \A b : b \in ToSet(BlocksOf(kind)) <=> PlaceOf(b, kind)
  BY DEF BlocksOf, PlaceOf, ToSet
<1>4. QED
  BY <1>1, <1>2, <1>3

Describes(b, o, at) ==
    /\ DOMAIN b = DOMAIN Blank /\ b.kind = BlockKind[o.kind] /\ b.name = o.name /\ b.ns = o.ns /\ b.at = at

KeepsBlank(b, fields) == \A f \in fields : b[f] = Blank[f]

LEMMA PlainFields ==
    ASSUME NEW o, NEW at
    PROVE  /\ Describes(PlainBlock(o, at), o, at)
           /\ KeepsBlank(PlainBlock(o, at), DOMAIN Blank \ {"kind", "name", "ns", "evaluates", "at"})
           /\ PlainBlock(o, at).evaluates = o.evaluates
BY DEF PlainBlock, Blank, Describes, KeepsBlank

Evaluates(w) == w.evaluates /\ \A g \in ToSet(Ruled(w)) : g.evaluates

\* The block that a served workload becomes.
IsWorkload(b, w) ==
    /\ b.sa = IF w.sa = DefaultAccount THEN None ELSE w.sa
    /\ b.governing = w.governing /\ b.replicas = w.replicas
    /\ b.claims = [n \in DOMAIN w.claims |-> ClaimOf(w, n)]
    /\ b.evaluates = Evaluates(w)
    /\ b.containers = [i \in DOMAIN w.containers |-> ContainerOf(w, w.containers[i])]
    /\ b.inits = [i \in DOMAIN w.inits |-> InitOf(w.inits[i])]
    /\ b.service = IF ServiceOf(w) = None THEN None ELSE ServiceBlock(w, ServiceOf(w))
    /\ b.servicePorts = IF ServiceOf(w) = None THEN <<>> ELSE PortBlocks(ServiceOf(w))
    /\ b.ingresses = IngressBlocks(w)
    /\ b.volumes = <<>>
    /\ KeepsBlank(b, {"perItem", "serviceType", "autoscale", "volumes", "histories", "storageVersions", "deadline"})

LEMMA WorkloadFields ==
    ASSUME NEW w, NEW at
    PROVE  Describes(WorkloadBlock(w, at), w, at) /\ IsWorkload(WorkloadBlock(w, at), w)
<1> DEFINE svc == ServiceOf(w)
           b == WorkloadBlock(w, at)
           service == IF svc = None THEN None ELSE ServiceBlock(w, svc)
           ports == IF svc = None THEN <<>> ELSE PortBlocks(svc)
           containers == [i \in DOMAIN w.containers |-> ContainerOf(w, w.containers[i])]
           inits == [i \in DOMAIN w.inits |-> InitOf(w.inits[i])]
           claims == [n \in DOMAIN w.claims |-> ClaimOf(w, n)]
           sa == IF w.sa = DefaultAccount THEN None ELSE w.sa
<1>1. b = [PlainBlock(w, at) EXCEPT !.sa = sa, !.governing = w.governing, !.replicas = w.replicas,
               !.containers = containers, !.inits = inits, !.claims = claims, !.service = service,
               !.servicePorts = ports, !.ingresses = IngressBlocks(w), !.evaluates = Evaluates(w)]
  BY DEF WorkloadBlock, Evaluates
<1> HIDE DEF b, service, ports, containers, inits, claims, sa, svc
<1>2. /\ Describes(b, w, at)
      /\ b.sa = sa /\ b.governing = w.governing /\ b.replicas = w.replicas
      /\ b.claims = claims /\ b.containers = containers /\ b.inits = inits
      /\ b.evaluates = Evaluates(w)
      /\ b.service = service /\ b.servicePorts = ports /\ b.ingresses = IngressBlocks(w)
      /\ b.volumes = <<>>
  BY <1>1 DEF PlainBlock, Blank, Describes
<1>3. KeepsBlank(b, {"perItem", "serviceType", "autoscale", "volumes", "histories", "storageVersions", "deadline"})
  <2>1. /\ b.perItem = Blank.perItem /\ b.serviceType = Blank.serviceType
        /\ b.autoscale = Blank.autoscale /\ b.volumes = Blank.volumes
    BY <1>1 DEF PlainBlock, Blank
  <2>2. /\ b.histories = Blank.histories /\ b.storageVersions = Blank.storageVersions
        /\ b.deadline = Blank.deadline
    BY <1>1 DEF PlainBlock, Blank
  <2>3. QED
    BY <2>1, <2>2 DEF KeepsBlank
<1>4. QED
  BY <1>2, <1>3 DEF b, service, ports, containers, inits, claims, sa, svc, IsWorkload

\* The one container of a cronjob.
JobContainer(w) == [ContainerOf(w, w.containers[1]) EXCEPT !.ports = <<>>]

IsCronJob(b, w) ==
    /\ b.containers = <<JobContainer(w)>>
    /\ b.deadline = IF w.deadline = None THEN None ELSE formatDuration(w.deadline)
    /\ b.sa = None /\ b.service = None /\ b.volumes = <<>> /\ b.ingresses = <<>> /\ b.inits = <<>>
    /\ b.evaluates = w.evaluates
    /\ KeepsBlank(b, DOMAIN Blank \ {"kind", "name", "ns", "evaluates", "at", "containers", "deadline"})

LEMMA CronJobFieldsAre ==
    ASSUME NEW w, NEW at
    PROVE  Describes(CronJobBlock(w, at), w, at) /\ IsCronJob(CronJobBlock(w, at), w)
<1> DEFINE b == CronJobBlock(w, at)
           containers == <<JobContainer(w)>>
           deadline == IF w.deadline = None THEN None ELSE formatDuration(w.deadline)
<1>1. b = [PlainBlock(w, at) EXCEPT !.containers = containers, !.deadline = deadline]
  BY DEF CronJobBlock, JobContainer
<1> HIDE DEF b, containers, deadline
<1>2. /\ Describes(b, w, at) /\ b.containers = containers /\ b.deadline = deadline
      /\ b.sa = None /\ b.service = None /\ b.volumes = <<>> /\ b.ingresses = <<>> /\ b.inits = <<>>
      /\ b.evaluates = w.evaluates
  BY <1>1 DEF PlainBlock, Blank, Describes
<1>3. KeepsBlank(b, DOMAIN Blank \ {"kind", "name", "ns", "evaluates", "at", "containers", "deadline"})
  BY <1>1 DEF PlainBlock, Blank, KeepsBlank
<1>4. QED
  BY <1>2, <1>3 DEF b, containers, deadline, IsCronJob

\* What kind of block an object becomes.
LEMMA BlockForms ==
    ASSUME NEW o, o.kind \in DOMAIN BlockKind, NEW at
    PROVE  /\ o.kind \in ServedObjects => BlockOf(o, at) = WorkloadBlock(o, at)
           /\ o.kind = "CronJob" => BlockOf(o, at) = CronJobBlock(o, at)
           /\ o.kind \notin ServedObjects \cup {"CronJob"} => BlockOf(o, at) = PlainBlock(o, at)
BY DEF BlockOf, ServedObjects

LEMMA BlockFields ==
    ASSUME NEW o, o.kind \in DOMAIN BlockKind, NEW at
    PROVE  Describes(BlockOf(o, at), o, at)
<1>1. CASE o.kind \in ServedObjects
  <2>1. BlockOf(o, at) = WorkloadBlock(o, at)
    BY <1>1, BlockForms
  <2>2. Describes(WorkloadBlock(o, at), o, at)
    BY WorkloadFields
  <2>3. QED
    BY <2>1, <2>2
<1>2. CASE o.kind = "CronJob"
  <2>1. BlockOf(o, at) = CronJobBlock(o, at)
    BY <1>2, BlockForms
  <2>2. Describes(CronJobBlock(o, at), o, at)
    BY CronJobFieldsAre
  <2>3. QED
    BY <2>1, <2>2
<1>3. CASE o.kind \notin ServedObjects \cup {"CronJob"}
  <2>1. BlockOf(o, at) = PlainBlock(o, at)
    BY <1>3, BlockForms
  <2>2. Describes(PlainBlock(o, at), o, at)
    BY PlainFields
  <2>3. QED
    BY <2>1, <2>2
<1>4. QED
  BY <1>1, <1>2, <1>3
(***************************************************************************)
(* The files that an import writes.                                        *)
(***************************************************************************)
Gathered(kinds) == UNION {ToSet(BlocksOf(k)) : k \in kinds}

KindsFiled(name) == {k \in DOMAIN SharedFile : SharedFile[k] = name}

OwnFile(b) == [name |-> b.name, blocks |-> {b}]

CommonFile(name) == [name |-> name, blocks |-> Gathered(KindsFiled(name))]

LEMMA SeparateFiles ==
    ASSUME Lists(read), NEW kind
    PROVE  Lists(Separate(kind)) /\ ToSet(Separate(kind)) = {OwnFile(b) : b \in ToSet(BlocksOf(kind))}
<1>1. DOMAIN Separate(kind) = DOMAIN BlocksOf(kind) /\ Separate(kind) = [i \in DOMAIN Separate(kind) |-> Separate(kind)[i]]
  BY DEF Separate
<1>2. Lists(Separate(kind))
  BY <1>1, BlocksOfKind, FunctionsList
<1>3. ToSet(Separate(kind)) = {OwnFile(b) : b \in ToSet(BlocksOf(kind))}
  BY DEF Separate, OwnFile, ToSet
<1>4. QED
  BY <1>2, <1>3

LEMMA CommonFiles ==
    ASSUME NEW name, NEW kinds, kinds = KindsFiled(name)
    PROVE  /\ Lists(Together(name, kinds))
           /\ ToSet(Together(name, kinds)) =
                  IF Gathered(KindsFiled(name)) = {} THEN {} ELSE {CommonFile(name)}
<1>1. Together(name, kinds) = IF Gathered(KindsFiled(name)) = {} THEN <<>> ELSE <<CommonFile(name)>>
  BY DEF Together, Gathered, CommonFile
<1>2. Lists(<<>>) /\ ToSet(<<>>) = {}
  BY DEF Lists, ToSet
<1>3. QED
  BY <1>1, <1>2, OfOne

LEMMA KindsOfFiles ==
    /\ KindsFiled(<<"rbac">>) = {"ClusterRole", "ClusterRoleBinding"}
    /\ KindsFiled(<<"cronjobs">>) = {"CronJob"}
    /\ KindsFiled(<<"configmaps">>) = {"ConfigMap"}
    /\ KindsFiled(<<"pvcs">>) = {"PersistentVolumeClaim"}
    /\ {SharedFile[k] : k \in DOMAIN SharedFile} = {<<"rbac">>, <<"cronjobs">>, <<"configmaps">>, <<"pvcs">>}
BY DEF KindsFiled, SharedFile

IsOwnFile(f) == \E kind \in ServedObjects : \E b \in ToSet(BlocksOf(kind)) : f = OwnFile(b)

IsCommonFile(f) ==
    \E kind \in DOMAIN SharedFile :
        Gathered(KindsFiled(SharedFile[kind])) # {} /\ f = CommonFile(SharedFile[kind])

LEMMA FilesAre ==
    ASSUME Lists(read)
    PROVE  /\ Lists(WriteKdefFiles)
           /\ \A f : f \in ToSet(WriteKdefFiles) <=> IsOwnFile(f) \/ IsCommonFile(f)
<1> DEFINE s1 == Separate("Deployment")
           s2 == Separate("DaemonSet")
           s3 == Separate("StatefulSet")
           t1 == Together(<<"rbac">>, {"ClusterRole", "ClusterRoleBinding"})
           t2 == Together(<<"cronjobs">>, {"CronJob"})
           t3 == Together(<<"configmaps">>, {"ConfigMap"})
           t4 == Together(<<"pvcs">>, {"PersistentVolumeClaim"})
           common(name) == IF Gathered(KindsFiled(name)) = {} THEN {} ELSE {CommonFile(name)}
<1>1. WriteKdefFiles = s1 \o s2 \o s3 \o t1 \o t2 \o t3 \o t4
  BY DEF WriteKdefFiles
<1>2. Lists(s1) /\ Lists(s2) /\ Lists(s3)
  BY SeparateFiles
<1>3. Lists(t1) /\ ToSet(t1) = common(<<"rbac">>)
  BY CommonFiles, KindsOfFiles
<1>4. Lists(t2) /\ ToSet(t2) = common(<<"cronjobs">>)
  BY CommonFiles, KindsOfFiles
<1>5. Lists(t3) /\ ToSet(t3) = common(<<"configmaps">>)
  BY CommonFiles, KindsOfFiles
<1>6. Lists(t4) /\ ToSet(t4) = common(<<"pvcs">>)
  BY CommonFiles, KindsOfFiles
<1>7. \A f : f \in ToSet(s1) \cup ToSet(s2) \cup ToSet(s3) <=> IsOwnFile(f)
  BY SeparateFiles DEF IsOwnFile, ServedObjects
<1>8. \A f : f \in common(<<"rbac">>) \cup common(<<"cronjobs">>) \cup common(<<"configmaps">>) \cup common(<<"pvcs">>)
             <=> IsCommonFile(f)
  <2>1. \A f : IsCommonFile(f) <=>
               \E name \in {SharedFile[k] : k \in DOMAIN SharedFile} :
                   Gathered(KindsFiled(name)) # {} /\ f = CommonFile(name)
    BY DEF IsCommonFile
  <2>2. QED
    BY <2>1, KindsOfFiles
<1> HIDE DEF s1, s2, s3, t1, t2, t3, t4, common
<1> DEFINE u2 == s1 \o s2
           u3 == u2 \o s3
           u4 == u3 \o t1
           u5 == u4 \o t2
           u6 == u5 \o t3
           u7 == u6 \o t4
<1>9. Lists(u2) /\ ToSet(u2) = ToSet(s1) \cup ToSet(s2)
  BY <1>2, ListsConcat
<1> HIDE DEF u2
<1>10. Lists(u3) /\ ToSet(u3) = ToSet(u2) \cup ToSet(s3)
  BY <1>2, <1>9, ListsConcat
<1> HIDE DEF u3
<1>11. Lists(u4) /\ ToSet(u4) = ToSet(u3) \cup ToSet(t1)
  BY <1>3, <1>10, ListsConcat
<1> HIDE DEF u4
<1>12. Lists(u5) /\ ToSet(u5) = ToSet(u4) \cup ToSet(t2)
  BY <1>4, <1>11, ListsConcat
<1> HIDE DEF u5
<1>13. Lists(u6) /\ ToSet(u6) = ToSet(u5) \cup ToSet(t3)
  BY <1>5, <1>12, ListsConcat
<1> HIDE DEF u6
<1>14. Lists(u7) /\ ToSet(u7) = ToSet(u6) \cup ToSet(t4)
  BY <1>6, <1>13, ListsConcat
<1>15. WriteKdefFiles = u7
  BY <1>1 DEF u2, u3, u4, u5, u6
<1> HIDE DEF u7
<1>16. QED
  BY <1>3, <1>4, <1>5, <1>6, <1>7, <1>8, <1>9, <1>10, <1>11, <1>12, <1>13, <1>14, <1>15
(***************************************************************************)
(* The inductive invariant.  Readable: objects are what they may be.       *)
(* ReadSoFar: of the kinds that have been read, what has been there all    *)
(* the time was read.  OfTheRead: the files are those of what was read,    *)
(* and none is lost between the files written and those left to write      *)
(* unless one of its name takes its place.                                 *)
(***************************************************************************)
Readable ==
    /\ fromFile \in BOOLEAN /\ changes \in 0..MaxChanges /\ gets \in 0..8
    /\ phase \in {"read", "nothing", "write", "done", "failed"}
    /\ Lists(cluster) /\ Lists(read)
    /\ \A o \in ToSet(cluster) : ObjectOK(o)
    /\ \A o \in ToSet(read) : ObjectOK(o) /\ o.kind \in ReadKinds
    /\ stable \subseteq ToSet(cluster)

ReadSoFar ==
    /\ \A o \in stable : Wanted(o) =>
           \A n \in 1..8 : n <= gets /\ o.kind = GetOrder[n] => o \in ToSet(read)
    /\ fromFile /\ gets = 8 => \A o \in stable : o.kind \in ReadKinds => o \in ToSet(read)

OfTheRead ==
    /\ phase = "read" => files = {} /\ unwritten = <<>>
    /\ Lists(unwritten)
    /\ files \cup ToSet(unwritten) \subseteq ToSet(WriteKdefFiles)
    /\ phase \in {"write", "done"} =>
          /\ gets = 8
          /\ \A f \in ToSet(WriteKdefFiles) : \E g \in files \cup ToSet(unwritten) : g.name = f.name
    /\ phase = "done" => unwritten = <<>>

Importing == Readable /\ ReadSoFar /\ OfTheRead

LEMMA SameFiles == read' = read => WriteKdefFiles' = WriteKdefFiles
<1> SUFFICES ASSUME read' = read PROVE WriteKdefFiles' = WriteKdefFiles
  OBVIOUS
<1>1. \A kind : Read(kind)' = Read(kind)
  BY DEF Read
<1>2. \A key : ServiceUnder(key)' = ServiceUnder(key)
  BY <1>1 DEF ServiceUnder
<1>3. \A w : ServiceOf(w)' = ServiceOf(w)
  BY <1>2 DEF ServiceOf
<1>4. \A w : IngressesOf(w)' = IngressesOf(w)
  BY <1>1, <1>3 DEF IngressesOf
<1>5. \A w : Ruled(w)' = Ruled(w)
  BY <1>4 DEF Ruled
<1>6. \A w : IngressBlocks(w)' = IngressBlocks(w)
  BY <1>5 DEF IngressBlocks
<1>7. \A w, at : WorkloadBlock(w, at)' = WorkloadBlock(w, at)
  BY <1>3, <1>5, <1>6 DEF WorkloadBlock
<1>8. \A o, at : BlockOf(o, at)' = BlockOf(o, at)
  BY <1>7 DEF BlockOf
<1>9. \A kind : BlocksOf(kind)' = BlocksOf(kind)
  BY <1>1, <1>8 DEF BlocksOf
<1>10. \A kind : Separate(kind)' = Separate(kind)
  BY <1>9 DEF Separate
<1>11. \A name, kinds : Together(name, kinds)' = Together(name, kinds)
  BY <1>9 DEF Together
<1>12. QED
  BY <1>10, <1>11 DEF WriteKdefFiles

LEMMA OrderOfGets ==
    /\ Len(GetOrder) = 8
    /\ \A n \in 1..8 : GetOrder[n] \in ReadKinds
    /\ \A k \in ReadKinds \ {"ClusterRole", "ClusterRoleBinding"} : \E n \in 1..8 : GetOrder[n] = k
    /\ DOMAIN BlockKind = ReadKinds \ {"Service", "Ingress"}
BY DEF GetOrder, ReadKinds, BlockKind, ToSet

LEMMA InitImporting == ImportInit => Importing
<1> SUFFICES ASSUME ImportInit PROVE Importing
  OBVIOUS
<1>1. Lists(<<>>) /\ ToSet(<<>>) = {}
  BY DEF Lists, ToSet
<1>2. Lists(cluster) /\ \A o \in ToSet(cluster) : ObjectOK(o)
  BY ImporterAssumption DEF ImportInit, ToSet
<1>3. 0 \in 0..MaxChanges
  BY ImporterAssumption
<1>4. Readable
  BY <1>1, <1>2, <1>3 DEF ImportInit, Readable
<1>5. ReadSoFar
  BY DEF ImportInit, ReadSoFar
<1>6. OfTheRead
  BY <1>1 DEF ImportInit, OfTheRead
<1>7. QED
  BY <1>4, <1>5, <1>6 DEF Importing
\* Files depend on what was read alone.
LEMMA FilesStay ==
    ASSUME OfTheRead, UNCHANGED <<phase, gets, read, unwritten, files>>
    PROVE  OfTheRead'
<1>1. WriteKdefFiles' = WriteKdefFiles
  BY SameFiles
<1> DEFINE all == ToSet(WriteKdefFiles)
<1>2. ToSet(WriteKdefFiles)' = all /\ ToSet(unwritten)' = ToSet(unwritten) /\ Lists(unwritten)' = Lists(unwritten)
  BY <1>1 DEF ToSet, Lists
<1> HIDE DEF all
<1>3. OfTheRead => /\ files \cup ToSet(unwritten) \subseteq all
                   /\ phase \in {"write", "done"} =>
                         \A f \in all : \E g \in files \cup ToSet(unwritten) : g.name = f.name
  BY DEF OfTheRead, all
<1>4. QED
  BY <1>2, <1>3 DEF OfTheRead

LEMMA DeleteImporting == Importing /\ Delete => Importing'
<1> SUFFICES ASSUME Importing, Delete PROVE Importing'
  OBVIOUS
<1>1. PICK o \in ToSet(cluster) :
        /\ cluster' = Only(cluster, ToSet(cluster) \ {o})
        /\ stable' = stable \ {o}
  BY DEF Delete
<1>2. Lists(Only(cluster, ToSet(cluster) \ {o})) /\ ToSet(Only(cluster, ToSet(cluster) \ {o})) = ToSet(cluster) \ {o}
  BY OnlyCollects DEF Importing, Readable
<1>3. Lists(cluster)' /\ ToSet(cluster)' = ToSet(cluster) \ {o}
  BY <1>1, <1>2 DEF Lists, ToSet
<1>4. changes' \in 0..MaxChanges
  BY ImporterAssumption DEF Delete, Importing, Readable
<1>5. Readable'
  BY <1>1, <1>3, <1>4 DEF Delete, Importing, Readable, Lists, ToSet
<1>6. ReadSoFar'
  BY <1>1 DEF Delete, Importing, ReadSoFar, ToSet
<1>7. OfTheRead'
  BY FilesStay DEF Delete, Importing
<1>8. QED
  BY <1>5, <1>6, <1>7 DEF Importing

LEMMA CreateImporting == Importing /\ Create => Importing'
<1> SUFFICES ASSUME Importing, Create PROVE Importing'
  OBVIOUS
<1>1. PICK o \in Arrivals : cluster' = Append(cluster, o)
  BY DEF Create
<1>2. ObjectOK(o)
  BY ImporterAssumption
<1>3. Append(cluster, o) = cluster \o <<o>>
  <2>1. cluster \in Seq(ToSet(cluster) \cup {o}) /\ o \in ToSet(cluster) \cup {o}
    BY ListIndices DEF Importing, Readable
  <2>2. QED
    BY <2>1, AppendIsConcat
<1>4. Lists(cluster \o <<o>>) /\ ToSet(cluster \o <<o>>) = ToSet(cluster) \cup {o}
  BY ListsConcat, OfOne DEF Importing, Readable
<1>5. Lists(cluster)' /\ ToSet(cluster)' = ToSet(cluster) \cup {o}
  BY <1>1, <1>3, <1>4 DEF Lists, ToSet
<1>6. changes' \in 0..MaxChanges
  BY ImporterAssumption DEF Create, Importing, Readable
<1>7. Readable'
  BY <1>2, <1>5, <1>6 DEF Create, Importing, Readable, Lists, ToSet
<1>8. ReadSoFar'
  BY DEF Create, Importing, ReadSoFar, ToSet
<1>9. OfTheRead'
  BY FilesStay DEF Create, Importing
<1>10. QED
  BY <1>7, <1>8, <1>9 DEF Importing

LEMMA GetImporting == Importing /\ Get => Importing'
<1> SUFFICES ASSUME Importing, Get PROVE Importing'
  OBVIOUS
<1> DEFINE wanted == {o \in ToSet(cluster) : o.kind = GetOrder[gets + 1] /\ Wanted(o)}
           got == Only(cluster, wanted)
<1>1. gets \in 0..7 /\ gets' = gets + 1
  BY OrderOfGets DEF Get, Importing, Readable
<1>2. Lists(got) /\ ToSet(got) = wanted
  BY OnlyCollects DEF Importing, Readable
<1> HIDE DEF got
<1>3. Lists(read \o got) /\ ToSet(read \o got) = ToSet(read) \cup wanted
  BY <1>2, ListsConcat DEF Importing, Readable
<1>4. read' = read \o got
  BY DEF Get, got
<1>5. Lists(read)' /\ ToSet(read)' = ToSet(read) \cup wanted
  BY <1>3, <1>4 DEF Lists, ToSet
<1>6. Readable'
  <2>1. \A o \in wanted : ObjectOK(o) /\ o.kind \in ReadKinds
    BY <1>1, OrderOfGets DEF Importing, Readable
  <2>2. gets' \in 0..8
    BY <1>1
  <2> HIDE DEF wanted
  <2>3. QED
    BY <1>5, <2>1, <2>2 DEF Get, Importing, Readable, Lists, ToSet
<1>7. ReadSoFar'
  <2> SUFFICES ASSUME NEW o \in stable, Wanted(o), NEW n \in 1..8, n <= gets + 1, o.kind = GetOrder[n]
               PROVE  o \in ToSet(read)'
    BY <1>1 DEF Get, ReadSoFar
  <2>1. CASE n <= gets
    BY <1>5, <2>1 DEF Importing, ReadSoFar
  <2>2. CASE n = gets + 1
    BY <1>5, <2>2 DEF Importing, Readable
  <2>3. QED
    BY <1>1, <2>1, <2>2
<1>8. OfTheRead'
  <2>1. phase' = "read" /\ files' = {} /\ unwritten' = <<>>
    BY DEF Get, Importing, OfTheRead
  <2>2. Lists(<<>>) /\ ToSet(<<>>) = {}
    BY DEF Lists, ToSet
  <2>3. Lists(unwritten)' /\ ToSet(unwritten)' = {}
    BY <2>1, <2>2 DEF Lists, ToSet
  <2>4. QED
    BY <2>1, <2>3 DEF OfTheRead
<1>9. QED
  BY <1>6, <1>7, <1>8 DEF Importing

LEMMA ReadFileImporting == Importing /\ ReadFile => Importing'
<1> SUFFICES ASSUME Importing, ReadFile PROVE Importing'
  OBVIOUS
<1> DEFINE wanted == {o \in ToSet(cluster) : o.kind \in ReadKinds}
           got == Only(cluster, wanted)
<1>1. Lists(got) /\ ToSet(got) = wanted
  BY OnlyCollects DEF Importing, Readable
<1>2. read' = got /\ gets' = 8
  BY OrderOfGets DEF ReadFile
<1> HIDE DEF got
<1>3. Lists(read)' /\ ToSet(read)' = wanted
  BY <1>1, <1>2 DEF Lists, ToSet
<1>4. Readable'
  <2>1. \A o \in wanted : ObjectOK(o) /\ o.kind \in ReadKinds
    BY DEF Importing, Readable
  <2>2. gets' \in 0..8
    BY <1>2
  <2> HIDE DEF wanted
  <2>3. QED
    BY <1>3, <2>1, <2>2 DEF ReadFile, Importing, Readable, Lists, ToSet
<1>5. ReadSoFar'
  <2>1. stable' = stable /\ \A o \in stable : o.kind \in ReadKinds => o \in ToSet(read)'
    BY <1>3 DEF ReadFile, Importing, Readable
  <2>2. QED
    BY <2>1, OrderOfGets DEF ReadSoFar
<1>6. OfTheRead'
  <2>1. phase' = "read" /\ files' = {} /\ unwritten' = <<>>
    BY DEF ReadFile, Importing, OfTheRead
  <2>2. Lists(<<>>) /\ ToSet(<<>>) = {}
    BY DEF Lists, ToSet
  <2>3. Lists(unwritten)' /\ ToSet(unwritten)' = {}
    BY <2>1, <2>2 DEF Lists, ToSet
  <2>4. QED
    BY <2>1, <2>3 DEF OfTheRead
<1>7. QED
  BY <1>4, <1>5, <1>6 DEF Importing
LEMMA MapImporting == Importing /\ Map => Importing'
<1> SUFFICES ASSUME Importing, Map PROVE Importing'
  OBVIOUS
<1> DEFINE all == ToSet(WriteKdefFiles)
<1>1. Lists(WriteKdefFiles)
  BY FilesAre DEF Importing, Readable
<1>2. WriteKdefFiles' = WriteKdefFiles
  BY SameFiles DEF Map
<1>3. ToSet(WriteKdefFiles)' = all /\ ToSet(unwritten)' = all /\ Lists(unwritten)'
  BY <1>1, <1>2 DEF Map, ToSet, Lists
<1>4. files' = {} /\ gets' = 8 /\ phase' \in {"nothing", "write"}
  BY OrderOfGets DEF Map, Importing, OfTheRead
<1> HIDE DEF all
<1>5. OfTheRead'
  BY <1>3, <1>4 DEF OfTheRead
<1>6. Readable'
  BY <1>4 DEF Map, Importing, Readable, Lists, ToSet
<1>7. ReadSoFar'
  BY DEF Map, Importing, ReadSoFar, ToSet
<1>8. QED
  BY <1>5, <1>6, <1>7 DEF Importing

LEMMA HeadAndTail ==
    ASSUME NEW s, Lists(s), s # <<>>
    PROVE  Lists(Tail(s)) /\ ToSet(s) = {Head(s)} \cup ToSet(Tail(s))
<1> DEFINE S == ToSet(s)
<1>1. s \in Seq(S)
  BY ListIndices
<1> HIDE DEF S
<1>2. Tail(s) \in Seq(S) /\ Len(Tail(s)) = Len(s) - 1 /\ Head(s) = s[1] /\ Len(s) \in Nat \ {0}
  BY <1>1, HeadTailProperties, EmptySeq
<1>3. \A i \in 1..(Len(s) - 1) : Tail(s)[i] = s[i + 1]
  BY <1>1, <1>2
<1>4. Lists(Tail(s))
  <2>1. Tail(s) \in Seq(ToSet(Tail(s)))
    BY <1>2, SeqIsProper DEF ProperSeq
  <2>2. QED
    BY <2>1 DEF Lists, ToSet
<1>5. DOMAIN s = 1..Len(s) /\ DOMAIN Tail(s) = 1..(Len(s) - 1)
  BY <1>1, <1>2
<1>6. ASSUME NEW i \in DOMAIN s PROVE s[i] \in {Head(s)} \cup ToSet(Tail(s))
  <2>1. CASE i = 1
    BY <1>2, <2>1
  <2>2. CASE i # 1
    <3>1. i - 1 \in DOMAIN Tail(s) /\ Tail(s)[i - 1] = s[i]
      BY <1>2, <1>3, <1>5, <2>2
    <3>2. QED
      BY <3>1 DEF ToSet
  <2>3. QED
    BY <2>1, <2>2
<1>7. ASSUME NEW i \in DOMAIN Tail(s) PROVE Tail(s)[i] \in ToSet(s)
  <2>1. i + 1 \in DOMAIN s /\ Tail(s)[i] = s[i + 1]
    BY <1>2, <1>3, <1>5
  <2>2. QED
    BY <2>1 DEF ToSet
<1>8. 1 \in DOMAIN s
  BY <1>2, <1>5
<1>9. Head(s) \in ToSet(s)
  BY <1>2, <1>8 DEF ToSet
<1>10. ToSet(s) \subseteq {Head(s)} \cup ToSet(Tail(s))
  BY <1>6 DEF ToSet
<1>11. ToSet(Tail(s)) \subseteq ToSet(s)
  BY <1>7 DEF ToSet
<1>12. QED
  BY <1>4, <1>9, <1>10, <1>11

LEMMA WriteNextImporting == Importing /\ WriteNext => Importing'
<1> SUFFICES ASSUME Importing, WriteNext PROVE Importing'
  OBVIOUS
<1> DEFINE all == ToSet(WriteKdefFiles)
           head == Head(unwritten)
           rest == ToSet(Tail(unwritten))
<1>1. WriteKdefFiles' = WriteKdefFiles
  BY SameFiles DEF WriteNext
<1>2. Lists(Tail(unwritten)) /\ ToSet(unwritten) = {head} \cup rest
  BY HeadAndTail DEF WriteNext, Importing, OfTheRead
<1>3. unwritten' = Tail(unwritten)
  BY DEF WriteNext
<1>4. ToSet(WriteKdefFiles)' = all /\ ToSet(unwritten)' = rest /\ Lists(unwritten)'
  BY <1>1, <1>2, <1>3 DEF ToSet, Lists
<1>5. phase = "write" /\ phase' = "write" /\ gets' = gets
      /\ files' = {f \in files : f.name # head.name} \cup {head}
  BY DEF WriteNext
<1>6. files \cup {head} \cup rest \subseteq all /\ gets = 8
      /\ \A f \in all : \E g \in files \cup {head} \cup rest : g.name = f.name
  BY <1>2, <1>5 DEF Importing, OfTheRead
<1> HIDE DEF all, head, rest
<1>7. \A f \in all : \E g \in files' \cup rest : g.name = f.name
  <2> SUFFICES ASSUME NEW f \in all PROVE \E g \in files' \cup rest : g.name = f.name
    OBVIOUS
  <2>1. PICK g \in files \cup {head} \cup rest : g.name = f.name
    BY <1>6
  <2>2. CASE g.name = head.name
    BY <1>5, <2>1, <2>2
  <2>3. CASE g.name # head.name
    BY <1>5, <2>1, <2>3
  <2>4. QED
    BY <2>2, <2>3
<1>8. OfTheRead'
  BY <1>4, <1>5, <1>6, <1>7 DEF OfTheRead
<1>9. Readable'
  BY DEF WriteNext, Importing, Readable, Lists, ToSet
<1>10. ReadSoFar'
  BY DEF WriteNext, Importing, ReadSoFar, ToSet
<1>11. QED
  BY <1>8, <1>9, <1>10 DEF Importing

\* Only the phase changes, or nothing.
LEMMA OthersImporting ==
    ASSUME Importing, ReadFails \/ WriteFails \/ WriteEnd \/ UNCHANGED importVars
    PROVE  Importing'
<1>1. WriteKdefFiles' = WriteKdefFiles
  BY SameFiles DEF ReadFails, WriteFails, WriteEnd, importVars
<1> DEFINE all == ToSet(WriteKdefFiles)
<1>2. /\ ToSet(WriteKdefFiles)' = all /\ ToSet(unwritten)' = ToSet(unwritten)
      /\ Lists(unwritten)' = Lists(unwritten)
      /\ UNCHANGED <<fromFile, cluster, stable, changes, gets, read, unwritten, files>>
  BY <1>1 DEF ReadFails, WriteFails, WriteEnd, importVars, ToSet, Lists
<1> HIDE DEF all
<1>3. /\ phase = "read" => files = {} /\ unwritten = <<>>
      /\ files \cup ToSet(unwritten) \subseteq all /\ Lists(unwritten)
      /\ phase \in {"write", "done"} =>
            gets = 8 /\ \A f \in all : \E g \in files \cup ToSet(unwritten) : g.name = f.name
      /\ phase = "done" => unwritten = <<>>
  BY DEF Importing, OfTheRead, all
<1>4. /\ \/ phase' \in {"failed", phase}
         \/ phase = "write" /\ phase' = "done" /\ unwritten = <<>>
      /\ phase' \in {"read", "nothing", "write", "done", "failed"}
  BY DEF ReadFails, WriteFails, WriteEnd, importVars, Importing, Readable
<1>5. OfTheRead'
  BY <1>2, <1>3, <1>4 DEF OfTheRead
<1>6. Readable'
  BY <1>2, <1>4 DEF Importing, Readable, Lists, ToSet
<1>7. ReadSoFar'
  BY <1>2 DEF Importing, ReadSoFar, ToSet
<1>8. QED
  BY <1>5, <1>6, <1>7 DEF Importing

LEMMA StepImporting == Importing /\ [ImportNext]_importVars => Importing'
BY DeleteImporting, CreateImporting, GetImporting, ReadFileImporting, MapImporting, WriteNextImporting,
   OthersImporting
   DEF ImportNext, ImportEnd

LEMMA AlwaysImporting == ImportSpec => []Importing
BY InitImporting, StepImporting, PTL DEF ImportSpec
\* Every block that has been written was made of an object read.
LEMMA WrittenBlocks ==
    ASSUME Importing, NEW f \in files \cup ToSet(unwritten)
    PROVE  /\ f.blocks # {} /\ f.name # <<>>
           /\ \A b \in f.blocks : \E kind \in DOMAIN BlockKind : b \in ToSet(BlocksOf(kind))
<1>1. f \in ToSet(WriteKdefFiles) /\ Lists(read)
  BY DEF Importing, Readable, OfTheRead
<1>2. IsOwnFile(f) \/ IsCommonFile(f)
  BY <1>1, FilesAre
<1>3. CASE IsOwnFile(f)
  <2>1. PICK kind \in ServedObjects : \E b \in ToSet(BlocksOf(kind)) : f = OwnFile(b)
    BY <1>3 DEF IsOwnFile
  <2>2. PICK b \in ToSet(BlocksOf(kind)) : f = OwnFile(b)
    BY <2>1
  <2>3. f.blocks = {b} /\ f.name = b.name
    BY <2>2 DEF OwnFile
  <2>4. PICK i \in DOMAIN Read(kind) : b = BlockOf(Read(kind)[i], <<kind, i>>)
    BY <1>1, <2>2, BlocksOfKind DEF PlaceOf
  <2>5. Read(kind)[i] \in ToSet(read) /\ Read(kind)[i].kind = kind
    BY <1>1, ReadOfKind DEF ToSet
  <2>6. kind \in DOMAIN BlockKind
    BY DEF ServedObjects, BlockKind
  <2>7. b.name = Read(kind)[i].name
    BY <2>4, <2>5, <2>6, BlockFields DEF Describes
  <2>8. Read(kind)[i].name # <<>>
    BY <2>5 DEF Importing, Readable, ObjectOK
  <2>9. QED
    BY <2>2, <2>3, <2>6, <2>7, <2>8
<1>4. CASE IsCommonFile(f)
  <2>1. PICK kind \in DOMAIN SharedFile :
          Gathered(KindsFiled(SharedFile[kind])) # {} /\ f = CommonFile(SharedFile[kind])
    BY <1>4 DEF IsCommonFile
  <2>2. f.blocks = Gathered(KindsFiled(SharedFile[kind])) /\ f.name = SharedFile[kind]
    BY <2>1 DEF CommonFile
  <2>3. SharedFile[kind] # <<>>
    BY DEF SharedFile
  <2>4. DOMAIN SharedFile \subseteq DOMAIN BlockKind
    BY DEF SharedFile, BlockKind
  <2>5. QED
    BY <2>1, <2>2, <2>3, <2>4 DEF Gathered, KindsFiled
<1>5. QED
  BY <1>2, <1>3, <1>4

\* The object that a block was made of.
LEMMA BlockIsOf ==
    ASSUME Lists(read), NEW kind \in DOMAIN BlockKind, NEW b \in ToSet(BlocksOf(kind))
    PROVE  /\ SourceObject(b) \in ToSet(read) /\ SourceObject(b).kind = kind
           /\ b = BlockOf(SourceObject(b), b.at) /\ Describes(b, SourceObject(b), b.at)
           /\ \E i \in DOMAIN Read(kind) : b.at = <<kind, i>>
<1>1. PICK i \in DOMAIN Read(kind) : b = BlockOf(Read(kind)[i], <<kind, i>>)
  BY BlocksOfKind DEF PlaceOf
<1>2. Read(kind)[i] \in ToSet(read) /\ Read(kind)[i].kind = kind
  BY ReadOfKind DEF ToSet
<1>3. Describes(b, Read(kind)[i], <<kind, i>>)
  BY <1>1, <1>2, BlockFields
<1>4. b.at = <<kind, i>>
  BY <1>3 DEF Describes
<1>5. SourceObject(b) = Read(kind)[i]
  BY <1>4 DEF SourceObject
<1>6. QED
  BY <1>1, <1>2, <1>3, <1>4, <1>5

\* The type invariant (mapper.go:37-79, writer.go:11-90): names, kinds and
\* blocks are what they may be, and no file is written empty.
THEOREM Typing == ImportSpec => []TypeOK
<1>1. Importing => TypeOK
  <2> SUFFICES ASSUME Importing PROVE TypeOK
    OBVIOUS
  <2>1. /\ fromFile \in BOOLEAN /\ changes \in 0..MaxChanges /\ gets \in 0..Len(GetOrder)
        /\ phase \in {"read", "nothing", "write", "done", "failed"}
        /\ stable \subseteq ToSet(cluster)
    BY OrderOfGets DEF Importing, Readable
  <2>2. \A i \in DOMAIN read : read[i].kind \in ReadKinds
    BY DEF Importing, Readable, ToSet
  <2>3. \A f \in files \cup ToSet(unwritten) : f.blocks # {} /\ f.name # <<>>
    BY WrittenBlocks
  <2>4. ASSUME NEW b \in Written
        PROVE  DOMAIN b = DOMAIN Blank /\ b.kind \in {BlockKind[k] : k \in DOMAIN BlockKind}
    <3>1. PICK kind \in DOMAIN BlockKind : b \in ToSet(BlocksOf(kind))
      BY WrittenBlocks DEF Written
    <3>2. QED
      BY <3>1, BlockIsOf DEF Importing, Readable, Describes
  <2>5. QED
    BY <2>1, <2>2, <2>3, <2>4 DEF TypeOK
<1>2. QED
  BY <1>1, AlwaysImporting, PTL
\* Every object that was read has its block in a file of the name that belongs
\* to it.
LEMMA FiledUnderItsName ==
    ASSUME Lists(read), NEW o \in ToSet(read), o.kind \in DOMAIN BlockKind
    PROVE  \E f \in ToSet(WriteKdefFiles) :
              /\ f.name = FileOf(o)
              /\ \E b \in f.blocks : b \in ToSet(BlocksOf(o.kind)) /\ b = BlockOf(o, b.at)
<1>1. o \in ToSet(Read(o.kind)) /\ Lists(Read(o.kind))
  BY ReadOfKind
<1>2. PICK i \in DOMAIN Read(o.kind) : Read(o.kind)[i] = o
  BY <1>1, ListIndices
<1> DEFINE b == BlockOf(o, <<o.kind, i>>)
<1>3. b \in ToSet(BlocksOf(o.kind))
  BY <1>2, BlocksOfKind DEF PlaceOf
<1>4. Describes(b, o, <<o.kind, i>>)
  BY BlockFields
<1>5. b.name = o.name /\ b.at = <<o.kind, i>>
  BY <1>4 DEF Describes
<1>6. b = BlockOf(o, b.at)
  BY <1>5
<1> HIDE DEF b
<1>7. CASE o.kind \in DOMAIN SharedFile
  <2> DEFINE f == CommonFile(SharedFile[o.kind])
  <2>1. o.kind \in KindsFiled(SharedFile[o.kind])
    BY <1>7 DEF KindsFiled
  <2>2. b \in Gathered(KindsFiled(SharedFile[o.kind]))
    BY <1>3, <2>1 DEF Gathered
  <2>3. IsCommonFile(f)
    BY <1>7, <2>2 DEF IsCommonFile
  <2>4. f \in ToSet(WriteKdefFiles)
    BY <2>3, FilesAre
  <2>5. f.name = FileOf(o) /\ b \in f.blocks
    BY <1>7, <2>2 DEF CommonFile, FileOf
  <2> HIDE DEF f
  <2>6. QED
    BY <1>3, <1>6, <2>4, <2>5
<1>8. CASE o.kind \notin DOMAIN SharedFile
  <2> DEFINE f == OwnFile(b)
  <2>1. o.kind \in ServedObjects
    BY <1>8 DEF SharedFile, BlockKind, ServedObjects
  <2>2. IsOwnFile(f)
    BY <1>3, <2>1 DEF IsOwnFile
  <2>3. f \in ToSet(WriteKdefFiles)
    BY <2>2, FilesAre
  <2>4. f.name = FileOf(o) /\ b \in f.blocks
    BY <1>5, <1>8 DEF OwnFile, FileOf
  <2> HIDE DEF f
  <2>5. QED
    BY <1>3, <1>6, <2>3, <2>4
<1>9. QED
  BY <1>7, <1>8

\* What a file holds was made of objects that go to a file of its name, and a
\* file for a kind holds all there is of it.
LEMMA HeldByName ==
    ASSUME Lists(read), NEW f \in ToSet(WriteKdefFiles)
    PROVE  \/ \E c \in f.blocks : \E kind \in ServedObjects :
                 /\ c \in ToSet(BlocksOf(kind)) /\ f.name = SourceObject(c).name
           \/ \E kind \in DOMAIN SharedFile :
                 /\ f.name = SharedFile[kind] /\ f.blocks # {}
                 /\ f.blocks = Gathered(KindsFiled(f.name))
<1>1. IsOwnFile(f) \/ IsCommonFile(f)
  BY FilesAre
<1>2. CASE IsOwnFile(f)
  <2>1. PICK kind \in ServedObjects : \E b \in ToSet(BlocksOf(kind)) : f = OwnFile(b)
    BY <1>2 DEF IsOwnFile
  <2>2. PICK b \in ToSet(BlocksOf(kind)) : f = OwnFile(b)
    BY <2>1
  <2>3. f.blocks = {b} /\ f.name = b.name
    BY <2>2 DEF OwnFile
  <2>4. kind \in DOMAIN BlockKind
    BY DEF ServedObjects, BlockKind
  <2>5. b.name = SourceObject(b).name
    BY <2>4, BlockIsOf DEF Describes
  <2>6. QED
    BY <2>2, <2>3, <2>5
<1>3. CASE IsCommonFile(f)
  BY <1>3 DEF IsCommonFile, CommonFile
<1>4. QED
  BY <1>1, <1>2, <1>3

\* An import that ends well has a block for every object that was there from
\* beginning to end, unless a file of its name took the place of its own
\* (reader.go:63-262, mapper.go:37-79, writer.go:11-90).
THEOREM StableImported == ImportSpec => []StableObjectsAreImported
<1>1. Importing => StableObjectsAreImported
  <2> SUFFICES ASSUME Importing, phase = "done",
                      NEW o \in stable, o.kind \in DOMAIN BlockKind, Wanted(o),
                      ~(o.kind \in {"ClusterRole", "ClusterRoleBinding"} /\ ~fromFile),
                      ~\E p \in ToSet(read) : Rival(o, p)
               PROVE  \E b \in Written : <<b.kind, b.ns, b.name>> = <<BlockKind[o.kind], o.ns, o.name>>
    BY DEF StableObjectsAreImported
  <2>1. Lists(read) /\ gets = 8 /\ unwritten = <<>>
    BY DEF Importing, Readable, OfTheRead
  <2>2. o \in ToSet(read)
    <3>1. o.kind \in ReadKinds
      BY OrderOfGets
    <3>2. CASE fromFile
      BY <2>1, <3>1, <3>2 DEF Importing, ReadSoFar
    <3>3. CASE ~fromFile
      <4>1. PICK n \in 1..8 : GetOrder[n] = o.kind
        BY <3>1, <3>3, OrderOfGets
      <4>2. QED
        BY <2>1, <4>1 DEF Importing, ReadSoFar
    <3>4. QED
      BY <3>2, <3>3
  <2>3. PICK f \in ToSet(WriteKdefFiles) :
          /\ f.name = FileOf(o)
          /\ \E b \in f.blocks : b \in ToSet(BlocksOf(o.kind)) /\ b = BlockOf(o, b.at)
    BY <2>1, <2>2, FiledUnderItsName
  <2>4. ToSet(unwritten) = {}
    BY <2>1 DEF ToSet
  <2>5. PICK g \in files : g.name = FileOf(o)
    BY <2>3, <2>4 DEF Importing, OfTheRead
  <2>6. g \in ToSet(WriteKdefFiles)
    BY DEF Importing, OfTheRead
  <2>7. \A b : b = BlockOf(o, b.at) => <<b.kind, b.ns, b.name>> = <<BlockKind[o.kind], o.ns, o.name>>
    BY BlockFields DEF Describes
  <2>8. ASSUME NEW c \in g.blocks, NEW kind \in DOMAIN BlockKind, c \in ToSet(BlocksOf(kind)),
               FileOf(SourceObject(c)) = FileOf(o), ~({o.kind, kind} \subseteq DOMAIN SharedFile)
        PROVE  \E b \in g.blocks : b = BlockOf(o, b.at)
    <3>1. SourceObject(c) \in ToSet(read) /\ SourceObject(c).kind = kind /\ c = BlockOf(SourceObject(c), c.at)
      BY <2>1, <2>8, BlockIsOf
    <3>2. SourceObject(c) = o
      BY <2>8, <3>1 DEF Rival
    <3>3. QED
      BY <3>1, <3>2
  <2>9. CASE \E c \in g.blocks : \E kind \in ServedObjects :
                /\ c \in ToSet(BlocksOf(kind)) /\ g.name = SourceObject(c).name
    <3>1. PICK c \in g.blocks, kind \in ServedObjects :
            c \in ToSet(BlocksOf(kind)) /\ g.name = SourceObject(c).name
      BY <2>9
    <3>2. kind \in DOMAIN BlockKind /\ kind \notin DOMAIN SharedFile
      BY DEF ServedObjects, BlockKind, SharedFile
    <3>3. SourceObject(c).kind = kind
      BY <2>1, <3>1, <3>2, BlockIsOf
    <3>4. FileOf(SourceObject(c)) = FileOf(o)
      BY <2>5, <3>1, <3>2, <3>3 DEF FileOf
    <3>5. \E b \in g.blocks : b = BlockOf(o, b.at)
      BY <2>8, <3>1, <3>2, <3>4
    <3>6. QED
      BY <2>7, <3>5 DEF Written
  <2>10. CASE \E kind \in DOMAIN SharedFile :
                 g.name = SharedFile[kind] /\ g.blocks # {} /\ g.blocks = Gathered(KindsFiled(g.name))
    <3>1. CASE o.kind \in DOMAIN SharedFile
      <4>1. o.kind \in KindsFiled(g.name)
        BY <2>5, <3>1 DEF FileOf, KindsFiled
      <4>2. \E b \in g.blocks : b = BlockOf(o, b.at)
        <5>1. PICK b \in f.blocks : b \in ToSet(BlocksOf(o.kind)) /\ b = BlockOf(o, b.at)
          BY <2>3
        <5>2. b \in g.blocks
          BY <2>10, <4>1, <5>1 DEF Gathered
        <5>3. QED
          BY <5>1, <5>2
      <4>3. QED
        BY <2>7, <4>2 DEF Written
    <3>2. CASE o.kind \notin DOMAIN SharedFile
      <4>1. PICK c : c \in g.blocks
        BY <2>10
      <4>2. PICK kind \in KindsFiled(g.name) : c \in ToSet(BlocksOf(kind))
        BY <2>10, <4>1 DEF Gathered
      <4>3. kind \in DOMAIN SharedFile /\ SharedFile[kind] = g.name /\ kind \in DOMAIN BlockKind
        BY DEF KindsFiled, SharedFile, BlockKind
      <4>4. SourceObject(c).kind = kind
        BY <2>1, <4>2, <4>3, BlockIsOf
      <4>5. FileOf(SourceObject(c)) = FileOf(o)
        BY <2>5, <4>3, <4>4 DEF FileOf
      <4>6. \E b \in g.blocks : b = BlockOf(o, b.at)
        BY <2>8, <3>2, <4>1, <4>2, <4>3, <4>5
      <4>7. QED
        BY <2>7, <4>6 DEF Written
    <3>3. QED
      BY <3>1, <3>2
  <2>11. QED
    BY <2>1, <2>6, <2>9, <2>10, HeldByName
<1>2. QED
  BY <1>1, AlwaysImporting, PTL
(***************************************************************************)
(* The pods of imported workloads.                                         *)
(***************************************************************************)
\* The last one of the elements of a list that a test holds of is found.
LEMMA MaxIsGreatest ==
    ASSUME NEW n \in Nat, NEW T, T \subseteq 1..n, T # {}
    PROVE  Max(T) \in T
<1> DEFINE below == {n - k : k \in T}
<1>1. below \subseteq Nat /\ below # {}
  <2>1. \A k \in 1..n : n - k \in Nat
    OBVIOUS
  <2>2. QED
    BY <2>1
<1>2. PICK x \in below : \A y \in below : x <= y
  BY <1>1, LeastNatural
<1>3. PICK k \in T : x = n - k
  BY <1>2
<1>4. \A j \in T : n - k <= n - j
  BY <1>2, <1>3
<1>5. \A j \in T : k >= j
  BY <1>4
<1>6. QED
  BY <1>5 DEF Max

LEMMA LastPath ==
    ASSUME NEW c, Lists(c.mounts), NEW name \in Mentions(c)
    PROVE  PathOf(c, name) \in {m.path : m \in ToSet(c.mounts)}
<1> DEFINE s == c.mounts
           I == {i \in 1..Len(s) : s[i].name = name}
<1>1. Len(s) \in Nat /\ DOMAIN s = 1..Len(s) /\ \A i \in DOMAIN s : s[i] \in ToSet(s)
  BY ListIndices
<1>2. I # {} /\ I \subseteq 1..Len(s)
  BY <1>1 DEF Mentions, ToSet
<1>3. SelectLastInSeq(s, LAMBDA m : m.name = name) = IF I # {} THEN Max(I) ELSE 0
  BY DEF SelectLastInSeq
<1>4. Max(I) \in I
  BY <1>1, <1>2, MaxIsGreatest
<1>5. PathOf(c, name) = s[Max(I)].path
  BY <1>2, <1>3 DEF PathOf
<1>6. QED
  BY <1>1, <1>4, <1>5

\* The volumes of the pod that a container mounts.
MountedOf(w, c) == {v \in ToSet(w.volumes) : v.name \in Mentions(c)}

LEMMA VolumeFields ==
    ASSUME NEW v, NEW c
    PROVE  /\ VolumeOf(v, c).name = v.name /\ VolumeOf(v, c).path = PathOf(c, v.name)
           /\ VolumeOf(v, c).csiAttributes = FALSE /\ VolumeOf(v, c).csiSecret = None
           /\ v.source[1] \in Sources \ {"csi"} => VolumeOf(v, c).sources = [k \in {v.source[1]} |-> v.source[2]]
<1> DEFINE sources == IF v.source[1] \in Sources \ {"csi"} THEN [k \in {v.source[1]} |-> v.source[2]] ELSE <<>>
           path == PathOf(c, v.name)
           u == VolumeOf(v, c)
<1>1. u = [BlankVolume EXCEPT !.name = v.name, !.path = path, !.sources = sources]
  BY DEF VolumeOf
<1>2. v.source[1] \in Sources \ {"csi"} => sources = [k \in {v.source[1]} |-> v.source[2]]
  OBVIOUS
<1> HIDE DEF sources, path, u
<1>3. /\ u.name = v.name /\ u.path = path /\ u.sources = sources
      /\ u.csiAttributes = FALSE /\ u.csiSecret = None
  BY <1>1 DEF BlankVolume
<1>4. QED
  BY <1>2, <1>3 DEF u, path

LEMMA MountedVolumesAre ==
    ASSUME NEW w, Lists(w.volumes), NEW c
    PROVE  /\ Lists(MountedVolumes(w, c))
           /\ ToSet(MountedVolumes(w, c)) = {VolumeOf(v, c) : v \in MountedOf(w, c)}
<1> DEFINE mounted == Only(w.volumes, {v \in ToSet(w.volumes) : v.name \in Mentions(c)})
<1>1. Lists(mounted) /\ ToSet(mounted) = MountedOf(w, c)
  BY OnlyCollects DEF MountedOf
<1>2. MountedVolumes(w, c) = [i \in DOMAIN mounted |-> VolumeOf(mounted[i], c)]
  BY DEF MountedVolumes
<1> HIDE DEF mounted
<1>3. Lists(MountedVolumes(w, c))
  BY <1>1, <1>2, FunctionsList
<1>4. ToSet(MountedVolumes(w, c)) = {VolumeOf(v, c) : v \in ToSet(mounted)}
  BY <1>2 DEF ToSet
<1>5. QED
  BY <1>1, <1>3, <1>4

LEMMA ContainerFields ==
    ASSUME NEW w, NEW c
    PROVE  /\ ContainerOf(w, c).volumes = MountedVolumes(w, c) /\ ContainerOf(w, c).ports = c.ports
           /\ ContainerOf(w, c).env = c.env /\ ContainerOf(w, c).envFrom = c.envFrom
           /\ ContainerOf(w, c).probes = {} /\ ContainerOf(w, c).hooks = {} /\ ContainerOf(w, c).pullPolicy = None
           /\ DOMAIN ContainerOf(w, c) = DOMAIN BlankContainer
BY DEF ContainerOf, BlankContainer

LEMMA InitFields ==
    ASSUME NEW c
    PROVE  /\ ToSet(InitOf(c).mounts) = Mentions(c)
           /\ InitOf(c).envFrom = c.envFrom /\ InitOf(c).args = c.args
           /\ InitOf(c).env = {} /\ InitOf(c).pullPolicy = None
<1> DEFINE names == [i \in DOMAIN c.mounts |-> c.mounts[i].name]
           d == InitOf(c)
<1>1. d = [BlankInit EXCEPT !.mounts = names, !.envFrom = c.envFrom, !.args = c.args]
  BY DEF InitOf
<1>2. ToSet(names) = Mentions(c)
  BY DEF ToSet, Mentions
<1> HIDE DEF names, d
<1>3. d.mounts = names /\ d.envFrom = c.envFrom /\ d.args = c.args /\ d.env = {} /\ d.pullPolicy = None
  BY <1>1 DEF BlankInit
<1>4. QED
  BY <1>2, <1>3 DEF d

Paths(g) == g.rules[1].backends

IsIngressOf(i, w, g) ==
    /\ DOMAIN i = DOMAIN BlankIngress
    /\ i.name = IngressName(w, g) /\ i.class = None
    /\ i.backend = IF Paths(g) # <<>> /\ Paths(g)[1].service # w.name THEN Paths(g)[1].service ELSE None
    /\ i.port = IF Paths(g) # <<>> THEN IngressPort(w, Paths(g)[1]) ELSE None
    /\ i.host = IF Len(HostsOf(g)) = 1 THEN HostsOf(g)[1] ELSE None
    /\ i.hosts = IF Len(HostsOf(g)) = 1 THEN <<>> ELSE HostsOf(g)
    /\ i.secret = IF g.tls # <<>> THEN g.tls[1] ELSE None
    /\ i.tls \in BOOLEAN /\ (i.tls <=> g.tls # <<>>)

LEMMA IngressIs ==
    ASSUME NEW w, NEW g
    PROVE  IsIngressOf(IngressOf(w, g), w, g)
<1> DEFINE i == IngressOf(w, g)
           name == IngressName(w, g)
           backend == IF Paths(g) # <<>> /\ Paths(g)[1].service # w.name THEN Paths(g)[1].service ELSE None
           port == IF Paths(g) # <<>> THEN IngressPort(w, Paths(g)[1]) ELSE None
           host == IF Len(HostsOf(g)) = 1 THEN HostsOf(g)[1] ELSE None
           others == IF Len(HostsOf(g)) = 1 THEN <<>> ELSE HostsOf(g)
           tls == g.tls # <<>>
           secret == IF g.tls # <<>> THEN g.tls[1] ELSE None
<1>1. i = [BlankIngress EXCEPT !.name = name, !.backend = backend, !.port = port, !.host = host,
               !.hosts = others, !.tls = tls, !.secret = secret]
  BY DEF IngressOf, Paths
<1>2. tls \in BOOLEAN
  OBVIOUS
<1> HIDE DEF i, name, backend, port, host, others, tls, secret
<1>3. /\ DOMAIN i = DOMAIN BlankIngress /\ i.name = name /\ i.backend = backend /\ i.port = port
      /\ i.host = host /\ i.hosts = others /\ i.secret = secret /\ i.class = None
  BY <1>1 DEF BlankIngress
<1>4. i.tls = tls
  BY <1>1 DEF BlankIngress
<1>5. i.tls \in BOOLEAN /\ (i.tls <=> tls)
  BY <1>2, <1>4
<1>6. QED
  BY <1>3, <1>5 DEF i, name, backend, port, host, others, tls, secret, IsIngressOf
\* The objects read, and the workloads among them, as the theorems below need them.
Sound == Lists(read) /\ \A o \in ToSet(read) : ObjectOK(o)

LEMMA NaturalLists == \A s \in Seq(Nat \ {0}) : Lists(s)
<1> SUFFICES ASSUME NEW s \in Seq(Nat \ {0}) PROVE Lists(s)
  OBVIOUS
<1>1. s \in Seq(ToSet(s))
  BY SeqIsProper DEF ProperSeq
<1>2. QED
  BY <1>1 DEF Lists, ToSet

LEMMA IngressesAreRead ==
    ASSUME Lists(read), NEW w
    PROVE  /\ Lists(IngressesOf(w)) /\ Lists(Ruled(w)) /\ DOMAIN IngressBlocks(w) = DOMAIN Ruled(w)
           /\ Lists(IngressBlocks(w))
           /\ ToSet(Ruled(w)) = {g \in ToSet(IngressesOf(w)) : g.rules # <<>>}
           /\ ToSet(IngressesOf(w)) =
                  IF w.kind = "DaemonSet" \/ ServiceOf(w) = None THEN {}
                  ELSE {g \in ToSet(read) : g.kind = "Ingress" /\ \E k \in Backends(g) : k.service = ServiceOf(w).name}
           /\ \A i \in DOMAIN Ruled(w) : IngressBlocks(w)[i] = IngressOf(w, Ruled(w)[i])
<1> DEFINE all == {g \in ToSet(read) : g.kind = "Ingress" /\ \E k \in Backends(g) : k.service = ServiceOf(w).name}
<1>1. Lists(IngressesOf(w)) /\ ToSet(IngressesOf(w)) = IF w.kind = "DaemonSet" \/ ServiceOf(w) = None THEN {} ELSE all
  <2>1. Lists(<<>>) /\ ToSet(<<>>) = {}
    BY DEF Lists, ToSet
  <2> DEFINE T == {g \in ToSet(Read("Ingress")) : \E k \in Backends(g) : k.service = ServiceOf(w).name}
  <2>2. Lists(Only(Read("Ingress"), T)) /\ ToSet(Only(Read("Ingress"), T)) = T
    BY ReadOfKind, OnlyCollects
  <2>3. T = all
    BY ReadOfKind
  <2>4. IngressesOf(w) = IF w.kind = "DaemonSet" \/ ServiceOf(w) = None THEN <<>> ELSE Only(Read("Ingress"), T)
    BY DEF IngressesOf
  <2> HIDE DEF T, all
  <2>5. QED
    BY <2>1, <2>2, <2>3, <2>4
<1>2. Lists(Ruled(w)) /\ ToSet(Ruled(w)) = {g \in ToSet(IngressesOf(w)) : g.rules # <<>>}
  BY <1>1, OnlyCollects DEF Ruled
<1>3. IngressBlocks(w) = [i \in DOMAIN Ruled(w) |-> IngressOf(w, Ruled(w)[i])]
  BY DEF IngressBlocks
<1>4. Lists(IngressBlocks(w))
  BY <1>2, <1>3, FunctionsList
<1>5. QED
  BY <1>1, <1>2, <1>3, <1>4

\* What a workload becomes is a block as the parser makes them.
LEMMA WorkloadIsOK ==
    ASSUME Sound, NEW w \in ToSet(read), w.kind \in ServedObjects, NEW at
    PROVE  BlockOK(WorkloadBlock(w, at))
<1> DEFINE b == WorkloadBlock(w, at)
<1>1. w.name \in Name /\ w.ns \in Name \cup {None} /\ w.sa \in Name \cup {None} /\ PodOK(w)
  BY DEF Sound, ObjectOK, WorkloadObjects, ServedObjects
<1>2. DOMAIN b = DOMAIN Blank /\ b.kind = BlockKind[w.kind] /\ b.name = w.name /\ b.ns = w.ns
  BY WorkloadFields DEF Describes
<1>3. b.kind \in KindsOfBlock
  BY <1>2 DEF ServedObjects, BlockKind, KindsOfBlock, NamespacedKinds, WorkloadKinds, ServedKinds
<1>4. b.sa \in Name \cup {None}
  BY <1>1, WorkloadFields DEF IsWorkload
<1>5. b.service \in Name \cup {None}
  <2>1. ServiceOf(w) = None \/ ServiceOf(w).name \in Name
    BY ServiceIsRead DEF Sound, ObjectOK
  <2>2. <<>> \in Name
    BY DEF Name
  <2>3. b.service = IF ServiceOf(w) = None THEN None ELSE ServiceBlock(w, ServiceOf(w))
    BY WorkloadFields DEF IsWorkload
  <2>4. QED
    BY <2>1, <2>2, <2>3 DEF ServiceBlock
<1>6. b.volumes = <<>> /\ b.ingresses = IngressBlocks(w)
      /\ b.containers = [i \in DOMAIN w.containers |-> ContainerOf(w, w.containers[i])]
      /\ b.inits = [i \in DOMAIN w.inits |-> InitOf(w.inits[i])]
  BY WorkloadFields DEF IsWorkload
<1> HIDE DEF b
<1>7. Lists(b.volumes) /\ Lists(b.ingresses) /\ Lists(b.containers) /\ Lists(b.inits)
  <2>1. Lists(<<>>)
    BY DEF Lists
  <2>2. Lists(b.containers)
    BY <1>1, <1>6, FunctionsList DEF PodOK
  <2>3. Lists(b.inits)
    BY <1>1, <1>6, FunctionsList DEF PodOK
  <2>4. QED
    BY <1>6, <2>1, <2>2, <2>3, IngressesAreRead DEF Sound
<1>8. \A i \in DOMAIN b.ingresses :
          DOMAIN b.ingresses[i] = DOMAIN BlankIngress /\ b.ingresses[i].tls \in BOOLEAN
  <2> SUFFICES ASSUME NEW i \in DOMAIN b.ingresses
               PROVE  DOMAIN b.ingresses[i] = DOMAIN BlankIngress /\ b.ingresses[i].tls \in BOOLEAN
    OBVIOUS
  <2>1. b.ingresses[i] = IngressOf(w, Ruled(w)[i])
    BY <1>6, IngressesAreRead DEF Sound
  <2>2. IsIngressOf(b.ingresses[i], w, Ruled(w)[i])
    BY <2>1, IngressIs
  <2>3. QED
    BY <2>2 DEF IsIngressOf
<1>9. ASSUME NEW i \in DOMAIN b.containers
      PROVE  /\ Lists(b.containers[i].volumes) /\ Lists(b.containers[i].ports)
             /\ \A ref \in EnvRefs(b.containers[i]) : ref[1] \in ReferredKinds
  <2>1. i \in DOMAIN w.containers /\ b.containers[i] = ContainerOf(w, w.containers[i])
    BY <1>6
  <2>2. Lists(b.containers[i].volumes)
    BY <1>1, <2>1, ContainerFields, MountedVolumesAre DEF PodOK
  <2>3. Lists(b.containers[i].ports)
    BY <1>1, <2>1, ContainerFields, NaturalLists DEF PodOK
  <2>4. \A ref \in EnvRefs(b.containers[i]) : ref[1] \in ReferredKinds
    BY <1>1, <2>1, ContainerFields DEF PodOK, RefsOK, EnvRefs
  <2>5. QED
    BY <2>2, <2>3, <2>4
<1>10. ASSUME NEW i \in DOMAIN b.inits
       PROVE  \A ref \in EnvRefs(b.inits[i]) : ref[1] \in ReferredKinds
  BY <1>1, <1>6, InitFields DEF PodOK, RefsOK, EnvRefs
<1>11. BlockOK(b)
  BY <1>1, <1>2, <1>3, <1>4, <1>5, <1>7, <1>8, <1>9, <1>10 DEF BlockOK
<1>12. QED
  BY <1>11 DEF b

LEMMA CronJobIsOK ==
    ASSUME Sound, NEW w \in ToSet(read), w.kind = "CronJob", NEW at
    PROVE  /\ BlockOK(CronJobBlock(w, at))
           /\ CronJobBlock(w, at).containers = <<JobContainer(w)>> /\ CronJobBlock(w, at).inits = <<>>
           /\ DOMAIN CronJobBlock(w, at).containers = {1} /\ CronJobBlock(w, at).containers[1] = JobContainer(w)
           /\ 1 \in DOMAIN w.containers
           /\ JobContainer(w).volumes = MountedVolumes(w, w.containers[1])
           /\ EnvRefs(JobContainer(w)) = EnvRefs(w.containers[1])
<1> DEFINE b == CronJobBlock(w, at)
           c == JobContainer(w)
<1>1. w.name \in Name /\ w.ns \in Name \cup {None} /\ PodOK(w) /\ w.containers # <<>>
  BY DEF Sound, ObjectOK, WorkloadObjects, PodOK
<1>2. 1 \in DOMAIN w.containers
  BY <1>1, ListIndices, EmptySeq DEF PodOK
<1>3. DOMAIN b = DOMAIN Blank /\ b.kind = "cronjob" /\ b.name = w.name /\ b.ns = w.ns
  BY CronJobFieldsAre DEF Describes, BlockKind
<1>4. b.containers = <<c>>
  BY CronJobFieldsAre DEF IsCronJob
<1>5. b.sa = None /\ b.service = None /\ b.volumes = <<>> /\ b.ingresses = <<>> /\ b.inits = <<>>
  BY CronJobFieldsAre DEF IsCronJob
<1>6. c.volumes = MountedVolumes(w, w.containers[1]) /\ c.ports = <<>>
      /\ c.env = w.containers[1].env /\ c.envFrom = w.containers[1].envFrom
  BY DEF JobContainer, ContainerOf, BlankContainer
<1> HIDE DEF b, c
<1>7. Lists(<<>>) /\ DOMAIN <<>> = {}
  BY DEF Lists
<1>8. Lists(b.containers) /\ DOMAIN b.containers = {1} /\ b.containers[1] = c
  BY <1>4, OfOne
<1>9. Lists(c.volumes)
  BY <1>1, <1>6, MountedVolumesAre DEF PodOK
<1>10. \A ref \in EnvRefs(c) : ref[1] \in ReferredKinds
  BY <1>1, <1>2, <1>6 DEF EnvRefs, PodOK, RefsOK
<1>11. b.kind \in KindsOfBlock
  BY <1>3 DEF KindsOfBlock, NamespacedKinds, WorkloadKinds
<1>12. BlockOK(b)
  BY <1>1, <1>3, <1>5, <1>6, <1>7, <1>8, <1>9, <1>10, <1>11 DEF BlockOK
<1>13. QED
  BY <1>2, <1>4, <1>5, <1>6, <1>8, <1>12 DEF b, c, EnvRefs
\* A workload block and the object it was made of.
Made(b, w) ==
    /\ w \in ToSet(read) /\ w.kind \in ServedObjects \cup {"CronJob"} /\ ObjectOK(w) /\ PodOK(w)
    /\ Describes(b, w, b.at) /\ BlockOK(b)
    /\ w.kind \in ServedObjects => IsWorkload(b, w) /\ b.kind \in ServedKinds
    /\ w.kind = "CronJob" => IsCronJob(b, w) /\ b.kind = "cronjob"
    /\ ObjectKind[b.kind] = w.kind

LEMMA WorkloadsAreMade ==
    ASSUME Importing, NEW b \in Written, b.kind \in WorkloadKinds
    PROVE  Sound /\ Made(b, SourceObject(b))
<1> DEFINE w == SourceObject(b)
<1>1. PICK kind \in DOMAIN BlockKind : b \in ToSet(BlocksOf(kind))
  BY WrittenBlocks DEF Written
<1>2. Sound
  BY DEF Importing, Readable, Sound
<1>3. w \in ToSet(read) /\ w.kind = kind /\ b = BlockOf(w, b.at) /\ Describes(b, w, b.at)
  BY <1>1, <1>2, BlockIsOf DEF Sound
<1> HIDE DEF w
<1>4. b.kind = BlockKind[kind]
  BY <1>3 DEF Describes
<1>5. kind \in ServedObjects \cup {"CronJob"}
  BY <1>4 DEF BlockKind, ServedObjects, WorkloadKinds, ServedKinds
<1>6. ObjectOK(w) /\ PodOK(w)
  BY <1>2, <1>3, <1>5 DEF Sound, ObjectOK, WorkloadObjects, ServedObjects
<1>7. CASE kind \in ServedObjects
  <2>1. b = WorkloadBlock(w, b.at)
    BY <1>3, <1>7, BlockForms
  <2>2. IsWorkload(b, w)
    BY <2>1, WorkloadFields
  <2>3. BlockOK(b)
    BY <1>2, <1>3, <1>7, <2>1, WorkloadIsOK
  <2>4. b.kind \in ServedKinds /\ ObjectKind[b.kind] = kind
    BY <1>4, <1>7 DEF BlockKind, ServedObjects, ServedKinds, ObjectKind
  <2>5. QED
    BY <1>2, <1>3, <1>6, <1>7, <2>2, <2>3, <2>4 DEF Made, w, ServedObjects
<1>8. CASE kind = "CronJob"
  <2>1. b = CronJobBlock(w, b.at)
    BY <1>1, <1>3, <1>8, BlockForms
  <2>2. IsCronJob(b, w)
    BY <2>1, CronJobFieldsAre
  <2>3. BlockOK(b)
    BY <1>2, <1>3, <1>8, <2>1, CronJobIsOK
  <2>4. b.kind = "cronjob" /\ ObjectKind[b.kind] = kind
    BY <1>4, <1>8 DEF BlockKind, ObjectKind
  <2>5. QED
    BY <1>2, <1>3, <1>6, <1>8, <2>2, <2>3, <2>4 DEF Made, w, ServedObjects
<1>9. QED
  BY <1>5, <1>7, <1>8

\* The containers of the block are the pod's first ones, with the volumes they mount.
LEMMA ContainersAreMade ==
    ASSUME Sound, NEW b, NEW w, Made(b, w), NEW i \in DOMAIN b.containers
    PROVE  /\ i \in DOMAIN w.containers
           /\ Lists(b.containers[i].volumes)
           /\ ToSet(b.containers[i].volumes) =
                  {VolumeOf(v, w.containers[i]) : v \in MountedOf(w, w.containers[i])}
           /\ EnvRefs(b.containers[i]) = EnvRefs(w.containers[i])
<1>1. i \in DOMAIN w.containers /\ b.containers[i].volumes = MountedVolumes(w, w.containers[i])
      /\ EnvRefs(b.containers[i]) = EnvRefs(w.containers[i])
  <2>1. CASE w.kind \in ServedObjects
    <3>1. b.containers = [k \in DOMAIN w.containers |-> ContainerOf(w, w.containers[k])]
      BY <2>1 DEF Made, IsWorkload
    <3>2. i \in DOMAIN w.containers /\ b.containers[i] = ContainerOf(w, w.containers[i])
      BY <3>1
    <3>3. QED
      BY <3>2, ContainerFields DEF EnvRefs
  <2>2. CASE w.kind = "CronJob"
    <3>1. b.containers = <<JobContainer(w)>>
      BY <2>2 DEF Made, IsCronJob
    <3>2. i = 1 /\ b.containers[1] = JobContainer(w)
      BY <3>1, OfOne
    <3>3. /\ 1 \in DOMAIN w.containers /\ JobContainer(w).volumes = MountedVolumes(w, w.containers[1])
          /\ EnvRefs(JobContainer(w)) = EnvRefs(w.containers[1])
      BY <2>2, CronJobIsOK DEF Made
    <3>4. QED
      BY <3>2, <3>3
  <2>3. QED
    BY <2>1, <2>2 DEF Made
<1>2. Lists(w.volumes)
  BY DEF Made, PodOK
<1>3. QED
  BY <1>1, <1>2, MountedVolumesAre

LEMMA VolumesAreOfThePod ==
    ASSUME Sound, NEW b, NEW w, Made(b, w), NEW i \in DOMAIN b.containers
    PROVE  \A u \in ToSet(b.containers[i].volumes) :
               \E v \in ToSet(w.volumes) : u = VolumeOf(v, w.containers[i])
<1>1. ToSet(b.containers[i].volumes) = {VolumeOf(v, w.containers[i]) : v \in MountedOf(w, w.containers[i])}
  BY ContainersAreMade
<1>2. MountedOf(w, w.containers[i]) \subseteq ToSet(w.volumes)
  BY DEF MountedOf
<1>3. QED
  BY <1>1, <1>2

\* The workload's object among those that its block becomes again.
LEMMA WorkloadAgain ==
    ASSUME NEW b, NEW w, Made(b, w)
    PROVE  /\ MainObject(b) \in Again(b, w.kind, w.name)
           /\ \A m \in Again(b, w.kind, w.name) : m = MainObject(b)
           /\ MainObject(b).spec = Pod(b)
<1>1. b.kind \in WorkloadKinds /\ b.kind \in KindsOfBlock /\ b.kind # "ingress" /\ b.kind \notin ClusterKinds
  BY DEF Made, WorkloadKinds, ServedKinds, KindsOfBlock, NamespacedKinds, ClusterKinds
<1>2. MainObject(b).kind = w.kind /\ MainObject(b).name = w.name /\ MainObject(b).ns = b.ns
      /\ MainObject(b).spec = Pod(b)
  BY <1>1, ObjectFields DEF Made, Describes
<1>3. MainObject(b) \in Objects(b, None)
  BY <1>1 DEF Objects, MainObject
<1>4. ASSUME NEW m \in Again(b, w.kind, w.name) PROVE m = MainObject(b)
  <2>1. m \in Objects(b, None) /\ m.kind = w.kind
    BY DEF Again
  <2>2. m.kind \notin {"Service", "HorizontalPodAutoscaler", "Ingress", "HTTPRoute", "Certificate"}
    BY <2>1 DEF Made, ServedObjects
  <2>3. QED
    BY <1>1, <2>1, <2>2, KindTellsForm
<1>5. QED
  BY <1>2, <1>3, <1>4 DEF Again

LEMMA SourceOfOne ==
    ASSUME NEW v, NEW s \in Sources, NEW x, v.sources = [k \in {s} |-> x]
    PROVE  SourceOf(v) = <<s, x>>
<1> DEFINE I == {i \in 1..Len(Precedence) : Precedence[i] \in DOMAIN v.sources}
<1>1. SelectInSeq(Precedence, LAMBDA kind : kind \in DOMAIN v.sources) = IF I # {} THEN Min(I) ELSE 0
  BY DEF SelectInSeq
<1>2. \E i \in 1..Len(Precedence) : Precedence[i] = s
  BY DEF Precedence, Sources
<1>3. Len(Precedence) = 6
  BY DEF Precedence
<1>4. I # {} /\ I \subseteq 1..6
  BY <1>2, <1>3
<1>5. Min(I) \in I
  BY <1>4, MinIsLeast
<1>6. Precedence[Min(I)] = s /\ Min(I) # 0 /\ v.sources[s] = x
  BY <1>3, <1>5
<1> HIDE DEF I
<1>7. QED
  BY <1>1, <1>4, <1>6 DEF SourceOf
LEMMA NamesOfVolumes == \A s : \A u \in ToSet(s) : u.name \in VolumeNames(s)
BY DEF VolumeNames, ToSet

LEMMA VolumesAreWritten ==
    ASSUME Sound, NEW b, NEW w, Made(b, w), NEW i \in DOMAIN b.containers
    PROVE  \A v \in ToSet(w.volumes) :
               v.name \in Mentions(w.containers[i])
               => VolumeOf(v, w.containers[i]) \in ToSet(b.containers[i].volumes)
<1>1. ToSet(b.containers[i].volumes) = {VolumeOf(v, w.containers[i]) : v \in MountedOf(w, w.containers[i])}
  BY ContainersAreMade
<1>2. \A v \in ToSet(w.volumes) : v.name \in Mentions(w.containers[i]) => v \in MountedOf(w, w.containers[i])
  BY DEF MountedOf
<1>3. QED
  BY <1>1, <1>2

\* The names of the volumes that the containers of a block declare are those
\* that the containers of the pod mount of the pod's volumes.
LEMMA NamesAreShared ==
    ASSUME Sound, NEW b, NEW w, Made(b, w)
    PROVE  VolumeNames(OwnVolumes(b)) = Shared(w, b)
<1>1. BlockOK(b)
  BY DEF Made
<1>2. \A u : u \in ToSet(OwnVolumes(b)) <=> \E i \in DOMAIN b.containers : u \in ToSet(b.containers[i].volumes)
  BY <1>1, OwnVolumesCollect
<1>3. ASSUME NEW n \in VolumeNames(OwnVolumes(b))
      PROVE  n \in Shared(w, b)
  <2>1. PICK u \in ToSet(OwnVolumes(b)) : u.name = n
    BY <1>3 DEF VolumeNames, ToSet
  <2>2. PICK i \in DOMAIN b.containers : u \in ToSet(b.containers[i].volumes)
    BY <1>2, <2>1
  <2>3. PICK v \in MountedOf(w, w.containers[i]) : u = VolumeOf(v, w.containers[i])
    BY <2>2, ContainersAreMade
  <2>4. v.name = n
    BY <2>1, <2>3, VolumeFields
  <2>5. v \in ToSet(w.volumes) /\ n \in Mentions(w.containers[i])
    BY <2>3, <2>4 DEF MountedOf
  <2>6. n \in VolumeNames(w.volumes)
    BY <2>4, <2>5, NamesOfVolumes
  <2>7. QED
    BY <2>2, <2>5, <2>6 DEF Shared
<1>4. ASSUME NEW n \in Shared(w, b)
      PROVE  n \in VolumeNames(OwnVolumes(b))
  <2>1. PICK i \in DOMAIN b.containers : n \in Mentions(w.containers[i])
    BY <1>4 DEF Shared
  <2>2. PICK v \in ToSet(w.volumes) : v.name = n
    BY <1>4 DEF Shared, VolumeNames, ToSet
  <2>3. VolumeOf(v, w.containers[i]) \in ToSet(b.containers[i].volumes)
    BY <2>1, <2>2, VolumesAreWritten
  <2>4. VolumeOf(v, w.containers[i]) \in ToSet(OwnVolumes(b))
    BY <1>2, <2>1, <2>3
  <2>5. VolumeOf(v, w.containers[i]).name = n
    BY <2>2, VolumeFields
  <2>6. QED
    BY <2>4, <2>5, NamesOfVolumes
<1>5. QED
  BY <1>3, <1>4

\* A container of the block mounts what the pod's container mounted last under
\* each name.
LEMMA ContainerMountsReturn ==
    ASSUME Sound, NEW b, NEW w, Made(b, w), NEW i \in DOMAIN b.containers
    PROVE  ContainerMounts(b.containers[i]) = LastMounts(w, w.containers[i])
<1> DEFINE c == w.containers[i]
           mount(u) == [name |-> u.name, path |-> u.path]
           last(n) == [name |-> n, path |-> PathOf(c, n)]
<1>1. ContainerMounts(b.containers[i]) = {mount(u) : u \in ToSet(b.containers[i].volumes)}
  BY DEF ContainerMounts, ToSet
<1>2. ToSet(b.containers[i].volumes) = {VolumeOf(v, c) : v \in MountedOf(w, c)}
  BY ContainersAreMade
<1>3. \A v : mount(VolumeOf(v, c)) = last(v.name)
  BY VolumeFields
<1>4. LastMounts(w, c) = {last(n) : n \in Mentions(c) \cap VolumeNames(w.volumes)}
  BY DEF LastMounts
<1>5. \A n : n \in Mentions(c) \cap VolumeNames(w.volumes) <=> \E v \in MountedOf(w, c) : n = v.name
  BY DEF MountedOf, VolumeNames, ToSet
<1> HIDE DEF c, mount, last
<1>6. {mount(u) : u \in {VolumeOf(v, c) : v \in MountedOf(w, c)}} = {last(v.name) : v \in MountedOf(w, c)}
  BY <1>3
<1>7. {last(n) : n \in Mentions(c) \cap VolumeNames(w.volumes)} = {last(v.name) : v \in MountedOf(w, c)}
  BY <1>5
<1>8. QED
  BY <1>1, <1>2, <1>4, <1>6, <1>7 DEF c

\* An init container of the block mounts those names that a container mounts too.
LEMMA InitMountsReturn ==
    ASSUME Sound, NEW b, NEW w, Made(b, w), NEW i \in DOMAIN b.inits
    PROVE  {t.name : t \in InitMounts(b, b.inits[i])} = Mentions(w.inits[i]) \cap Shared(w, b)
<1>1. w.kind \in ServedObjects
  <2>1. ASSUME w.kind = "CronJob" PROVE FALSE
    <3>1. b.inits = <<>>
      BY <2>1 DEF Made, IsCronJob
    <3>2. QED
      BY <3>1
  <2>2. QED
    BY <2>1 DEF Made
<1>2. b.inits = [k \in DOMAIN w.inits |-> InitOf(w.inits[k])] /\ b.volumes = <<>> /\ BlockOK(b)
  BY <1>1 DEF Made, IsWorkload
<1>3. b.inits[i] = InitOf(w.inits[i])
  BY <1>2
<1>4. ToSet(b.inits[i].mounts) = Mentions(w.inits[i])
  BY <1>3, InitFields
<1>5. ToSet(b.volumes) = {}
  BY <1>2 DEF ToSet
<1>6. ToSet(Known(b)) = ToSet(OwnVolumes(b))
  BY <1>2, <1>5, KnownCollect
<1>7. VolumeNames(Known(b)) = VolumeNames(OwnVolumes(b))
  <2>1. \A s : VolumeNames(s) = {u.name : u \in ToSet(s)}
    BY DEF VolumeNames, ToSet
  <2>2. QED
    BY <1>6, <2>1
<1> DEFINE names == ToSet(b.inits[i].mounts) \cap VolumeNames(Known(b))
           mount(n) == [name |-> n, path |-> FindVolume(b, n).path]
<1>8. InitMounts(b, b.inits[i]) = {mount(n) : n \in names}
  BY DEF InitMounts
<1>9. \A n : mount(n).name = n
  OBVIOUS
<1> HIDE DEF names, mount
<1>10. {t.name : t \in {mount(n) : n \in names}} = names
  BY <1>9
<1>11. QED
  BY <1>4, <1>7, <1>8, <1>10, NamesAreShared DEF names

\* A volume that a container mounts, and no claim template provides, comes back.
LEMMA SourcesReturn ==
    ASSUME Sound, NEW b, NEW w, Made(b, w), NEW v \in ToSet(w.volumes),
           v.name \in Shared(w, b) \ DOMAIN w.claims, v.source[1] \in Sources \ {"csi"}
    PROVE  \E u \in PodVolumes(b) : u.name = v.name /\ u.source = v.source
<1>1. BlockOK(b)
  BY DEF Made
<1>2. PICK i \in DOMAIN b.containers : v.name \in Mentions(w.containers[i])
  BY DEF Shared
<1> DEFINE vol == VolumeOf(v, w.containers[i])
<1>3. vol \in ToSet(b.containers[i].volumes)
  BY <1>2, VolumesAreWritten
<1>4. vol \in ToSet(OwnVolumes(b)) /\ vol.name = v.name
  BY <1>1, <1>3, OwnVolumesCollect, VolumeFields
<1>5. v.source = <<v.source[1], v.source[2]>>
  BY DEF Made, PodOK, ToSet
<1> HIDE DEF vol
<1>6. ASSUME NEW u \in ToSet(OwnVolumes(b)), u.name = v.name
      PROVE  BuildVolume(u).name = v.name /\ BuildVolume(u).source = v.source
  <2>1. PICK j \in DOMAIN b.containers : u \in ToSet(b.containers[j].volumes)
    BY <1>1, OwnVolumesCollect
  <2>2. PICK x \in ToSet(w.volumes) : u = VolumeOf(x, w.containers[j])
    BY <2>1, VolumesAreOfThePod
  <2>3. x.name = v.name
    <3>1. VolumeOf(x, w.containers[j]).name = x.name
      BY VolumeFields
    <3>2. QED
      BY <1>6, <2>2, <3>1
  <2>4. x = v
    BY <2>3 DEF Made, PodOK, ToSet
  <2>5. u.sources = [k \in {v.source[1]} |-> v.source[2]]
    BY <2>2, <2>4, VolumeFields
  <2>6. SourceOf(u) = <<v.source[1], v.source[2]>>
    BY <2>5, SourceOfOne
  <2>7. QED
    BY <1>5, <1>6, <2>6 DEF BuildVolume
<1>7. CASE b.kind = "cronjob"
  <2>1. BuildVolume(vol) \in PodVolumes(b)
    BY <1>4, <1>7 DEF PodVolumes
  <2>2. QED
    BY <1>4, <1>6, <2>1
<1>8. CASE b.kind # "cronjob"
  <2>1. IsWorkload(b, w)
    BY <1>8 DEF Made
  <2>2. b.volumes = <<>> /\ DOMAIN b.claims = DOMAIN w.claims
    BY <2>1 DEF IsWorkload
  <2>3. v.name \in VolumeNames(OwnVolumes(b))
    BY <1>4, NamesOfVolumes
  <2>4. VolumeNames(b.volumes) = {} /\ ToSet(b.volumes) = {}
    BY <2>2 DEF VolumeNames, ToSet
  <2>5. BuildVolume(FindVolume(b, v.name)) \in PodVolumes(b)
    BY <1>8, <2>2, <2>3, <2>4 DEF PodVolumes
  <2>6. ToSet(Known(b)) = ToSet(OwnVolumes(b))
    BY <1>1, <2>4, KnownCollect
  <2>7. v.name \in VolumeNames(Known(b))
    BY <1>4, <2>6, NamesOfVolumes
  <2>8. FindVolume(b, v.name) \in ToSet(OwnVolumes(b)) /\ FindVolume(b, v.name).name = v.name
    BY <1>1, <2>6, <2>7, FoundVolume
  <2>9. QED
    BY <1>6, <2>5, <2>8
<1>9. QED
  BY <1>7, <1>8

\* Every container mounts again what it mounted of the pod's volumes, where it
\* mounted it, and nothing else; every init container what it shares with a
\* container; and each volume comes from its source (mapper.go:587-633 against
\* podspec.go:57-78, 292-330, deployment_v2.go:65-86).
THEOREM MountsComeBack == ImportSpec => []MountsReturn
<1>1. Importing => MountsReturn
  <2> SUFFICES ASSUME Importing, phase = "done", NEW b \in Written, b.kind \in WorkloadKinds,
                      NEW m \in Again(b, SourceObject(b).kind, SourceObject(b).name)
               PROVE  LET w == SourceObject(b)
                      IN  /\ \A i \in DOMAIN b.containers :
                                m.spec.mounts.containers[i] = LastMounts(w, w.containers[i])
                          /\ \A i \in DOMAIN b.inits :
                                {t.name : t \in m.spec.mounts.inits[i]} = Mentions(w.inits[i]) \cap Shared(w, b)
                          /\ \A v \in ToSet(w.volumes) :
                                /\ v.name \in Shared(w, b) \ DOMAIN w.claims /\ v.source[1] \in Sources \ {"csi"}
                                => \E u \in m.spec.volumes : u.name = v.name /\ u.source = v.source
    BY DEF MountsReturn
  <2> DEFINE w == SourceObject(b)
  <2>1. Sound /\ Made(b, w)
    BY WorkloadsAreMade
  <2> HIDE DEF w
  <2>2. m.spec.mounts = Mounts(b) /\ m.spec.volumes = PodVolumes(b)
    <3>1. m.spec = Pod(b)
      BY <2>1, WorkloadAgain DEF w
    <3>2. QED
      BY <3>1 DEF Pod
  <2>3. ASSUME NEW i \in DOMAIN b.containers
        PROVE  m.spec.mounts.containers[i] = LastMounts(w, w.containers[i])
    <3>1. Mounts(b).containers[i] = ContainerMounts(b.containers[i])
      BY DEF Mounts
    <3>2. QED
      BY <2>1, <2>2, <3>1, ContainerMountsReturn
  <2>4. ASSUME NEW i \in DOMAIN b.inits
        PROVE  {t.name : t \in m.spec.mounts.inits[i]} = Mentions(w.inits[i]) \cap Shared(w, b)
    <3>1. Mounts(b).inits[i] = InitMounts(b, b.inits[i])
      BY DEF Mounts
    <3>2. m.spec.mounts.inits[i] = InitMounts(b, b.inits[i])
      BY <2>2, <3>1
    <3>3. QED
      BY <2>1, <3>2, InitMountsReturn
  <2>5. ASSUME NEW v \in ToSet(w.volumes), v.name \in Shared(w, b) \ DOMAIN w.claims,
               v.source[1] \in Sources \ {"csi"}
        PROVE  \E u \in m.spec.volumes : u.name = v.name /\ u.source = v.source
    BY <2>1, <2>2, <2>5, SourcesReturn
  <2>6. QED
    BY <2>3, <2>4, <2>5 DEF w
<1>2. QED
  BY <1>1, AlwaysImporting, PTL
(***************************************************************************)
(* The hosts of an ingress, each at its place.                             *)
(***************************************************************************)
LEMMA AlphabetIndices ==
    \A h, k \in {Alphabet[n] : n \in DOMAIN Alphabet} : Index(h) \in Nat /\ (Index(h) = Index(k) => h = k)
BY IndexFinds, ImporterAssumption

HostSet(g) == {g.rules[i].host : i \in DOMAIN g.rules} \ {None}

LEMMA HostsAreSorted ==
    ASSUME NEW g, Lists(g.rules), HostSet(g) \subseteq {Alphabet[n] : n \in DOMAIN Alphabet}
    PROVE  /\ Lists(HostsOf(g)) /\ ToSet(HostsOf(g)) = HostSet(g)
           /\ Len(HostsOf(g)) = 1 => HostsOf(g)[1] \in HostSet(g)
<1> DEFINE hosts == HostSet(g)
           before(h) == {k \in hosts : Index(k) < Index(h)}
           rank == [h \in hosts |-> Cardinality(before(h))]
           c == Cardinality(hosts)
           all == {g.rules[i].host : i \in DOMAIN g.rules}
           rules == [i \in 1..Len(g.rules) |-> g.rules[i].host]
<1>1. Len(g.rules) \in Nat /\ DOMAIN g.rules = 1..Len(g.rules)
  BY ListIndices
<1>2. IsFiniteSet(hosts) /\ c \in Nat
  <2>1. IsFiniteSet(1..Len(g.rules))
    BY <1>1, FS_Interval
  <2>2. rules \in Surjection(1..Len(g.rules), all)
    BY <1>1 DEF Surjection
  <2>3. IsFiniteSet(all)
    BY <2>1, <2>2, FS_Surjection
  <2> HIDE DEF all
  <2>4. IsFiniteSet(all \ {None})
    BY <2>3, FS_RemoveElement
  <2>5. hosts = all \ {None}
    BY DEF HostSet, all
  <2>6. QED
    BY <2>4, <2>5, FS_CardinalityType
<1>3. \A h \in hosts : Index(h) \in Nat
  BY AlphabetIndices
<1>4. \A h, k \in hosts : Index(h) = Index(k) => h = k
  BY AlphabetIndices
<1> HIDE DEF all, rules
<1>5. ASSUME NEW h \in hosts
      PROVE  IsFiniteSet(before(h)) /\ Cardinality(before(h)) \in 0..(c - 1)
  <2>1. before(h) \in SUBSET (hosts \ {h})
    BY <1>3
  <2>2. IsFiniteSet(hosts \ {h}) /\ Cardinality(hosts \ {h}) = c - 1
    BY <1>2, FS_RemoveElement
  <2>3. IsFiniteSet(before(h)) /\ Cardinality(before(h)) <= c - 1
    BY <2>1, <2>2, FS_Subset
  <2>4. Cardinality(before(h)) \in Nat
    BY <2>3, FS_CardinalityType
  <2>5. QED
    BY <1>2, <2>3, <2>4
<1>6. ASSUME NEW h \in hosts, NEW k \in hosts, Index(h) < Index(k)
      PROVE  Cardinality(before(h)) # Cardinality(before(k))
  <2>1. before(h) \in SUBSET before(k) /\ h \in before(k) /\ h \notin before(h)
    BY <1>3, <1>6
  <2>2. IsFiniteSet(before(k))
    BY <1>5
  <2>3. before(h) # before(k)
    BY <2>1
  <2> HIDE DEF before
  <2>4. QED
    BY <2>1, <2>2, <2>3, FS_Subset
<1>7. \A h, k \in hosts : Cardinality(before(h)) = Cardinality(before(k)) => h = k
  <2> SUFFICES ASSUME NEW h \in hosts, NEW k \in hosts, h # k
               PROVE  Cardinality(before(h)) # Cardinality(before(k))
    OBVIOUS
  <2>1. Index(h) < Index(k) \/ Index(k) < Index(h)
    BY <1>3, <1>4
  <2>2. QED
    BY <1>6, <2>1
<1>8. rank \in [hosts -> 0..(c - 1)]
  BY <1>5
<1>9. \A h, k \in hosts : rank[h] = rank[k] => h = k
  BY <1>7
<1>10. \A h \in hosts : rank[h] = Cardinality(before(h))
  OBVIOUS
<1> HIDE DEF rank, before
<1>11. rank \in Injection(hosts, 0..(c - 1))
  BY <1>8, <1>9 DEF Injection, IsInjective
<1>12. IsFiniteSet(0..(c - 1)) /\ Cardinality(0..(c - 1)) = c
  <2>1. 0 \in Int /\ c - 1 \in Int
    BY <1>2
  <2>2. IsFiniteSet(0..(c - 1)) /\ Cardinality(0..(c - 1)) = IF 0 > c - 1 THEN 0 ELSE (c - 1) - 0 + 1
    BY <2>1, FS_Interval
  <2>3. QED
    BY <1>2, <2>2
<1>13. rank \in Surjection(hosts, 0..(c - 1))
  BY <1>11, <1>12, FS_Injection
<1>14. \A n \in 0..(c - 1) : \E h \in hosts : rank[h] = n
  BY <1>13 DEF Surjection
<1> DEFINE s == [n \in 1..c |-> CHOOSE h \in hosts : rank[h] = n - 1]
<1>15. \A n \in 1..c : s[n] \in hosts /\ rank[s[n]] = n - 1
  BY <1>2, <1>14
<1>16. s \in Seq(hosts) /\ Len(s) = c /\ DOMAIN s = 1..c
  <2>1. s \in [1..c -> hosts]
    BY <1>15
  <2> HIDE DEF s
  <2>2. QED
    BY <1>2, <2>1
<1>17. \A h \in hosts : rank[h] + 1 \in 1..c /\ s[rank[h] + 1] = h
  <2> SUFFICES ASSUME NEW h \in hosts PROVE rank[h] + 1 \in 1..c /\ s[rank[h] + 1] = h
    OBVIOUS
  <2>1. rank[h] \in 0..(c - 1)
    BY <1>8
  <2>2. rank[h] + 1 \in 1..c /\ (rank[h] + 1) - 1 = rank[h]
    BY <1>2, <2>1
  <2>3. rank[s[rank[h] + 1]] = rank[h] /\ s[rank[h] + 1] \in hosts
    BY <1>15, <2>2
  <2> HIDE DEF s
  <2>4. QED
    BY <1>9, <2>2, <2>3
<1>18. HostsOf(g) = s
  <2>1. HostsOf(g) = [n \in 1..c |-> CHOOSE h \in hosts : Cardinality(before(h)) = n - 1]
    BY DEF HostsOf, HostSet, before
  <2>2. \A n \in 1..c : (CHOOSE h \in hosts : Cardinality(before(h)) = n - 1) = CHOOSE h \in hosts : rank[h] = n - 1
    BY <1>10
  <2>3. QED
    BY <2>1, <2>2
<1> HIDE DEF s
<1>19. ToSet(s) = hosts
  BY <1>15, <1>16, <1>17 DEF ToSet
<1>20. Lists(s)
  BY <1>16, SeqIsProper DEF Lists, ProperSeq, ToSet
<1>21. Len(s) = 1 => s[1] \in hosts
  BY <1>15, <1>16
<1>22. QED
  BY <1>18, <1>19, <1>20, <1>21
(***************************************************************************)
(* What a workload's block becomes again.                                  *)
(***************************************************************************)
LEMMA DeadlineReturns ==
    ASSUME NEW b, NEW w, Made(b, w), w.kind = "CronJob", w.deadline \notin {None, 0}
    PROVE  Deadline(b) = w.deadline
<1>1. w.deadline \in Nat
  BY DEF Made, PodOK
<1>2. b.deadline = formatDuration(w.deadline)
  BY DEF Made, IsCronJob
<1>3. /\ parseDuration(formatDuration(w.deadline)) = w.deadline
      /\ formatDuration(w.deadline)[1] \in Nat /\ formatDuration(w.deadline)[2] \in DOMAIN SecondsIn
  BY <1>1, DurationsReturn
<1>4. formatDuration(w.deadline) = <<formatDuration(w.deadline)[1], formatDuration(w.deadline)[2]>>
  BY DEF formatDuration
<1>5. formatDuration(w.deadline) \in Nat \X DOMAIN SecondsIn
  BY <1>3, <1>4
<1>6. formatDuration(w.deadline) # None
  BY <1>5, ImporterAssumption
<1>7. QED
  BY <1>2, <1>3, <1>6 DEF Deadline

LEMMA WorkloadReturns ==
    ASSUME Sound, NEW b, NEW w, Made(b, w)
    PROVE  \E m \in Again(b, w.kind, w.name) :
              /\ w.kind \in {"Deployment", "StatefulSet"} => m.spec.replicas = w.replicas
              /\ b.kind \in ServedKinds => Under(m.spec.sa) = Under(w.sa)
              /\ w.kind = "CronJob" /\ w.deadline \notin {None, 0} => m.spec.deadline = w.deadline
              /\ \A i \in DOMAIN b.containers : EnvRefs(w.containers[i]) \subseteq m.spec.refs
              /\ \A i \in DOMAIN b.inits : w.inits[i].envFrom \subseteq m.spec.refs
<1> DEFINE p == Pod(b)
<1>1. /\ p.sa = b.sa /\ p.refs = PodReferences(b)
      /\ p.replicas = IF b.kind \in {"deployment", "statefulset"} THEN b.replicas ELSE None
      /\ p.deadline = IF b.kind = "cronjob" THEN Deadline(b) ELSE None
  BY DEF Pod
<1> HIDE DEF p
<1>2. w.kind \in {"Deployment", "StatefulSet"} => p.replicas = w.replicas
  <2>1. SUFFICES ASSUME w.kind \in {"Deployment", "StatefulSet"} PROVE p.replicas = w.replicas
    OBVIOUS
  <2>2. IsWorkload(b, w) /\ b.kind \in {"deployment", "statefulset"}
    BY <2>1 DEF Made, Describes, BlockKind, ServedObjects
  <2>3. QED
    BY <1>1, <2>2 DEF IsWorkload
<1>3. b.kind \in ServedKinds => Under(p.sa) = Under(w.sa)
  <2>1. SUFFICES ASSUME b.kind \in ServedKinds PROVE Under(p.sa) = Under(w.sa)
    OBVIOUS
  <2>2. w.kind # "CronJob"
    BY <2>1 DEF Made, ServedKinds
  <2>3. b.sa = IF w.sa = DefaultAccount THEN None ELSE w.sa
    BY <2>2 DEF Made, IsWorkload
  <2>4. QED
    BY <1>1, <2>3 DEF Under
<1>4. w.kind = "CronJob" /\ w.deadline \notin {None, 0} => p.deadline = w.deadline
  BY <1>1, DeadlineReturns DEF Made
<1>5. \A i \in DOMAIN b.containers : EnvRefs(w.containers[i]) \subseteq p.refs
  <2>1. \A i \in DOMAIN b.containers : EnvRefs(w.containers[i]) = EnvRefs(b.containers[i])
    BY ContainersAreMade
  <2>2. \A i \in DOMAIN b.containers : EnvRefs(b.containers[i]) \subseteq PodReferences(b)
    BY DEF PodReferences, NamedReferences
  <2>3. QED
    BY <1>1, <2>1, <2>2
<1>6. \A i \in DOMAIN b.inits : w.inits[i].envFrom \subseteq p.refs
  <2>1. \A i \in DOMAIN b.inits : EnvRefs(b.inits[i]) \subseteq PodReferences(b)
    BY DEF PodReferences, NamedReferences
  <2>2. CASE w.kind = "CronJob"
    <3>1. DOMAIN b.inits = {}
      BY <2>2 DEF Made, IsCronJob
    <3>2. QED
      BY <3>1
  <2>3. CASE w.kind # "CronJob"
    <3>1. b.inits = [i \in DOMAIN w.inits |-> InitOf(w.inits[i])]
      BY <2>3 DEF Made, IsWorkload
    <3>2. \A i \in DOMAIN b.inits : b.inits[i] = InitOf(w.inits[i])
      BY <3>1
    <3>3. \A i \in DOMAIN b.inits : EnvRefs(b.inits[i]) = w.inits[i].envFrom
      BY <3>2, InitFields DEF EnvRefs
    <3>4. QED
      BY <1>1, <2>1, <3>3
  <2>4. QED
    BY <2>2, <2>3
<1>7. MainObject(b) \in Again(b, w.kind, w.name) /\ MainObject(b).spec = p
  BY WorkloadAgain DEF p
<1>8. QED
  BY <1>2, <1>3, <1>4, <1>5, <1>6, <1>7

\* The Service of a workload, as its block names it.
LEMMA ServiceIsNamed ==
    ASSUME Sound, NEW b, NEW w, Made(b, w), b.kind \in ServedKinds
    PROVE  /\ HasService(b) <=> ServiceOf(w) # None
           /\ ServiceOf(w) # None =>
                 /\ ServiceName(b) = ServiceOf(w).name /\ b.servicePorts = PortBlocks(ServiceOf(w))
                 /\ ServiceOf(w) \in ToSet(read) /\ ServiceOf(w).kind = "Service" /\ ObjectOK(ServiceOf(w))
<1>1. IsWorkload(b, w) /\ b.name = w.name
  BY DEF Made, Describes, ServedKinds
<1>2. /\ b.service = IF ServiceOf(w) = None THEN None ELSE ServiceBlock(w, ServiceOf(w))
      /\ ServiceOf(w) # None => b.servicePorts = PortBlocks(ServiceOf(w))
  BY <1>1 DEF IsWorkload
<1>3. ServiceOf(w) # None => ServiceOf(w) \in ToSet(read) /\ ServiceOf(w).kind = "Service" /\ ObjectOK(ServiceOf(w))
  BY ServiceIsRead DEF Sound
<1>4. ServiceOf(w) # None => ServiceOf(w).name \in Name \ {<<>>}
  BY <1>3 DEF ObjectOK
<1>5. None \notin Name /\ <<>> \in Name
  BY ImporterAssumption DEF Name
<1>6. ServiceOf(w) # None => b.service \in Name /\ ServiceName(b) = ServiceOf(w).name
  BY <1>1, <1>2, <1>4, <1>5 DEF ServiceBlock, ServiceName
<1>7. HasService(b) <=> ServiceOf(w) # None
  BY <1>2, <1>5, <1>6 DEF HasService
<1>8. QED
  BY <1>2, <1>3, <1>6, <1>7

LEMMA ServiceReturns ==
    ASSUME Sound, NEW b, NEW w, Made(b, w), b.kind \in ServedKinds, ServiceOf(w) # None, ServiceOf(w).ports # <<>>
    PROVE  \E m \in Again(b, "Service", ServiceOf(w).name) : m.spec.ports = ToSet(ServiceOf(w).ports)
<1> DEFINE svc == ServiceOf(w)
           m == ServiceObject(b)
<1>1. HasService(b) /\ ServiceName(b) = svc.name /\ b.servicePorts = PortBlocks(svc) /\ ObjectOK(svc)
      /\ svc.kind = "Service"
  BY ServiceIsNamed
<1>2. svc.ports \in Seq(Nat \ {0}) /\ svc.ports # <<>>
  BY <1>1 DEF ObjectOK
<1> HIDE DEF svc
<1>3. DOMAIN svc.ports # {}
  <2>1. Len(svc.ports) \in Nat /\ Len(svc.ports) # 0 /\ DOMAIN svc.ports = 1..Len(svc.ports)
    BY <1>2, EmptySeq
  <2>2. 1 \in DOMAIN svc.ports
    BY <2>1
  <2>3. QED
    BY <2>2
<1>4. b.servicePorts = [i \in DOMAIN svc.ports |-> [number |-> svc.ports[i]]]
  BY <1>1 DEF PortBlocks
<1>5. b.servicePorts # <<>>
  BY <1>3, <1>4
<1>6. {b.servicePorts[i].number : i \in DOMAIN b.servicePorts} = ToSet(svc.ports)
  BY <1>4 DEF ToSet
<1>7. Service(b).ports = ToSet(svc.ports)
  BY <1>5, <1>6 DEF Service
<1>8. m \in Objects(b, None)
  BY <1>1 DEF Objects, Services, ServiceObject
<1>9. m.kind = "Service" /\ m.ns = b.ns /\ m.name = svc.name /\ m.spec = Service(b)
  BY <1>1, ObjectFields
<1> HIDE DEF m
<1>10. m \in Again(b, "Service", svc.name)
  BY <1>8, <1>9 DEF Again
<1>11. QED
  BY <1>7, <1>9, <1>10 DEF svc
\* The port that an ingress leaves out is the one that it is given again.
LEMMA FirstPortReturns ==
    ASSUME NEW b, NEW w, Made(b, w), w.kind # "CronJob", AppPort(w) # 0
    PROVE  ContainerPorts(b) # <<>> /\ ContainerPorts(b)[1] = AppPort(w)
<1>1. w.containers # <<>> /\ w.containers[1].ports # <<>> /\ AppPort(w) = w.containers[1].ports[1]
  BY DEF AppPort
<1>2. b.containers = [i \in DOMAIN w.containers |-> ContainerOf(w, w.containers[i])]
  BY DEF Made, IsWorkload
<1>3. Lists(w.containers) /\ \A i \in DOMAIN w.containers : w.containers[i].ports \in Seq(Nat \ {0})
  BY DEF Made, PodOK
<1> DEFINE s == [i \in DOMAIN b.containers |-> b.containers[i].ports]
<1>4. Len(w.containers) \in Nat \ {0} /\ DOMAIN w.containers = 1..Len(w.containers)
  BY <1>1, <1>3, ListIndices, EmptySeq
<1>5. \A i \in 1..Len(w.containers) : s[i] = w.containers[i].ports
  BY <1>2, <1>4, ContainerFields
<1>6. DOMAIN s = 1..Len(w.containers) /\ ContainerPorts(b) = FlattenSeq(s)
  BY <1>2, <1>4 DEF ContainerPorts
<1>7. s = [i \in 1..Len(w.containers) |-> s[i]]
  BY <1>6
<1> HIDE DEF s
<1>8. s \in [1..Len(w.containers) -> Seq(Nat \ {0})]
  BY <1>3, <1>4, <1>5, <1>7
<1>9. s \in Seq(Seq(Nat \ {0})) /\ Len(s) # 0
  BY <1>4, <1>8
<1>10. s # <<>>
  BY <1>9, EmptySeq
<1>11. s[1] = w.containers[1].ports
  BY <1>4, <1>5
<1>12. FlattenSeq(s) # <<>> /\ FlattenSeq(s)[1] = s[1][1]
  BY <1>1, <1>9, <1>10, <1>11, FlattenSeqStarts
<1>13. QED
  BY <1>1, <1>6, <1>11, <1>12

\* An ingress block and the ingress that it was made of.
MadeIngress(b, w, i, g) ==
    /\ i \in DOMAIN b.ingresses /\ i \in DOMAIN Ruled(w) /\ g = Ruled(w)[i]
    /\ IsIngressOf(b.ingresses[i], w, g)
    /\ g \in ToSet(read) /\ g.kind = "Ingress" /\ ObjectOK(g) /\ g.rules # <<>>
    /\ w.kind \in {"Deployment", "StatefulSet"} /\ ServiceOf(w) # None
    /\ \E k \in Backends(g) : k.service = ServiceOf(w).name

LEMMA IngressesAreMade ==
    ASSUME Sound, NEW b, NEW w, Made(b, w), b.kind \in ServedKinds, NEW i \in DOMAIN Ruled(w)
    PROVE  MadeIngress(b, w, i, Ruled(w)[i]) /\ DOMAIN b.ingresses = DOMAIN Ruled(w)
<1> DEFINE g == Ruled(w)[i]
<1>1. IsWorkload(b, w) /\ w.kind \in ServedObjects
  BY DEF Made, ServedKinds
<1>2. b.ingresses = IngressBlocks(w)
  BY <1>1 DEF IsWorkload
<1>3. DOMAIN b.ingresses = DOMAIN Ruled(w) /\ b.ingresses[i] = IngressOf(w, g)
  BY <1>2, IngressesAreRead DEF Sound
<1>4. g \in ToSet(Ruled(w))
  BY DEF ToSet
<1>5. g \in ToSet(IngressesOf(w)) /\ g.rules # <<>>
  BY <1>4, IngressesAreRead DEF Sound
<1>6. w.kind # "DaemonSet" /\ ServiceOf(w) # None
      /\ g \in {h \in ToSet(read) : h.kind = "Ingress" /\ \E k \in Backends(h) : k.service = ServiceOf(w).name}
  BY <1>5, IngressesAreRead DEF Sound
<1>7. IsIngressOf(b.ingresses[i], w, g)
  BY <1>3, IngressIs
<1>8. ObjectOK(g)
  BY <1>6 DEF Sound
<1> HIDE DEF g
<1>9. MadeIngress(b, w, i, g)
  BY <1>1, <1>3, <1>5, <1>6, <1>7, <1>8 DEF MadeIngress, ServedObjects, g
<1>10. QED
  BY <1>3, <1>9 DEF g

LEMMA RuledAreMade ==
    ASSUME Sound, NEW b, NEW w, Made(b, w), b.kind \in ServedKinds, NEW i \in DOMAIN b.ingresses
    PROVE  MadeIngress(b, w, i, Ruled(w)[i])
<1>1. IsWorkload(b, w)
  BY DEF Made, ServedKinds
<1>2. b.ingresses = IngressBlocks(w)
  BY <1>1 DEF IsWorkload
<1>3. i \in DOMAIN Ruled(w)
  BY <1>2, IngressesAreRead DEF Sound
<1>4. QED
  BY <1>3, IngressesAreMade
\* The hosts of an ingress block are those it sets, however often it sets them.
LEMMA AllHostsCollect ==
    ASSUME NEW i, Lists(i.hosts)
    PROVE  Lists(AllHosts(i)) /\ ToSet(AllHosts(i)) = ({i.host} \cup ToSet(i.hosts)) \ {None}
<1> DEFINE all == <<i.host>> \o i.hosts
           again(k) == \E j \in 1..(k - 1) : all[j] = all[k]
           parts == [k \in DOMAIN all |-> IF all[k] = None \/ again(k) THEN <<>> ELSE <<all[k]>>]
           S == ToSet(all)
<1>1. Lists(all) /\ S = {i.host} \cup ToSet(i.hosts)
  BY OfOne, ListsConcat
<1>2. AllHosts(i) = FlattenSeq(parts)
  BY DEF AllHosts
<1> HIDE DEF all
<1>3. Len(all) \in Nat /\ DOMAIN all = 1..Len(all) /\ \A k \in DOMAIN all : all[k] \in S
  BY <1>1, ListIndices
<1>4. \A k \in DOMAIN all : parts[k] \in Seq(S)
  BY <1>3
<1>5. parts \in Seq(Seq(S)) /\ DOMAIN parts = DOMAIN all
  BY <1>3, <1>4
<1>6. \A k \in DOMAIN all : ToSet(parts[k]) = IF all[k] = None \/ again(k) THEN {} ELSE {all[k]}
  BY <1>3 DEF ToSet
<1>7. ASSUME NEW x \in S, x # None
      PROVE  \E k \in DOMAIN all : all[k] = x /\ ~again(k)
  <2> DEFINE K == {k \in DOMAIN all : all[k] = x}
  <2>1. K # {} /\ K \subseteq Nat
    BY <1>3 DEF ToSet
  <2>2. PICK k \in K : \A j \in K : k <= j
    BY <2>1, LeastNatural
  <2>3. ASSUME NEW j \in 1..(k - 1), all[j] = all[k] PROVE FALSE
    <3>1. k \in 1..Len(all) /\ all[k] = x
      BY <1>3
    <3>2. j \in 1..Len(all) /\ ~(k <= j)
      BY <1>3, <3>1
    <3>3. j \in K
      BY <1>3, <2>3, <3>1, <3>2
    <3>4. QED
      BY <2>2, <3>2, <3>3
  <2>4. QED
    BY <2>2, <2>3
<1> HIDE DEF parts, again
<1>8. FlattenSeq(parts) \in Seq(S) /\ ToSet(FlattenSeq(parts)) = UNION {ToSet(parts[k]) : k \in DOMAIN parts}
  BY <1>5, FlattenSeqCollects
<1>9. (UNION {ToSet(parts[k]) : k \in DOMAIN parts}) = S \ {None}
  <2>1. ASSUME NEW x \in S \ {None}
        PROVE  \E k \in DOMAIN parts : x \in ToSet(parts[k])
    <3>1. PICK k \in DOMAIN all : all[k] = x /\ ~again(k)
      BY <1>7
    <3>2. ToSet(parts[k]) = {x}
      BY <1>6, <3>1
    <3>3. QED
      BY <1>5, <3>2
  <2>2. ASSUME NEW k \in DOMAIN parts, NEW x \in ToSet(parts[k])
        PROVE  x \in S \ {None}
    BY <1>3, <1>5, <1>6
  <2>3. QED
    BY <2>1, <2>2
<1>10. AllHosts(i) \in Seq(ToSet(AllHosts(i)))
  BY <1>2, <1>8, SeqIsProper DEF ProperSeq
<1>11. ToSet(AllHosts(i)) = ({i.host} \cup ToSet(i.hosts)) \ {None}
  BY <1>1, <1>2, <1>8, <1>9
<1>12. Lists(AllHosts(i))
  BY <1>10 DEF Lists, ToSet
<1>13. QED
  BY <1>11, <1>12

LEMMA HostsReturn ==
    ASSUME NEW b, NEW w, NEW i, NEW g, MadeIngress(b, w, i, g)
    PROVE  Lists(AllHosts(b.ingresses[i])) /\ ToSet(AllHosts(b.ingresses[i])) = HostSet(g)
<1> DEFINE r == b.ingresses[i]
           s == HostsOf(g)
<1>1. r.host = (IF Len(s) = 1 THEN s[1] ELSE None) /\ r.hosts = (IF Len(s) = 1 THEN <<>> ELSE s)
  BY DEF MadeIngress, IsIngressOf
<1>2. Lists(g.rules) /\ HostSet(g) \subseteq {Alphabet[n] : n \in DOMAIN Alphabet}
  <2>1. /\ Lists(g.rules)
        /\ \A k \in DOMAIN g.rules : g.rules[k].host \in {Alphabet[n] : n \in DOMAIN Alphabet} \cup {None}
    BY DEF MadeIngress, ObjectOK
  <2>2. QED
    BY <2>1 DEF HostSet
<1>3. Lists(s) /\ ToSet(s) = HostSet(g) /\ (Len(s) = 1 => s[1] \in HostSet(g))
  BY <1>2, HostsAreSorted
<1>4. None \notin HostSet(g)
  BY DEF HostSet
<1> HIDE DEF r, s
<1>5. Lists(<<>>) /\ ToSet(<<>>) = {}
  BY DEF Lists, ToSet
<1>6. Lists(r.hosts) /\ ({r.host} \cup ToSet(r.hosts)) \ {None} = HostSet(g)
  <2>1. CASE Len(s) = 1
    <3>1. r.host = s[1] /\ r.hosts = <<>>
      BY <1>1, <2>1
    <3>2. DOMAIN s = {1}
      BY <1>3, <2>1, ListIndices
    <3>3. HostSet(g) = {s[1]}
      BY <1>3, <3>2, ListIndices
    <3>4. QED
      BY <1>4, <1>5, <3>1, <3>3
  <2>2. CASE Len(s) # 1
    <3>1. r.host = None /\ r.hosts = s
      BY <1>1, <2>2
    <3>2. QED
      BY <1>3, <1>4, <3>1
  <2>3. QED
    BY <2>1, <2>2
<1>7. QED
  BY <1>6, AllHostsCollect DEF r

LEMMA NameReturns ==
    ASSUME Sound, NEW b, NEW w, Made(b, w), NEW i, NEW g, MadeIngress(b, w, i, g), ~Renamed(w)
    PROVE  ResourceName(b, i) = g.name
<1>1. b.ingresses[i].name = IngressName(w, g) /\ g.name # <<>> /\ b.name = w.name
  BY DEF MadeIngress, IsIngressOf, ObjectOK, Made, Describes
<1>2. CASE g.name = w.name
  <2>1. i = 1
    <3>1. i \in DOMAIN Ruled(w) /\ Ruled(w)[i].name = w.name /\ ~(i > 1)
      BY <1>2 DEF MadeIngress, Renamed
    <3>2. i \in Nat \ {0}
      <4>1. Lists(Ruled(w))
        BY IngressesAreRead DEF Sound
      <4>2. DOMAIN Ruled(w) = 1..Len(Ruled(w)) /\ Len(Ruled(w)) \in Nat
        BY <4>1, ListIndices
      <4>3. QED
        BY <3>1, <4>2
    <3>3. QED
      BY <3>1, <3>2
  <2>2. b.ingresses[i].name = <<>>
    BY <1>1, <1>2 DEF IngressName
  <2>3. QED
    BY <1>1, <1>2, <2>1, <2>2 DEF ResourceName
<1>3. CASE g.name # w.name
  BY <1>1, <1>3 DEF IngressName, ResourceName
<1>4. QED
  BY <1>2, <1>3

LEMMA BackendReturns ==
    ASSUME NEW b, NEW w, Made(b, w), NEW i, NEW g, MadeIngress(b, w, i, g), Paths(g) # <<>>
    PROVE  Backend(b, i) = Paths(g)[1]
<1> DEFINE k == Paths(g)[1]
           r == b.ingresses[i]
<1>1. /\ r.backend = IF k.service # w.name THEN k.service ELSE None
      /\ r.port = IngressPort(w, k) /\ b.name = w.name
  BY DEF MadeIngress, IsIngressOf, Made, Describes
<1>2. k \in [service : Name \ {<<>>}, port : Nat \ {0}]
  <2>1. Lists(g.rules) /\ g.rules # <<>>
        /\ \A n \in DOMAIN g.rules : g.rules[n].backends \in Seq([service : Name \ {<<>>}, port : Nat \ {0}])
    BY DEF MadeIngress, ObjectOK
  <2>2. 1 \in DOMAIN g.rules
    BY <2>1, ListIndices, EmptySeq
  <2>3. Paths(g) \in Seq([service : Name \ {<<>>}, port : Nat \ {0}])
    BY <2>1, <2>2 DEF Paths
  <2>4. Len(Paths(g)) \in Nat \ {0}
    BY <2>3, EmptySeq
  <2>5. QED
    <3> DEFINE T == [service : Name \ {<<>>}, port : Nat \ {0}]
    <3>1. Paths(g) \in Seq(T) /\ 1 \in 1..Len(Paths(g))
      BY <2>3, <2>4
    <3> HIDE DEF T
    <3>2. Paths(g)[1] \in T
      BY <3>1, ElementOfSeq
    <3>3. QED
      BY <3>2 DEF T
<1>3. k.service \in Name /\ k.port \in Nat \ {0} /\ k = [service |-> k.service, port |-> k.port]
  BY <1>2
<1>4. None \notin Name \cup Nat /\ k.service # <<>>
  BY <1>2, ImporterAssumption
<1> HIDE DEF k
<1> DEFINE service == IF r.backend \notin {None, <<>>} THEN r.backend ELSE b.name
           port == IF r.port \notin {None, 0} THEN r.port ELSE IF ContainerPorts(b) # <<>> THEN ContainerPorts(b)[1] ELSE DefaultPort
<1>5. service = k.service
  BY <1>1, <1>3, <1>4
<1>6. port = k.port
  <2>1. CASE k.port = AppPort(w)
    <3>1. r.port = None
      BY <1>1, <2>1 DEF IngressPort
    <3>2. ContainerPorts(b) # <<>> /\ ContainerPorts(b)[1] = k.port
      BY <1>3, <2>1, FirstPortReturns DEF MadeIngress
    <3>3. QED
      BY <3>1, <3>2
  <2>2. CASE k.port # AppPort(w)
    BY <1>1, <1>3, <1>4, <2>2 DEF IngressPort
  <2>3. QED
    BY <2>1, <2>2
<1>7. Backend(b, i) = [service |-> service, port |-> port]
  BY DEF Backend
<1> HIDE DEF service, port
<1>8. QED
  BY <1>3, <1>5, <1>6, <1>7 DEF k

LEMMA RouteReturns ==
    ASSUME Sound, NEW b, NEW w, Made(b, w), NEW i, NEW g, MadeIngress(b, w, i, g), ~Renamed(w),
           None \notin ToSet(g.tls), HostSet(g) # {}
    PROVE  IngressReturns(b, g)
<1> DEFINE m == RouteObject(b, i, None)
           r == b.ingresses[i]
<1>1. None # "gateway"
  BY ImporterAssumption
<1>2. m.kind = "Ingress" /\ m.ns = b.ns /\ m.name = g.name /\ m.spec = Route(b, i, None)
  BY <1>1, ObjectFields, NameReturns
<1>3. AllHosts(r) # <<>> /\ ToSet(AllHosts(r)) = HostSet(g)
  <2>1. ToSet(AllHosts(r)) = HostSet(g)
    BY HostsReturn
  <2>2. ToSet(<<>>) = {}
    BY DEF ToSet
  <2>3. QED
    BY <2>1, <2>2
<1>4. b.kind \in {"deployment", "statefulset"}
  BY DEF MadeIngress, Made, Describes, BlockKind
<1>5. m \in Objects(b, None)
  <2>1. m \in RoutesFor(b, i, KeyOf(b), None)
    BY <1>3 DEF RoutesFor, RouteObject
  <2>2. m \in IngressObjects(b, KeyOf(b), None)
    BY <2>1 DEF IngressObjects, MadeIngress
  <2>3. QED
    BY <1>4, <2>2 DEF Objects
<1>6. m.spec.hosts = AllHosts(r) /\ m.spec.backend = Backend(b, i)
  BY <1>2 DEF Route
<1>7. Route(b, i, None).secret = IF ~r.tls THEN None ELSE IF r.secret # None THEN r.secret ELSE CertificateSecretName(r)
  BY <1>1 DEF Route
<1>8. Route(b, i, None).secret = IF g.tls = <<>> THEN None ELSE g.tls[1]
  <2>1. (r.tls <=> g.tls # <<>>) /\ r.secret = IF g.tls # <<>> THEN g.tls[1] ELSE None
    BY DEF MadeIngress, IsIngressOf
  <2>2. CASE g.tls = <<>>
    BY <1>7, <2>1, <2>2
  <2>3. CASE g.tls # <<>>
    <3>1. Lists(g.tls)
      BY DEF MadeIngress, ObjectOK
    <3>2. 1 \in DOMAIN g.tls
      BY <2>3, <3>1, ListIndices, EmptySeq
    <3>3. g.tls[1] # None
      BY <3>2 DEF ToSet
    <3>4. QED
      BY <1>7, <2>1, <2>3, <3>3
  <2>4. QED
    BY <2>2, <2>3
<1> HIDE DEF m
<1>9. m \in Again(b, "Ingress", g.name)
  BY <1>2, <1>5 DEF Again
<1>10. /\ ToSet(m.spec.hosts) = {g.rules[n].host : n \in DOMAIN g.rules} \ {None}
       /\ g.rules[1].backends # <<>> => m.spec.backend = g.rules[1].backends[1]
       /\ m.spec.secret = IF g.tls = <<>> THEN None ELSE g.tls[1]
  BY <1>2, <1>3, <1>6, <1>8, BackendReturns DEF HostSet, Paths
<1>11. QED
  BY <1>9, <1>10 DEF IngressReturns
\* What is imported and rendered again is what was read (mapper.go:427-505,
\* 683-691 against deployment_v2.go, ingress.go, cronjob.go:160-181).
THEOREM ComesBack == ImportSpec => []RoundTrip
<1>1. Importing => RoundTrip
  <2> SUFFICES ASSUME Importing, Ordinary, NEW b \in Written, b.kind \in WorkloadKinds
               PROVE  LET w == SourceObject(b)
                      IN  /\ \E m \in Again(b, w.kind, w.name) :
                                /\ w.kind \in {"Deployment", "StatefulSet"} => m.spec.replicas = w.replicas
                                /\ b.kind \in ServedKinds => Under(m.spec.sa) = Under(w.sa)
                                /\ w.kind = "CronJob" /\ w.deadline \notin {None, 0} => m.spec.deadline = w.deadline
                                /\ \A i \in DOMAIN b.containers : EnvRefs(w.containers[i]) \subseteq m.spec.refs
                                /\ \A i \in DOMAIN b.inits : w.inits[i].envFrom \subseteq m.spec.refs
                          /\ b.kind \in ServedKinds /\ ServiceOf(w) # None /\ ServiceOf(w).ports # <<>> =>
                                \E m \in Again(b, "Service", ServiceOf(w).name) :
                                    m.spec.ports = ToSet(ServiceOf(w).ports)
                          /\ b.kind \in ServedKinds /\ ~Renamed(w) =>
                                \A g \in ToSet(Ruled(w)) :
                                    (\E i \in DOMAIN g.rules : g.rules[i].host # None) => IngressReturns(b, g)
    BY DEF RoundTrip
  <2> DEFINE w == SourceObject(b)
  <2>1. Sound /\ Made(b, w)
    BY WorkloadsAreMade
  <2> HIDE DEF w
  <2>2. \E m \in Again(b, w.kind, w.name) :
           /\ w.kind \in {"Deployment", "StatefulSet"} => m.spec.replicas = w.replicas
           /\ b.kind \in ServedKinds => Under(m.spec.sa) = Under(w.sa)
           /\ w.kind = "CronJob" /\ w.deadline \notin {None, 0} => m.spec.deadline = w.deadline
           /\ \A i \in DOMAIN b.containers : EnvRefs(w.containers[i]) \subseteq m.spec.refs
           /\ \A i \in DOMAIN b.inits : w.inits[i].envFrom \subseteq m.spec.refs
    BY <2>1, WorkloadReturns
  <2>3. b.kind \in ServedKinds /\ ServiceOf(w) # None /\ ServiceOf(w).ports # <<>> =>
           \E m \in Again(b, "Service", ServiceOf(w).name) : m.spec.ports = ToSet(ServiceOf(w).ports)
    BY <2>1, ServiceReturns
  <2>4. ASSUME b.kind \in ServedKinds, ~Renamed(w), NEW g \in ToSet(Ruled(w)),
               \E i \in DOMAIN g.rules : g.rules[i].host # None
        PROVE  IngressReturns(b, g)
    <3>1. PICK i \in DOMAIN Ruled(w) : Ruled(w)[i] = g
      BY DEF ToSet
    <3>2. MadeIngress(b, w, i, g)
      BY <2>1, <2>4, <3>1, IngressesAreMade
    <3>3. g \in ToSet(Read("Ingress"))
      BY <2>1, <3>2, ReadOfKind DEF MadeIngress, Sound
    <3>4. None \notin ToSet(g.tls)
      BY <3>3 DEF Ordinary
    <3>5. HostSet(g) # {}
      BY <2>4 DEF HostSet
    <3>6. QED
      BY <2>1, <2>4, <3>2, <3>4, <3>5, RouteReturns
  <2>5. QED
    BY <2>2, <2>3, <2>4 DEF w
<1>2. QED
  BY <1>1, AlwaysImporting, PTL

(***************************************************************************)
(* What has been written loads again.                                      *)
(***************************************************************************)
LEMMA OnlyOnce ==
    ASSUME NEW s, Lists(s), Once(s), NEW T
    PROVE  Once(Only(s, T))
<1> DEFINE S == ToSet(s)
           parts == [i \in DOMAIN s |-> IF s[i] \in T THEN <<s[i]>> ELSE <<>>]
<1>1. Len(s) \in Nat /\ DOMAIN s = 1..Len(s) /\ \A i \in DOMAIN s : s[i] \in S
  BY ListIndices
<1>2. \A i \in DOMAIN s : parts[i] \in Seq(S)
  BY <1>1
<1>3. parts \in Seq(Seq(S)) /\ DOMAIN parts = DOMAIN s
  BY <1>1, <1>2
<1>4. \A i \in DOMAIN s : ToSet(parts[i]) \subseteq {s[i]} /\ Once(parts[i])
  <2> SUFFICES ASSUME NEW i \in DOMAIN s PROVE ToSet(parts[i]) \subseteq {s[i]} /\ Once(parts[i])
    OBVIOUS
  <2>1. ToSet(<<>>) = {} /\ Once(<<>>)
    BY DEF ToSet, Once
  <2>2. ToSet(<<s[i]>>) = {s[i]} /\ Once(<<s[i]>>)
    BY OfOne DEF Once
  <2>3. parts[i] = <<>> \/ parts[i] = <<s[i]>>
    OBVIOUS
  <2> HIDE DEF parts
  <2>4. QED
    BY <2>1, <2>2, <2>3
<1> HIDE DEF parts, S
<1>5. \A i, j \in DOMAIN parts : i # j => ToSet(parts[i]) \cap ToSet(parts[j]) = {}
  BY <1>3, <1>4 DEF Once
<1>6. Once(FlattenSeq(parts))
  BY <1>3, <1>4, <1>5, FlattenSeqOnce
<1>7. QED
  BY <1>6 DEF Only, parts

\* Nothing was read twice, so nothing is filed twice.
LEMMA ReadOnce ==
    ASSUME Sound, Ordinary
    PROVE  /\ \A kind : Once(Read(kind))
           /\ \A w : Once(Ruled(w))
           /\ \A o, p \in ToSet(read) : Address(o) = Address(p) => o = p
<1>1. \A i, j \in DOMAIN read : Address(read[i]) = Address(read[j]) => i = j
  BY DEF Ordinary
<1>2. Once(read)
  BY <1>1 DEF Once
<1>3. Lists(read)
  BY DEF Sound
<1>4. \A kind : Once(Read(kind)) /\ Lists(Read(kind))
  BY <1>2, <1>3, OnlyOnce, ReadOfKind DEF Read
<1>5. \A w : Once(IngressesOf(w))
  <2> SUFFICES ASSUME NEW w PROVE Once(IngressesOf(w))
    OBVIOUS
  <2>1. Once(<<>>)
    BY DEF Once
  <2> DEFINE T == {g \in ToSet(Read("Ingress")) : \E k \in Backends(g) : k.service = ServiceOf(w).name}
  <2>2. Once(Only(Read("Ingress"), T))
    BY <1>4, OnlyOnce
  <2>3. IngressesOf(w) = <<>> \/ IngressesOf(w) = Only(Read("Ingress"), T)
    BY DEF IngressesOf
  <2>4. QED
    BY <2>1, <2>2, <2>3
<1>6. \A w : Once(Ruled(w))
  BY <1>3, <1>5, IngressesAreRead, OnlyOnce DEF Ruled
<1>7. \A o, p \in ToSet(read) : Address(o) = Address(p) => o = p
  BY <1>1 DEF ToSet
<1>8. QED
  BY <1>4, <1>6, <1>7
LEMMA BlankAccepted ==
    /\ RolloutAccepted(Blank.histories) /\ CRDAccepted(Blank.storageVersions)
    /\ Blank.volumes = <<>> /\ Blank.ingresses = <<>> /\ Blank.containers = <<>> /\ Blank.inits = <<>>
    /\ Blank.ns = None /\ Blank.governing = <<>> /\ Blank.claims = <<>> /\ Blank.replicas = 1 /\ DOMAIN <<>> = {}
    /\ DOMAIN Blank = {"kind", "name", "perItem", "ns", "sa", "service", "servicePorts", "serviceType", "governing",
                       "replicas", "autoscale", "ingresses", "volumes", "claims", "containers", "inits", "histories",
                       "storageVersions", "deadline", "evaluates", "at"}
BY FS_EmptySet DEF Blank, RolloutAccepted, CRDAccepted

\* The parser takes every volume of an imported container.
LEMMA VolumesAccepted ==
    ASSUME NEW w, Lists(w.volumes), NEW c, Lists(c.mounts), None \notin {m.path : m \in ToSet(c.mounts)},
           NEW i \in DOMAIN MountedVolumes(w, c)
    PROVE  VolumeAccepted(MountedVolumes(w, c)[i])
<1>1. MountedVolumes(w, c)[i] \in ToSet(MountedVolumes(w, c))
  BY DEF ToSet
<1>2. PICK v \in MountedOf(w, c) : MountedVolumes(w, c)[i] = VolumeOf(v, c)
  BY <1>1, MountedVolumesAre
<1>3. PathOf(c, v.name) # None
  BY LastPath DEF MountedOf
<1> DEFINE u == VolumeOf(v, c)
<1>4. u.path = PathOf(c, v.name) /\ u.csiAttributes = FALSE /\ u.csiSecret = None
  BY VolumeFields
<1> HIDE DEF u
<1>5. VolumeAccepted(u)
  BY <1>3, <1>4 DEF VolumeAccepted
<1>6. QED
  BY <1>2, <1>5 DEF u

LEMMA WorkloadAccepted ==
    ASSUME Sound, NEW b, NEW w, Made(b, w), w.kind \in ServedObjects, Expressible
    PROVE  BlockAccepted(b)
<1>1. IsWorkload(b, w) /\ PodOK(w) /\ b.kind = BlockKind[w.kind]
  BY DEF Made, Describes
<1>2. b.kind \in {"deployment", "daemonset", "statefulset"} /\ b.kind # "cronjob" /\ b.kind # "ingress"
  BY <1>1 DEF ServedObjects, BlockKind
<1>3. KeepsBlank(b, {"perItem", "serviceType", "autoscale", "volumes", "histories", "storageVersions", "deadline"})
      /\ b.governing = w.governing /\ b.claims = [n \in DOMAIN w.claims |-> ClaimOf(w, n)]
      /\ b.replicas = w.replicas
  BY <1>1 DEF IsWorkload
<1>4. b.histories = Blank.histories /\ b.storageVersions = Blank.storageVersions /\ b.autoscale = Blank.autoscale
      /\ b.deadline = Blank.deadline
  BY <1>3 DEF KeepsBlank
<1> DEFINE plain == {"kind", "name", "evaluates", "at"}
<1>5. FieldsAccepted(b)
  <2>0. w.claims = <<>> => b.claims = Blank.claims
    BY <1>3, BlankAccepted
  <2>1. CASE w.kind = "Deployment"
    <3>1. b.kind = "deployment" /\ b.governing = Blank.governing /\ b.claims = Blank.claims
      BY <1>1, <1>3, <2>0, <2>1, BlankAccepted DEF PodOK, BlockKind
    <3>2. DOMAIN Blank \ (FieldsOf[b.kind] \cup plain)
             \subseteq {"governing", "claims", "deadline", "storageVersions"}
      BY <3>1, BlankAccepted DEF FieldsOf, DeploymentFields, ServedFields
    <3>3. \A f \in {"governing", "claims", "deadline", "storageVersions"} : b[f] = Blank[f]
      BY <1>4, <3>1
    <3>4. QED
      BY <3>2, <3>3 DEF FieldsAccepted
  <2>2. CASE w.kind = "StatefulSet"
    <3>1. b.kind = "statefulset"
      BY <1>1, <2>2 DEF BlockKind
    <3>2. DOMAIN Blank \ (FieldsOf[b.kind] \cup plain)
             \subseteq {"autoscale", "histories", "deadline", "storageVersions"}
      BY <3>1, BlankAccepted DEF FieldsOf, StatefulSetFields, ServedFields
    <3>3. \A f \in {"autoscale", "histories", "deadline", "storageVersions"} : b[f] = Blank[f]
      BY <1>4
    <3>4. QED
      BY <3>2, <3>3 DEF FieldsAccepted
  <2>3. CASE w.kind = "DaemonSet"
    <3>1. b.kind = "daemonset" /\ b.governing = Blank.governing /\ b.claims = Blank.claims /\ b.replicas = Blank.replicas
      BY <1>1, <1>3, <2>0, <2>3, BlankAccepted DEF PodOK, BlockKind
    <3>2. b.ingresses = Blank.ingresses
      <4>1. b.ingresses = IngressBlocks(w)
        BY <1>1 DEF IsWorkload
      <4>2. ToSet(IngressesOf(w)) = {} /\ Lists(Ruled(w)) /\ Lists(IngressBlocks(w))
            /\ ToSet(Ruled(w)) = {g \in ToSet(IngressesOf(w)) : g.rules # <<>>}
            /\ DOMAIN IngressBlocks(w) = DOMAIN Ruled(w)
        BY <2>3, IngressesAreRead DEF Sound
      <4>3. DOMAIN Ruled(w) = {}
        BY <4>2 DEF ToSet
      <4>4. Len(IngressBlocks(w)) \in Nat /\ 1..Len(IngressBlocks(w)) = {}
        BY <4>2, <4>3, ListIndices
      <4>5. IngressBlocks(w) = <<>>
        BY <4>2, <4>4, ListIndices, EmptySeq
      <4>6. QED
        BY <4>1, <4>5, BlankAccepted
    <3>3. DOMAIN Blank \ (FieldsOf[b.kind] \cup plain)
             \subseteq {"replicas", "ingresses", "autoscale", "histories", "governing", "claims", "deadline",
                        "storageVersions"}
      BY <3>1, BlankAccepted DEF FieldsOf, DaemonSetFields, ServedFields
    <3>4. \A f \in {"replicas", "ingresses", "autoscale", "histories", "governing", "claims", "deadline",
                    "storageVersions"} : b[f] = Blank[f]
      BY <1>4, <3>1, <3>2
    <3>5. QED
      BY <3>3, <3>4 DEF FieldsAccepted
  <2>4. QED
    BY <2>1, <2>2, <2>3 DEF ServedObjects
<1> HIDE DEF plain
<1>6. \A i \in DOMAIN b.volumes : VolumeAccepted(b.volumes[i])
  BY <1>1, BlankAccepted DEF IsWorkload
<1>7. ASSUME NEW i \in DOMAIN b.containers PROVE ContainerAccepted(b.containers[i])
  <2>1. b.containers[i] = ContainerOf(w, w.containers[i])
    BY <1>1 DEF IsWorkload
  <2>2. /\ b.containers[i].volumes = MountedVolumes(w, w.containers[i]) /\ b.containers[i].pullPolicy = None
        /\ b.containers[i].probes = {} /\ b.containers[i].hooks = {}
    BY <2>1, ContainerFields
  <2>3. Lists(w.volumes)
    BY <1>1 DEF PodOK
  <2>4. i \in DOMAIN w.containers
    BY <1>1 DEF IsWorkload
  <2>5. Lists(w.containers[i].mounts) /\ None \notin {m.path : m \in ToSet(w.containers[i].mounts)}
    BY <1>1, <2>4 DEF PodOK, ToSet
  <2>6. \A k \in DOMAIN b.containers[i].volumes : VolumeAccepted(b.containers[i].volumes[k])
    BY <2>2, <2>3, <2>5, VolumesAccepted
  <2>7. QED
    BY <2>2, <2>6 DEF ContainerAccepted, PullPolicyAccepted
<1>8. \A i \in DOMAIN b.inits : InitAccepted(b.inits[i])
  <2>1. \A i \in DOMAIN b.inits : b.inits[i] = InitOf(w.inits[i])
    BY <1>1 DEF IsWorkload
  <2>2. QED
    BY <2>1, InitFields DEF InitAccepted, PullPolicyAccepted
<1>9. \A i \in DOMAIN b.ingresses : IngressAccepted(b.ingresses[i], b.kind = "ingress")
  BY <1>2 DEF IngressAccepted
<1>10. RolloutAccepted(b.histories) /\ CRDAccepted(b.storageVersions)
  BY <1>4, BlankAccepted
<1>11. \A n \in DOMAIN b.claims : ClaimAccepted(b.claims[n])
  <2> SUFFICES ASSUME NEW n \in DOMAIN w.claims PROVE ClaimAccepted(ClaimOf(w, n))
    BY <1>3
  <2>1. w \in ToSet(read) /\ w.kind = "StatefulSet"
    BY <1>1 DEF Made, PodOK
  <2>2. "storage" \in w.claims[n] /\ \E i \in DOMAIN w.containers : n \in Mentions(w.containers[i])
    BY <2>1 DEF Expressible, ClaimsInUse
  <2>3. QED
    BY <2>2 DEF ClaimOf, ClaimAccepted
<1>12. b.evaluates
  <2>1. w.evaluates
    BY DEF Made, Expressible
  <2>2. ToSet(Ruled(w)) \subseteq ToSet(read)
    BY IngressesAreRead DEF Sound
  <2>3. Evaluates(w)
    BY <2>1, <2>2 DEF Evaluates, Expressible
  <2>4. QED
    BY <1>1, <2>3 DEF IsWorkload
<1>13. QED
  BY <1>2, <1>5, <1>6, <1>7, <1>8, <1>9, <1>10, <1>11, <1>12 DEF BlockAccepted

LEMMA JobAccepted ==
    ASSUME Sound, NEW b, NEW w, Made(b, w), w.kind = "CronJob", Expressible
    PROVE  BlockAccepted(b)
<1>1. IsCronJob(b, w) /\ PodOK(w) /\ b.kind = "cronjob"
  BY DEF Made
<1> DEFINE set == {"kind", "name", "ns", "evaluates", "at", "containers", "deadline"}
<1>2. KeepsBlank(b, DOMAIN Blank \ set) /\ b.evaluates = w.evaluates
      /\ b.containers = <<JobContainer(w)>> /\ b.volumes = <<>> /\ b.ingresses = <<>> /\ b.inits = <<>>
  BY <1>1 DEF IsCronJob
<1>3. FieldsAccepted(b)
  <2>1. set \subseteq FieldsOf[b.kind] \cup {"kind", "name", "evaluates", "at"}
    BY <1>1 DEF FieldsOf, CronJobFields
  <2>2. QED
    BY <1>2, <2>1 DEF KeepsBlank, FieldsAccepted
<1>4. b.histories = Blank.histories /\ b.storageVersions = Blank.storageVersions /\ b.claims = Blank.claims
  BY <1>2, BlankAccepted DEF KeepsBlank
<1> DEFINE c == JobContainer(w)
<1>5. /\ c.volumes = MountedVolumes(w, w.containers[1]) /\ c.ports = <<>> /\ c.probes = {} /\ c.hooks = {}
      /\ c.pullPolicy = None
  BY DEF JobContainer, ContainerOf, BlankContainer
<1> HIDE DEF c
<1>6. Len(b.containers) = 1 /\ DOMAIN b.containers = {1} /\ b.containers[1] = c
  BY <1>2, OfOne DEF c
<1>7. CronJobAccepted(b)
  <2>1. BlankContainer.ports = <<>> /\ BlankContainer.probes = {} /\ BlankContainer.hooks = {}
    BY DEF BlankContainer
  <2>2. QED
    BY <1>5, <1>6, <2>1 DEF CronJobAccepted
<1>8. ContainerAccepted(c)
  <2>1. 1 \in DOMAIN w.containers
    BY CronJobIsOK DEF Made
  <2>2. Lists(w.volumes) /\ Lists(w.containers[1].mounts)
        /\ None \notin {m.path : m \in ToSet(w.containers[1].mounts)}
    BY <1>1, <2>1 DEF PodOK, ToSet
  <2>3. \A k \in DOMAIN c.volumes : VolumeAccepted(c.volumes[k])
    BY <1>5, <2>2, VolumesAccepted
  <2>4. QED
    BY <1>5, <2>3 DEF ContainerAccepted, PullPolicyAccepted
<1>9. b.evaluates
  BY <1>2 DEF Made, Expressible
<1>10. QED
  BY <1>2, <1>3, <1>4, <1>6, <1>7, <1>8, <1>9, BlankAccepted DEF BlockAccepted

LEMMA PlainAccepted ==
    ASSUME NEW o, NEW at, ObjectOK(o), o.kind \in DOMAIN BlockKind, o.kind \notin ServedObjects \cup {"CronJob"}, o.evaluates
    PROVE  BlockAccepted(PlainBlock(o, at))
<1> DEFINE b == PlainBlock(o, at)
<1>1. b.kind = BlockKind[o.kind] /\ b.ns = o.ns /\ b.evaluates
      /\ KeepsBlank(b, DOMAIN Blank \ {"kind", "name", "ns", "evaluates", "at"})
  BY PlainFields DEF Describes
<1> HIDE DEF b
<1>2. \A f \in DOMAIN Blank \ {"kind", "name", "ns", "evaluates", "at"} : b[f] = Blank[f]
  BY <1>1 DEF KeepsBlank
<1>3. b.kind # "cronjob"
  BY <1>1 DEF BlockKind, ServedObjects
<1>4. "ns" \in FieldsOf[b.kind] \/ b.ns = None
  BY <1>1 DEF ObjectOK, BlockKind, ServedObjects, FieldsOf, ConfigMapFields, PersistentVolumeClaimFields
<1>5. FieldsAccepted(b)
  BY <1>2, <1>4, BlankAccepted DEF FieldsAccepted
<1>6. b.volumes = <<>> /\ b.containers = <<>> /\ b.inits = <<>> /\ b.ingresses = <<>>
      /\ b.histories = Blank.histories /\ b.storageVersions = Blank.storageVersions /\ b.claims = Blank.claims
  BY <1>2, BlankAccepted
<1>7. BlockAccepted(b)
  BY <1>1, <1>3, <1>5, <1>6, BlankAccepted DEF BlockAccepted
<1>8. QED
  BY <1>7 DEF b
\* A block that has been written was made of an object that was read, and of
\* no two blocks the same one.
LEMMA WrittenAre ==
    ASSUME Importing, NEW b \in Written
    PROVE  /\ Sound /\ SourceObject(b) \in ToSet(read) /\ SourceObject(b).kind \in DOMAIN BlockKind
           /\ ObjectOK(SourceObject(b))
           /\ b = BlockOf(SourceObject(b), b.at) /\ Describes(b, SourceObject(b), b.at)
           /\ \E i \in DOMAIN Read(SourceObject(b).kind) :
                 b.at = <<SourceObject(b).kind, i>> /\ SourceObject(b) = Read(SourceObject(b).kind)[i]
<1>1. PICK kind \in DOMAIN BlockKind : b \in ToSet(BlocksOf(kind))
  BY WrittenBlocks DEF Written
<1>2. Sound
  BY DEF Importing, Readable, Sound
<1>3. /\ SourceObject(b) \in ToSet(read) /\ SourceObject(b).kind = kind
      /\ b = BlockOf(SourceObject(b), b.at) /\ Describes(b, SourceObject(b), b.at)
  BY <1>1, <1>2, BlockIsOf DEF Sound
<1>4. PICK i \in DOMAIN Read(kind) : b.at = <<kind, i>>
  BY <1>1, <1>2, BlockIsOf DEF Sound
<1>5. SourceObject(b) = Read(kind)[i]
  BY <1>4 DEF SourceObject
<1>6. QED
  BY <1>2, <1>3, <1>4, <1>5 DEF Sound

LEMMA OneBlockEach ==
    ASSUME Importing, Ordinary, NEW b \in Written, NEW c \in Written, SourceObject(b) = SourceObject(c)
    PROVE  b.at = c.at
<1> DEFINE kind == SourceObject(b).kind
<1>1. PICK i \in DOMAIN Read(kind) : b.at = <<kind, i>> /\ SourceObject(b) = Read(kind)[i]
  BY WrittenAre
<1>2. PICK j \in DOMAIN Read(kind) : c.at = <<kind, j>> /\ SourceObject(c) = Read(kind)[j]
  BY WrittenAre
<1>3. Sound
  BY WrittenAre
<1>4. i = j
  BY <1>1, <1>2, <1>3, ReadOnce DEF Once
<1>5. QED
  BY <1>1, <1>2, <1>4

\* The parser takes every block of what can be expressed.
LEMMA WrittenAccepted ==
    ASSUME Importing, Expressible, NEW b \in Written
    PROVE  BlockAccepted(b)
<1> DEFINE o == SourceObject(b)
<1>1. Sound /\ o.kind \in DOMAIN BlockKind /\ ObjectOK(o) /\ b = BlockOf(o, b.at) /\ Describes(b, o, b.at)
      /\ o \in ToSet(read)
  BY WrittenAre
<1> HIDE DEF o
<1>2. CASE o.kind \in ServedObjects \cup {"CronJob"}
  <2>1. b.kind \in WorkloadKinds
    BY <1>1, <1>2 DEF Describes, BlockKind, ServedObjects, WorkloadKinds, ServedKinds
  <2>2. Made(b, o)
    BY <2>1, WorkloadsAreMade DEF o
  <2>3. QED
    BY <1>1, <1>2, <2>2, WorkloadAccepted, JobAccepted
<1>3. CASE o.kind \notin ServedObjects \cup {"CronJob"}
  <2>1. b = PlainBlock(o, b.at)
    BY <1>1, <1>3, BlockForms
  <2>2. BlockAccepted(PlainBlock(o, b.at))
    BY <1>1, <1>3, PlainAccepted DEF Expressible
  <2>3. QED
    BY <2>1, <2>2
<1>4. QED
  BY <1>2, <1>3

\* Blocks of one kind and name, in one namespace if the kind has any, were
\* made of one object.
LEMMA IdentityTells ==
    ASSUME Importing, Ordinary, NEW b \in Written, NEW c \in Written, Identity(b) = Identity(c)
    PROVE  b.at = c.at
<1> DEFINE o == SourceObject(b)
           p == SourceObject(c)
<1>1. /\ Sound /\ o \in ToSet(read) /\ o.kind \in DOMAIN BlockKind /\ ObjectOK(o) /\ Describes(b, o, b.at)
      /\ p \in ToSet(read) /\ p.kind \in DOMAIN BlockKind /\ ObjectOK(p) /\ Describes(c, p, c.at)
  BY WrittenAre
<1> HIDE DEF o, p
<1>2. b.kind = c.kind /\ b.name = c.name /\ (b.kind \notin ClusterKinds => b.ns = c.ns)
  BY DEF Identity
<1>3. o.kind = p.kind
  BY <1>1, <1>2 DEF Describes, BlockKind
<1>4. o.name = p.name
  BY <1>1, <1>2 DEF Describes
<1>5. o.ns = p.ns
  <2>1. CASE b.kind \in ClusterKinds
    <3>1. o.kind \in {"ClusterRole", "ClusterRoleBinding"}
      BY <1>1, <2>1 DEF Describes, BlockKind, ClusterKinds
    <3>2. QED
      BY <1>1, <1>3, <3>1 DEF ObjectOK
  <2>2. CASE b.kind \notin ClusterKinds
    BY <1>1, <1>2, <2>2 DEF Describes
  <2>3. QED
    BY <2>1, <2>2
<1>6. o = p
  BY <1>1, <1>3, <1>4, <1>5, ReadOnce DEF Address
<1>7. QED
  BY <1>6, OneBlockEach DEF o, p

\* Two workloads whose Services have one name are one workload.
LEMMA ServiceTells ==
    ASSUME Importing, Ordinary, NEW b \in Written, NEW c \in Written,
           b.kind \in ServedKinds, c.kind \in ServedKinds,
           ServiceOf(SourceObject(b)) # None, ServiceOf(SourceObject(c)) # None,
           ServiceOf(SourceObject(b)).name = ServiceOf(SourceObject(c)).name
    PROVE  b.at = c.at
<1> DEFINE w == SourceObject(b)
           v == SourceObject(c)
<1>1. Sound /\ Made(b, w) /\ Made(c, v)
  BY WorkloadsAreMade DEF WorkloadKinds
<1>2. w \in ToSet(read) /\ v \in ToSet(read) /\ w.kind \in ServedObjects /\ v.kind \in ServedObjects
  BY <1>1 DEF Made, ServedKinds
<1>3. /\ ServiceOf(w) \in ToSet(read) /\ ServiceOf(w).kind = "Service"
      /\ ServiceOf(v) \in ToSet(read) /\ ServiceOf(v).kind = "Service"
  BY <1>1, ServiceIsNamed
<1>4. ServiceOf(w).ns = ServiceOf(v).ns
  BY <1>3 DEF Ordinary
<1>5. ServiceOf(w) = ServiceOf(v)
  BY <1>1, <1>3, <1>4, ReadOnce DEF Address
<1>6. w = v
  BY <1>2, <1>5 DEF Ordinary, ServedObjects
<1>7. QED
  BY <1>6, OneBlockEach

LEMMA NoneTwice ==
    ASSUME Importing, Ordinary
    PROVE  ~Duplicates(Written)
<1> SUFFICES ASSUME NEW b \in Written, NEW c \in Written, SameObject(b, c) PROVE b.at = c.at
  BY DEF Duplicates
<1>1. CASE Identity(b) = Identity(c)
  BY <1>1, IdentityTells
<1>2. CASE HasService(b) /\ HasService(c) /\ ServiceName(b) = ServiceName(c)
  <2>1. b.kind \in ServedKinds /\ c.kind \in ServedKinds
    BY <1>2 DEF HasService
  <2>2. Sound /\ Made(b, SourceObject(b)) /\ Made(c, SourceObject(c))
    BY <2>1, WorkloadsAreMade DEF WorkloadKinds
  <2>3. /\ ServiceOf(SourceObject(b)) # None /\ ServiceName(b) = ServiceOf(SourceObject(b)).name
        /\ ServiceOf(SourceObject(c)) # None /\ ServiceName(c) = ServiceOf(SourceObject(c)).name
    BY <1>2, <2>1, <2>2, ServiceIsNamed
  <2>4. QED
    BY <1>2, <2>1, <2>3, ServiceTells
<1>3. QED
  BY <1>1, <1>2 DEF SameObject

\* Certificates are asked for only by ingresses whose secret is not known.
LEMMA NoCertificate ==
    ASSUME NEW b, NEW w, NEW i, NEW g, MadeIngress(b, w, i, g), None \notin ToSet(g.tls)
    PROVE  CertificateSecretName(b.ingresses[i]) = None
<1>1. /\ b.ingresses[i].tls <=> g.tls # <<>>
      /\ b.ingresses[i].secret = IF g.tls # <<>> THEN g.tls[1] ELSE None
  BY DEF MadeIngress, IsIngressOf
<1>2. CASE g.tls = <<>>
  BY <1>1, <1>2 DEF CertificateSecretName
<1>3. CASE g.tls # <<>>
  <2>1. Lists(g.tls)
    BY DEF MadeIngress, ObjectOK
  <2>2. 1 \in DOMAIN g.tls
    BY <1>3, <2>1, ListIndices, EmptySeq
  <2>3. g.tls[1] # None
    BY <2>2 DEF ToSet
  <2>4. QED
    BY <1>1, <1>3, <2>3 DEF CertificateSecretName
<1>4. QED
  BY <1>2, <1>3

\* Two ingresses of one name, of workloads that have been written, are one.
LEMMA RouteTells ==
    ASSUME Importing, Ordinary, NEW b \in Written, NEW c \in Written,
           b.kind \in ServedKinds, c.kind \in ServedKinds,
           ~Renamed(SourceObject(b)), ~Renamed(SourceObject(c)),
           NEW i \in DOMAIN b.ingresses, NEW j \in DOMAIN c.ingresses, SameRoute(b, i, c, j)
    PROVE  b.at = c.at /\ i = j
<1> DEFINE w == SourceObject(b)
           v == SourceObject(c)
           g == Ruled(w)[i]
           h == Ruled(v)[j]
<1>1. Sound /\ Made(b, w) /\ Made(c, v)
  BY WorkloadsAreMade DEF WorkloadKinds
<1>2. MadeIngress(b, w, i, g) /\ MadeIngress(c, v, j, h)
  BY <1>1, RuledAreMade
<1> HIDE DEF g, h, w, v
<1>3. g \in ToSet(read) /\ g.kind = "Ingress" /\ h \in ToSet(read) /\ h.kind = "Ingress"
  BY <1>2 DEF MadeIngress
<1>4. g \in ToSet(Read("Ingress")) /\ h \in ToSet(Read("Ingress"))
  BY <1>1, <1>3, ReadOfKind DEF Sound
<1>5. CertificateSecretName(b.ingresses[i]) = None
  BY <1>2, <1>4, NoCertificate DEF Ordinary
<1>6. ResourceName(b, i) = ResourceName(c, j)
  BY <1>5 DEF SameRoute
<1>7. g.name = h.name
  BY <1>1, <1>2, <1>6, NameReturns DEF w, v
<1>8. g.ns = h.ns
  BY <1>3 DEF Ordinary
<1>9. g = h
  BY <1>1, <1>3, <1>7, <1>8, ReadOnce DEF Address
<1>10. /\ ServiceOf(w) # None /\ \E k \in Backends(g) : k.service = ServiceOf(w).name
       /\ ServiceOf(v) # None /\ \E k \in Backends(g) : k.service = ServiceOf(v).name
  BY <1>2, <1>9 DEF MadeIngress
<1>11. ServiceOf(w).name = ServiceOf(v).name
  BY <1>4, <1>10 DEF Ordinary
<1>12. b.at = c.at
  BY <1>10, <1>11, ServiceTells DEF w, v
<1>13. w = v
  BY <1>12 DEF w, v, SourceObject
<1>14. i \in DOMAIN Ruled(w) /\ j \in DOMAIN Ruled(w) /\ Ruled(w)[i] = Ruled(w)[j]
  BY <1>2, <1>9, <1>13 DEF MadeIngress
<1>15. i = j
  BY <1>1, <1>14, ReadOnce DEF Once
<1>16. QED
  BY <1>12, <1>15

\* What an import of an ordinary namespace has written loads again, if its texts
\* and names can stand in a definition file and its claim templates ask for
\* storage and are mounted: the parser refuses no block and no two clash
\* (parser.go:470-533, duplicates.go:33-45, mapper.go:81-167, 400, 577,
\* statefulset_render.go:76-102).
THEOREM LoadsAgain == ImportSpec => []LoadsBack
<1>1. Importing => LoadsBack
  <2> SUFFICES ASSUME Importing, Ordinary, Expressible,
                      \A b \in Written : b.kind \in ServedKinds => ~Renamed(SourceObject(b))
               PROVE  (\A b \in Written : BlockAccepted(b)) /\ ~Duplicates(Written) /\ ~IngressConflict(Written)
    BY DEF LoadsBack, Loads
  <2>1. \A b \in Written : BlockAccepted(b)
    BY WrittenAccepted
  <2>2. ~Duplicates(Written)
    BY NoneTwice
  <2>3. ~IngressConflict(Written)
    <3> SUFFICES ASSUME NEW b \in Written, NEW c \in Written,
                        b.kind \in {"deployment", "statefulset", "ingress"},
                        c.kind \in {"deployment", "statefulset", "ingress"},
                        NEW i \in DOMAIN b.ingresses, NEW j \in DOMAIN c.ingresses, SameRoute(b, i, c, j)
                 PROVE  <<b.at, i>> = <<c.at, j>>
      BY DEF IngressConflict
    <3>1. \A d \in Written : d.kind # "ingress"
      BY WrittenAre DEF Describes, BlockKind
    <3>2. b.kind \in ServedKinds /\ c.kind \in ServedKinds
      BY <3>1 DEF ServedKinds
    <3>3. b.at = c.at /\ i = j
      BY <3>2, RouteTells
    <3>4. QED
      BY <3>3
  <2>4. QED
    BY <2>1, <2>2, <2>3
<1>2. QED
  BY <1>1, AlwaysImporting, PTL
=============================================================================
