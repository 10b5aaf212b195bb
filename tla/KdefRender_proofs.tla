------------------------- MODULE KdefRender_proofs -------------------------
(***************************************************************************)
(* Proofs about the load of a project and the command that renders it: the *)
(* type invariant, what a project that loads can be relied on for, and     *)
(* what is written, for any project whatever.                              *)
(***************************************************************************)
EXTENDS KdefRender, KdefGenerate_proofs

(***************************************************************************)
(* Blocks.  After it has been parsed, a block is edited in few of its      *)
(* fields: the ingress defaults touch its ingresses, an environment file   *)
(* its replicas, an entry its namespace and service account.               *)
(***************************************************************************)
Place == [1..5 -> Nat]

\* A block as it is parsed, that was accepted, and that has a place.
Whole(b) == BlockOK(b) /\ BlockAccepted(b) /\ b.at \in Place

AllWhole(S) == \A b \in S : Whole(b)

\* An ingress keeps all but what the defaults may fill.
Filled(j, i) ==
    /\ DOMAIN j = DOMAIN BlankIngress /\ j.tls \in BOOLEAN
    /\ \A x \in DOMAIN BlankIngress \ {"tls", "secret", "class"} : j[x] = i[x]

\* c is b but for the fields of X.
Edited(c, b, X) ==
    /\ X \subseteq {"ns", "sa", "ingresses", "replicas"}
    /\ DOMAIN c = DOMAIN Blank
    /\ \A x \in DOMAIN Blank \ X : c[x] = b[x]
    /\ {c.ns, c.sa} \subseteq Name \cup {None}
    /\ c.ns # b.ns => b.kind \in NamespacedKinds
    /\ c.sa # b.sa => b.kind \in WorkloadKinds
    /\ c.replicas # b.replicas => b.kind \in {"deployment", "statefulset"}
    /\ Lists(c.ingresses) /\ DOMAIN c.ingresses = DOMAIN b.ingresses
    /\ \A i \in DOMAIN b.ingresses : Filled(c.ingresses[i], b.ingresses[i])

Edits(S, T, X) == \E f : T = {f[b] : b \in S} /\ \A b \in S : Edited(f[b], b, X)

Fixed == DOMAIN Blank \ {"ns", "sa", "ingresses", "replicas"}

LEMMA EditedKeeps ==
    ASSUME NEW b, NEW c, NEW X, Edited(c, b, X)
    PROVE  /\ c.kind = b.kind /\ c.name = b.name /\ c.at = b.at /\ c.service = b.service
           /\ c.volumes = b.volumes /\ c.claims = b.claims /\ c.evaluates = b.evaluates
           /\ c.containers = b.containers /\ c.inits = b.inits
           /\ \A x \in Fixed : c[x] = b[x]
<1>1. {"kind", "name", "at", "service", "volumes", "claims", "containers", "inits", "evaluates"} \subseteq Fixed
  BY DEF Fixed, Blank
<1>2. \A x \in Fixed : c[x] = b[x]
  BY DEF Edited, Fixed
<1>3. QED
  BY <1>1, <1>2

LEMMA EditedIsWhole ==
    ASSUME NEW b, NEW c, NEW X, Edited(c, b, X), Whole(b)
    PROVE  Whole(c)
<1>1. /\ c.kind = b.kind /\ c.name = b.name /\ c.at = b.at /\ c.service = b.service
      /\ c.volumes = b.volumes /\ c.containers = b.containers /\ c.inits = b.inits
      /\ c.claims = b.claims /\ c.evaluates = b.evaluates
      /\ \A x \in Fixed : c[x] = b[x]
  BY EditedKeeps
<1>2. BlockOK(b) /\ BlockAccepted(b)
  BY DEF Whole
<1>3. \A i \in DOMAIN b.ingresses :
          /\ DOMAIN c.ingresses[i] = DOMAIN BlankIngress /\ c.ingresses[i].tls \in BOOLEAN
          /\ c.ingresses[i].backend = b.ingresses[i].backend
          /\ c.ingresses[i].port = b.ingresses[i].port
  <2>1. {"backend", "port"} \subseteq DOMAIN BlankIngress \ {"tls", "secret", "class"}
    BY DEF BlankIngress
  <2>2. QED
    BY <2>1 DEF Edited, Filled
<1>4. BlockOK(c)
  BY <1>1, <1>2, <1>3 DEF BlockOK, Edited
<1>5. FieldsAccepted(c)
  <2> SUFFICES ASSUME NEW f \in DOMAIN Blank \ (FieldsOf[b.kind] \cup {"kind", "name", "evaluates", "at"})
               PROVE  c[f] = Blank[f]
    BY <1>1 DEF FieldsAccepted
  <2>1. b[f] = Blank[f]
    BY <1>2 DEF BlockAccepted, FieldsAccepted
  <2>2. b.kind \in KindsOfBlock
    BY <1>2 DEF BlockOK
  <2>3. CASE f \in Fixed
    BY <1>1, <2>1, <2>3
  <2>4. CASE f = "ns"
    <3>1. b.kind \notin NamespacedKinds
      BY <2>4 DEF FieldsOf, NamespacedKinds, WorkloadKinds, ServedKinds, ServedFields,
                  DeploymentFields, DaemonSetFields, StatefulSetFields, CronJobFields, IngressFields,
                  ConfigMapFields, SecretFields, SealedSecretFields, PersistentVolumeClaimFields
    <3>2. QED
      BY <2>1, <2>4, <3>1 DEF Edited
  <2>5. CASE f = "sa"
    <3>1. b.kind \notin WorkloadKinds
      BY <2>5 DEF FieldsOf, WorkloadKinds, ServedKinds, ServedFields, DeploymentFields,
                  DaemonSetFields, StatefulSetFields, CronJobFields
    <3>2. QED
      BY <2>1, <2>5, <3>1 DEF Edited
  <2>6. CASE f = "replicas"
    <3>1. b.kind \notin {"deployment", "statefulset"}
      BY <2>6 DEF FieldsOf, DeploymentFields, StatefulSetFields
    <3>2. QED
      BY <2>1, <2>6, <3>1 DEF Edited
  <2>7. CASE f = "ingresses"
    <3>1. b.ingresses = <<>>
      BY <2>1, <2>7 DEF Blank
    <3>2. DOMAIN c.ingresses = {} /\ Lists(c.ingresses)
      BY <3>1 DEF Edited
    <3>3. c.ingresses = <<>>
      BY <3>2, EmptySeq DEF Lists
    <3>4. QED
      BY <2>7, <3>3 DEF Blank
  <2>8. QED
    BY <2>3, <2>4, <2>5, <2>6, <2>7 DEF Fixed
<1>6. c.histories = b.histories /\ c.storageVersions = b.storageVersions
  BY <1>1 DEF Fixed, Blank
<1>7. \A i \in DOMAIN c.ingresses : IngressAccepted(c.ingresses[i], c.kind = "ingress")
  BY <1>1, <1>2, <1>3 DEF Edited, BlockAccepted, IngressAccepted
<1>8. c.kind = "cronjob" => CronJobAccepted(c)
  BY <1>1, <1>2 DEF BlockAccepted, CronJobAccepted
<1>9. BlockAccepted(c)
  BY <1>1, <1>2, <1>5, <1>6, <1>7, <1>8 DEF BlockAccepted
<1>10. QED
  BY <1>1, <1>4, <1>9 DEF Whole

\* What edits keep of a set of blocks.
LEMMA EditsKeep ==
    ASSUME NEW S, NEW T, NEW X, Edits(S, T, X), AllWhole(S)
    PROVE  /\ AllWhole(T)
           /\ \A c \in T : \E b \in S : Edited(c, b, X)
           /\ \A b \in S : \E c \in T : Edited(c, b, X)
           /\ OnePerPlace(S) => OnePerPlace(T)
<1>1. PICK f : T = {f[b] : b \in S} /\ \A b \in S : Edited(f[b], b, X)
  BY DEF Edits
<1>2. \A c \in T : \E b \in S : c = f[b] /\ Edited(c, b, X)
  BY <1>1
<1>3. \A b \in S : \E c \in T : Edited(c, b, X)
  BY <1>1
<1>4. AllWhole(T)
  BY <1>2, EditedIsWhole DEF AllWhole
<1>5. ASSUME OnePerPlace(S), NEW c \in T, NEW d \in T, c.at = d.at
      PROVE  c = d
  <2>1. PICK b1 \in S : c = f[b1] /\ Edited(c, b1, X)
    BY <1>2
  <2>2. PICK b2 \in S : d = f[b2] /\ Edited(d, b2, X)
    BY <1>2
  <2>3. c.at = b1.at /\ d.at = b2.at
    BY <2>1, <2>2, EditedKeeps
  <2>4. b1 = b2
    BY <1>5, <2>3 DEF OnePerPlace
  <2>5. QED
    BY <2>1, <2>2, <2>4
<1>6. QED
  BY <1>2, <1>3, <1>4, <1>5 DEF OnePerPlace
\* Edits that leave the namespaces alone make no duplicates.
LEMMA EditsMakeNoDuplicates ==
    ASSUME NEW S, NEW T, NEW X, Edits(S, T, X), AllWhole(S), "ns" \notin X, ~Duplicates(S)
    PROVE  ~Duplicates(T)
<1> SUFFICES ASSUME NEW c1 \in T, NEW c2 \in T, c1.at # c2.at, SameObject(c1, c2)
             PROVE  FALSE
  BY DEF Duplicates
<1>1. PICK b1 \in S : Edited(c1, b1, X)
  BY EditsKeep
<1>2. PICK b2 \in S : Edited(c2, b2, X)
  BY EditsKeep
<1>3. "ns" \in DOMAIN Blank \ X
  BY DEF Blank
<1>4. /\ c1.kind = b1.kind /\ c1.name = b1.name
      /\ c1.service = b1.service /\ c1.at = b1.at
  BY <1>1, EditedKeeps
<1>5. /\ c2.kind = b2.kind /\ c2.name = b2.name
      /\ c2.service = b2.service /\ c2.at = b2.at
  BY <1>2, EditedKeeps
<1>6. c1.ns = b1.ns /\ c2.ns = b2.ns
  BY <1>1, <1>2, <1>3 DEF Edited
<1>7. SameObject(b1, b2)
  BY <1>4, <1>5, <1>6 DEF SameObject, Identity, HasService, ServiceName
<1>8. QED
  BY <1>4, <1>5, <1>7 DEF Duplicates

\* Edits of replicas make no conflicts of ingresses.
LEMMA EditsMakeNoConflict ==
    ASSUME NEW S, NEW T, Edits(S, T, {"replicas"}), AllWhole(S), ~IngressConflict(S)
    PROVE  ~IngressConflict(T)
<1> DEFINE Routed(U) == {d \in U : d.kind \in {"deployment", "statefulset", "ingress"}}
<1> SUFFICES ASSUME NEW c1 \in Routed(T), NEW c2 \in Routed(T),
                    NEW i \in DOMAIN c1.ingresses, NEW j \in DOMAIN c2.ingresses,
                    <<c1.at, i>> # <<c2.at, j>>, SameRoute(c1, i, c2, j)
             PROVE  FALSE
  BY DEF IngressConflict
<1>1. PICK b1 \in S : Edited(c1, b1, {"replicas"})
  BY EditsKeep
<1>2. PICK b2 \in S : Edited(c2, b2, {"replicas"})
  BY EditsKeep
<1>3. {"kind", "ns", "name", "at", "ingresses"} \subseteq DOMAIN Blank \ {"replicas"}
  BY DEF Blank
<1>4. /\ c1.kind = b1.kind /\ c1.ns = b1.ns /\ c1.name = b1.name /\ c1.at = b1.at
      /\ c1.ingresses = b1.ingresses
  BY <1>1, <1>3 DEF Edited
<1>5. /\ c2.kind = b2.kind /\ c2.ns = b2.ns /\ c2.name = b2.name /\ c2.at = b2.at
      /\ c2.ingresses = b2.ingresses
  BY <1>2, <1>3 DEF Edited
<1>6. SameRoute(b1, i, b2, j)
  BY <1>4, <1>5 DEF SameRoute, ResourceName
<1>7. b1 \in Routed(S) /\ b2 \in Routed(S)
  BY <1>4, <1>5
<1>8. <<b1.at, i>> # <<b2.at, j>>
  BY <1>4, <1>5
<1>9. QED
  BY <1>4, <1>5, <1>6, <1>7, <1>8 DEF IngressConflict

\* The ingress defaults leave the namespaces and the service accounts alone.
LEMMA EditsKeepAccepted ==
    ASSUME NEW S, NEW T, Edits(S, T, {"ingresses"}), AllWhole(S), NEW root, NamespacesAccepted(S, root)
    PROVE  NamespacesAccepted(T, root)
<1> SUFFICES ASSUME NEW c \in T, c.kind \in NamespacedKinds
             PROVE  NamespaceAccepted(c, root) /\ AccountAccepted(c, root)
  BY DEF NamespacesAccepted
<1>1. PICK b \in S : Edited(c, b, {"ingresses"})
  BY EditsKeep
<1>2. {"kind", "ns", "sa"} \subseteq DOMAIN Blank \ {"ingresses"}
  BY DEF Blank
<1>3. c.kind = b.kind /\ c.ns = b.ns /\ c.sa = b.sa
  BY <1>1, <1>2 DEF Edited
<1>4. NamespaceAccepted(b, root) /\ AccountAccepted(b, root)
  BY <1>3 DEF NamespacesAccepted
<1>5. QED
  BY <1>3, <1>4 DEF NamespaceAccepted, AccountAccepted

\* What refers to what is no matter of edits.
LEMMA EditsKeepReferences ==
    ASSUME NEW S, NEW T, NEW X, Edits(S, T, X), AllWhole(S)
    PROVE  /\ \A c \in T : \E b \in S : c.kind = b.kind /\ c.name = b.name /\ References(c) = References(b)
           /\ \A ref : Provided(S, ref) => Provided(T, ref)
<1>1. ASSUME NEW c, NEW b, Edited(c, b, X)
      PROVE  c.kind = b.kind /\ c.name = b.name /\ References(c) = References(b)
  <2>1. /\ c.kind = b.kind /\ c.name = b.name
        /\ c.volumes = b.volumes /\ c.containers = b.containers /\ c.inits = b.inits
    BY <1>1, EditedKeeps
  <2>2. QED
    BY <2>1 DEF References
<1>2. \A c \in T : \E b \in S : c.kind = b.kind /\ c.name = b.name /\ References(c) = References(b)
  BY <1>1, EditsKeep
<1>3. \A b \in S : \E c \in T : c.kind = b.kind /\ c.name = b.name
  BY <1>1, EditsKeep
<1>4. \A ref : Provided(S, ref) => Provided(T, ref)
  BY <1>3 DEF Provided
<1>5. QED
  BY <1>2, <1>4

(***************************************************************************)
(* The three edits.                                                        *)
(***************************************************************************)
\* A block is an edit of itself.
LEMMA SelfEdited ==
    ASSUME NEW b, Whole(b), NEW X, X \subseteq {"ns", "sa", "ingresses", "replicas"}
    PROVE  Edited(b, b, X)
<1>1. BlockOK(b)
  BY DEF Whole
<1>2. \A i \in DOMAIN b.ingresses : Filled(b.ingresses[i], b.ingresses[i])
  BY <1>1 DEF BlockOK, Filled
<1>3. QED
  BY <1>1, <1>2 DEF BlockOK, Edited

LEMMA DefaultsFill ==
    ASSUME NEW i, DOMAIN i = DOMAIN BlankIngress, i.tls \in BOOLEAN, NEW d
    PROVE  Filled(WithDefaults(i, d), i)
<1>1. {"tls", "secret", "class"} \subseteq DOMAIN BlankIngress
  BY DEF BlankIngress
<1>2. CASE d = None
  BY <1>2 DEF WithDefaults, Filled
<1>3. CASE d # None
  <2> DEFINE j == WithDefaults(i, d)
  <2>1. /\ DOMAIN j = DOMAIN i /\ j.tls = (i.tls \/ d.tls = TRUE)
        /\ \A x \in DOMAIN BlankIngress \ {"tls", "secret", "class"} : j[x] = i[x]
    BY <1>1, <1>3 DEF WithDefaults
  <2>2. (i.tls \/ d.tls = TRUE) \in BOOLEAN
    OBVIOUS
  <2>3. QED
    BY <2>1, <2>2 DEF Filled
<1>4. QED
  BY <1>2, <1>3

LEMMA DefaultsEdit ==
    ASSUME NEW S, AllWhole(S), NEW d
    PROVE  Edits(S, ApplyIngressDefaults(S, d), {"ingresses"})
<1> DEFINE F(b) == [b EXCEPT !.ingresses = [i \in DOMAIN @ |-> WithDefaults(@[i], d)]]
           f == [b \in S |-> F(b)]
<1>1. ASSUME NEW b \in S
      PROVE  Edited(F(b), b, {"ingresses"})
  <2>1. BlockOK(b)
    BY DEF AllWhole, Whole
  <2>2. "ingresses" \in DOMAIN b
    BY <2>1 DEF BlockOK, Blank
  <2>3. /\ DOMAIN F(b) = DOMAIN Blank
        /\ F(b).ingresses = [i \in DOMAIN b.ingresses |-> WithDefaults(b.ingresses[i], d)]
        /\ \A x \in DOMAIN Blank \ {"ingresses"} : F(b)[x] = b[x]
    BY <2>1, <2>2 DEF BlockOK
  <2>4. \A i \in DOMAIN b.ingresses : Filled(F(b).ingresses[i], b.ingresses[i])
    BY <2>1, <2>3, DefaultsFill DEF BlockOK
  <2>5. Len(b.ingresses) \in Nat /\ DOMAIN b.ingresses = 1..Len(b.ingresses)
    BY <2>1 DEF BlockOK, Lists
  <2>6. Lists(F(b).ingresses) /\ DOMAIN F(b).ingresses = DOMAIN b.ingresses
    BY <2>3, <2>5 DEF Lists
  <2>7. {"ns", "sa", "kind", "replicas"} \subseteq DOMAIN Blank \ {"ingresses"}
    BY DEF Blank
  <2>8. F(b).ns = b.ns /\ F(b).sa = b.sa /\ F(b).replicas = b.replicas
    BY <2>3, <2>7
  <2>9. {b.ns, b.sa} \subseteq Name \cup {None}
    BY <2>1 DEF BlockOK
  <2> HIDE DEF F
  <2>10. QED
    BY <2>3, <2>4, <2>6, <2>8, <2>9 DEF Edited
<1>2. ApplyIngressDefaults(S, d) = {f[b] : b \in S}
  BY DEF ApplyIngressDefaults
<1>3. \A b \in S : Edited(f[b], b, {"ingresses"})
  BY <1>1
<1> HIDE DEF f
<1>4. QED
  BY <1>2, <1>3 DEF Edits

LEMMA OverridesEdit ==
    ASSUME NEW S, AllWhole(S), NEW replicas
    PROVE  Edits(S, ApplyOverrides(S, replicas), {"replicas"})
<1> DEFINE F(b) == IF b.kind \in {"deployment", "statefulset"} /\ b.name \in DOMAIN replicas
                   THEN [b EXCEPT !.replicas = replicas[b.name]] ELSE b
           f == [b \in S |-> F(b)]
<1>1. ASSUME NEW b \in S
      PROVE  Edited(F(b), b, {"replicas"})
  <2>1. Whole(b) /\ Edited(b, b, {"replicas"})
    BY SelfEdited DEF AllWhole
  <2>2. CASE b.kind \in {"deployment", "statefulset"} /\ b.name \in DOMAIN replicas
    <3> DEFINE c == [b EXCEPT !.replicas = replicas[b.name]]
    <3>1. DOMAIN b = DOMAIN Blank
      BY <2>1 DEF Whole, BlockOK
    <3>2. DOMAIN c = DOMAIN Blank /\ \A x \in DOMAIN Blank \ {"replicas"} : c[x] = b[x]
      BY <3>1
    <3>3. {"ns", "sa", "ingresses"} \subseteq DOMAIN Blank \ {"replicas"}
      BY DEF Blank
    <3>4. c.ns = b.ns /\ c.sa = b.sa /\ c.ingresses = b.ingresses
      BY <3>2, <3>3
    <3> HIDE DEF c
    <3>5. Edited(c, b, {"replicas"})
      BY <2>1, <2>2, <3>2, <3>4 DEF Edited
    <3>6. QED
      BY <2>2, <3>5 DEF c
  <2>3. CASE ~(b.kind \in {"deployment", "statefulset"} /\ b.name \in DOMAIN replicas)
    BY <2>1, <2>3
  <2>4. QED
    BY <2>2, <2>3
<1>2. ApplyOverrides(S, replicas) = {f[b] : b \in S}
  BY DEF ApplyOverrides
<1>3. \A b \in S : Edited(f[b], b, {"replicas"})
  BY <1>1
<1> HIDE DEF f
<1>4. QED
  BY <1>2, <1>3 DEF Edits

LEMMA InjectionEdits ==
    ASSUME NEW S, AllWhole(S), NEW e, {e.ns, e.sa} \subseteq Name \cup {None}
    PROVE  Edits(S, {Injected(b, e) : b \in S}, {"ns", "sa"})
<1> DEFINE f == [b \in S |-> Injected(b, e)]
<1>1. ASSUME NEW b \in S
      PROVE  Edited(Injected(b, e), b, {"ns", "sa"})
  <2>1. Whole(b) /\ Edited(b, b, {"ns", "sa"})
    BY SelfEdited DEF AllWhole
  <2>2. DOMAIN b = DOMAIN Blank /\ {b.ns, b.sa} \subseteq Name \cup {None}
    BY <2>1 DEF Whole, BlockOK
  <2>3. {"ns", "sa", "kind"} \subseteq DOMAIN Blank
    BY DEF Blank
  <2> DEFINE m == InjectNamespace(b, e.ns)
             c == Injected(b, e)
  <2>4. /\ DOMAIN m = DOMAIN Blank /\ \A x \in DOMAIN Blank \ {"ns"} : m[x] = b[x]
        /\ m.ns \in Name \cup {None} /\ (m.ns # b.ns => b.kind \in NamespacedKinds)
    BY <2>2, <2>3 DEF InjectNamespace
  <2>5. m.kind = b.kind /\ m.sa = b.sa
    BY <2>3, <2>4
  <2>6. c = IF m.kind \in WorkloadKinds /\ m.sa = None THEN [m EXCEPT !.sa = e.sa] ELSE m
    BY DEF Injected, InjectServiceAccount
  <2> HIDE DEF m, c
  <2>7. /\ DOMAIN c = DOMAIN Blank /\ \A x \in DOMAIN Blank \ {"sa"} : c[x] = m[x]
        /\ c.sa \in Name \cup {None} /\ (c.sa # b.sa => b.kind \in WorkloadKinds)
    BY <2>2, <2>3, <2>4, <2>5, <2>6
  <2>8. \A x \in DOMAIN Blank \ {"ns", "sa"} : c[x] = b[x]
    BY <2>4, <2>7
  <2>9. c.ns = m.ns
    BY <2>3, <2>7
  <2>10. {"ingresses", "replicas"} \subseteq DOMAIN Blank \ {"ns", "sa"}
    BY DEF Blank
  <2>11. c.ingresses = b.ingresses /\ c.replicas = b.replicas
    BY <2>8, <2>10
  <2>12. Edited(c, b, {"ns", "sa"})
    BY <2>1, <2>4, <2>7, <2>8, <2>9, <2>11 DEF Edited
  <2>13. QED
    BY <2>12 DEF c
<1>2. {Injected(b, e) : b \in S} = {f[b] : b \in S}
  OBVIOUS
<1>3. \A b \in S : Edited(f[b], b, {"ns", "sa"})
  BY <1>1
<1> HIDE DEF f
<1>4. QED
  BY <1>2, <1>3 DEF Edits
(***************************************************************************)
(* Files.                                                                  *)
(***************************************************************************)
LEMMA PlaceOf ==
    \A e, f, i, p, k : Append(<<e, f>>, i) \o <<p, k>> = <<e, f, i, p, k>>
<1> SUFFICES ASSUME NEW e, NEW f, NEW i, NEW p, NEW k
             PROVE  Append(<<e, f>>, i) \o <<p, k>> = <<e, f, i, p, k>>
  OBVIOUS
<1> DEFINE Part == {e, f, i, p, k}
           s == Append(<<e, f>>, i)
           t == <<p, k>>
<1>1. /\ <<e, f>> \in Seq(Part) /\ Len(<<e, f>>) = 2
      /\ t \in Seq(Part) /\ Len(t) = 2 /\ t[1] = p /\ t[2] = k
  OBVIOUS
<1>2. s \in Seq(Part) /\ Len(s) = 3 /\ s[1] = e /\ s[2] = f /\ s[3] = i
  BY <1>1, AppendProperties
<1> HIDE DEF s, t, Part
<1>3. /\ s \o t \in Seq(Part) /\ Len(s \o t) = 5
      /\ \A j \in 1..5 : (s \o t)[j] = IF j <= 3 THEN s[j] ELSE t[j - 3]
  <2>1. /\ s \o t \in Seq(Part) /\ Len(s \o t) = Len(s) + Len(t)
        /\ \A j \in 1..(Len(s) + Len(t)) :
              (s \o t)[j] = IF j <= Len(s) THEN s[j] ELSE t[j - Len(s)]
    BY <1>1, <1>2, ConcatProperties, ZenonT(60)
  <2>2. QED
    BY <1>1, <1>2, <2>1
<1>4. <<e, f, i, p, k>> \in Seq(Part) /\ Len(<<e, f, i, p, k>>) = 5
  BY DEF Part
<1>5. \A j \in 1..5 : (s \o t)[j] = <<e, f, i, p, k>>[j]
  BY <1>1, <1>2, <1>3
<1>6. s \o t = <<e, f, i, p, k>>
  BY <1>3, <1>4, <1>5, SeqEqual
<1>7. QED
  BY <1>6 DEF s, t

\* A block of a file is one that an item of it lists, for one of the elements.
LEMMA FileBlock ==
    ASSUME NEW items, NEW ctx, NEW e, NEW f, NEW b \in FileBlocks(items, ctx, <<e, f>>)
    PROVE  \E i \in DOMAIN items : \E p \in DOMAIN items[i].blocks :
               \E k \in DOMAIN ElementsFor(items[i], ctx) :
                   b = Parsed(items[i].blocks[p], ElementsFor(items[i], ctx)[k], <<e, f, i, p, k>>)
<1>1. PICK i \in DOMAIN items : b \in ItemBlocks(items[i], ctx, Append(<<e, f>>, i))
  BY DEF FileBlocks
<1>2. PICK p \in DOMAIN items[i].blocks, k \in DOMAIN ElementsFor(items[i], ctx) :
          b = Parsed(items[i].blocks[p], ElementsFor(items[i], ctx)[k],
                     Append(<<e, f>>, i) \o <<p, k>>)
  BY <1>1 DEF ItemBlocks
<1>3. Append(<<e, f>>, i) \o <<p, k>> = <<e, f, i, p, k>>
  BY PlaceOf
<1>4. QED
  BY <1>2, <1>3

\* What an item is parsed for, when it is accepted.
LEMMA ElementsAreOK ==
    ASSUME NEW item, ItemOK(item), NEW ctx \in Setting, ItemAccepted(item, ctx),
           NEW k \in DOMAIN ElementsFor(item, ctx)
    PROVE  /\ k \in Nat
           /\ item.form = "for" => ElementsFor(item, ctx)[k] \in {Alphabet[i] : i \in DOMAIN Alphabet}
<1>1. CASE item.form = "for"
  <2>1. item.var \in Variable /\ ctx[item.var] # None /\ Elements[ctx[item.var]] # None
    BY <1>1 DEF ItemOK, ItemAccepted
  <2>2. ctx[item.var] \in Value
    BY <2>1 DEF Setting
  <2>3. Elements[ctx[item.var]] \in Name
    BY <2>1, <2>2, LoaderAssumption
  <2>4. ElementsFor(item, ctx) \in Name
    BY <1>1, <2>3 DEF ElementsFor
  <2>5. QED
    BY <2>4 DEF Name
<1>2. CASE item.form # "for"
  <2>1. ElementsFor(item, ctx) \in {<<None>>, <<>>}
    BY <1>2 DEF ItemOK, ElementsFor
  <2>2. QED
    BY <1>2, <2>1
<1>3. QED
  BY <1>1, <1>2

LEMMA ParsedFields ==
    ASSUME NEW block, DOMAIN block = DOMAIN Blank, NEW element, NEW place
    PROVE  LET b == Parsed(block, element, place)
           IN  /\ DOMAIN b = DOMAIN Blank /\ b.at = place
               /\ b.name = IF block.perItem THEN Append(block.name, element) ELSE block.name
               /\ \A x \in DOMAIN Blank \ {"name", "at"} : b[x] = block[x]
<1>1. "at" \in DOMAIN Blank /\ "name" \in DOMAIN Blank /\ "at" # "name"
  BY DEF Blank
<1>2. QED
  BY <1>1 DEF Parsed

LEMMA ParsedIsWhole ==
    ASSUME NEW block, BlockOK(block), BlockAccepted(block), NEW element,
           block.perItem => element \in {Alphabet[i] : i \in DOMAIN Alphabet},
           NEW place \in Place
    PROVE  Whole(Parsed(block, element, place))
<1> DEFINE b == Parsed(block, element, place)
<1>1. /\ DOMAIN b = DOMAIN Blank /\ b.at = place
      /\ b.name = IF block.perItem THEN Append(block.name, element) ELSE block.name
      /\ \A x \in DOMAIN Blank \ {"name", "at"} : b[x] = block[x]
  BY ParsedFields DEF BlockOK
<1> HIDE DEF b
<1>2. {"kind", "ns", "sa", "service", "ingresses", "volumes", "containers", "inits", "histories",
       "storageVersions", "replicas", "claims", "evaluates"} \subseteq DOMAIN Blank \ {"name", "at"}
  BY DEF Blank
<1>3. /\ b.kind = block.kind /\ b.ns = block.ns /\ b.sa = block.sa /\ b.service = block.service
      /\ b.ingresses = block.ingresses /\ b.volumes = block.volumes
      /\ b.containers = block.containers /\ b.inits = block.inits
      /\ b.histories = block.histories /\ b.storageVersions = block.storageVersions
      /\ b.claims = block.claims /\ b.evaluates = block.evaluates
  BY <1>1, <1>2
<1>4. b.name \in Name
  <2>1. block.name \in Name
    BY DEF BlockOK
  <2>2. CASE block.perItem
    BY <1>1, <2>1, <2>2 DEF Name
  <2>3. QED
    BY <1>1, <2>1, <2>2
<1>5. BlockOK(b)
  BY <1>1, <1>3, <1>4 DEF BlockOK
<1>6. BlockAccepted(b)
  BY <1>1, <1>3 DEF BlockAccepted, FieldsAccepted, CronJobAccepted
<1>7. QED
  BY <1>1, <1>5, <1>6 DEF Whole, b

\* The blocks of a file that is accepted are whole, each has its own place, and
\* the file is the one its place names.
LEMMA FilesAreWhole ==
    ASSUME NEW items, Lists(items), \A i \in DOMAIN items : ItemOK(items[i]),
           NEW ctx \in Setting, FileAccepted(items, ctx), NEW e \in Nat, NEW f \in Nat
    PROVE  LET S == FileBlocks(items, ctx, <<e, f>>)
           IN  AllWhole(S) /\ OnePerPlace(S) /\ \A b \in S : b.at[1] = e /\ b.at[2] = f
<1> DEFINE S == FileBlocks(items, ctx, <<e, f>>)
           Of(b, i, p, k) == b = Parsed(items[i].blocks[p], ElementsFor(items[i], ctx)[k], <<e, f, i, p, k>>)
<1>1. \A b \in S : \E i \in DOMAIN items : \E p \in DOMAIN items[i].blocks :
          \E k \in DOMAIN ElementsFor(items[i], ctx) : Of(b, i, p, k)
  BY FileBlock
<1>2. ASSUME NEW b, NEW i \in DOMAIN items, NEW p \in DOMAIN items[i].blocks,
             NEW k \in DOMAIN ElementsFor(items[i], ctx), Of(b, i, p, k)
      PROVE  Whole(b) /\ b.at = <<e, f, i, p, k>>
  <2> DEFINE item == items[i]  block == items[i].blocks[p]  element == ElementsFor(items[i], ctx)[k]
             place == <<e, f, i, p, k>>
  <2>1. ItemOK(item) /\ ItemAccepted(item, ctx)
    BY DEF FileAccepted
  <2>2. BlockOK(block) /\ Lists(item.blocks)
    BY <2>1 DEF ItemOK
  <2>3. i \in Nat /\ p \in Nat
    BY <2>2 DEF Lists
  <2>4. k \in Nat /\ (item.form = "for" => element \in {Alphabet[j] : j \in DOMAIN Alphabet})
    BY <2>1, ElementsAreOK
  <2>5. place \in Place
    BY <2>3, <2>4 DEF Place
  <2>6. ElementsFor(item, ctx) # <<>>
    OBVIOUS
  <2>7. BlockAccepted(block) /\ (block.perItem => item.form = "for")
    BY <2>1, <2>6 DEF ItemAccepted
  <2>8. Whole(Parsed(block, element, place))
    BY <2>2, <2>4, <2>5, <2>7, ParsedIsWhole
  <2>9. Parsed(block, element, place).at = place
    BY <2>2, ParsedFields DEF BlockOK
  <2>10. QED
    BY <1>2, <2>8, <2>9
<1>3. AllWhole(S)
  BY <1>1, <1>2 DEF AllWhole
<1>4. ASSUME NEW b \in S
      PROVE  b.at[1] = e /\ b.at[2] = f
  <2>1. PICK i \in DOMAIN items : \E p \in DOMAIN items[i].blocks :
             \E k \in DOMAIN ElementsFor(items[i], ctx) : Of(b, i, p, k)
    BY <1>1
  <2>2. PICK p \in DOMAIN items[i].blocks : \E k \in DOMAIN ElementsFor(items[i], ctx) : Of(b, i, p, k)
    BY <2>1
  <2>3. PICK k \in DOMAIN ElementsFor(items[i], ctx) : Of(b, i, p, k)
    BY <2>2
  <2> HIDE DEF Of
  <2>4. b.at = <<e, f, i, p, k>>
    BY <1>2, <2>3
  <2>5. QED
    BY <2>4
<1>5. ASSUME NEW b \in S, NEW c \in S, b.at = c.at
      PROVE  b = c
  <2>1. PICK i \in DOMAIN items : \E p \in DOMAIN items[i].blocks :
             \E k \in DOMAIN ElementsFor(items[i], ctx) : Of(b, i, p, k)
    BY <1>1
  <2>2. PICK p \in DOMAIN items[i].blocks : \E k \in DOMAIN ElementsFor(items[i], ctx) : Of(b, i, p, k)
    BY <2>1
  <2>3. PICK k \in DOMAIN ElementsFor(items[i], ctx) : Of(b, i, p, k)
    BY <2>2
  <2>4. PICK j \in DOMAIN items : \E q \in DOMAIN items[j].blocks :
             \E l \in DOMAIN ElementsFor(items[j], ctx) : Of(c, j, q, l)
    BY <1>1
  <2>5. PICK q \in DOMAIN items[j].blocks : \E l \in DOMAIN ElementsFor(items[j], ctx) : Of(c, j, q, l)
    BY <2>4
  <2>6. PICK l \in DOMAIN ElementsFor(items[j], ctx) : Of(c, j, q, l)
    BY <2>5
  <2> HIDE DEF Of
  <2>7. <<e, f, i, p, k>> = <<e, f, j, q, l>>
    BY <1>2, <1>5, <2>3, <2>6
  <2>8. i = j /\ p = q /\ k = l
    BY <2>7
  <2>9. QED
    BY <2>3, <2>6, <2>8 DEF Of
<1>6. QED
  BY <1>3, <1>4, <1>5 DEF OnePerPlace
(***************************************************************************)
(* The inductive invariant of the load.                                    *)
(***************************************************************************)
Typed ==
    /\ project \in Project /\ phase \in Phase
    /\ entry \in Nat /\ file \in Nat \ {0}
    /\ overrides \in Setting
    /\ AllWhole(loading) /\ AllWhole(merged)

\* The directory being loaded is one of the project's, and it is there.
Somewhere ==
    /\ IF Rooted THEN entry \in 0..Len(Entries) ELSE entry = 0
    /\ Directory(entry) # None

\* The root's own files go from the parser straight to the merge, which only
\* root projects have.
InEntry ==
    /\ phase \in {"validate", "override", "join"} => ~(Rooted /\ entry = 0)
    /\ phase \in {"join", "next", "check"} => Rooted
    /\ phase = "complete" => ~Rooted
    /\ Rooted /\ phase \notin {"start", "failed"} => RootAccepted(project.root)

Emptied == loading # {} => phase \in {"parse", "validate", "override", "join", "complete", "failed"}

\* Blocks are told apart by their places, and the merged ones come from
\* entries before the one being loaded.
Placed ==
    /\ OnePerPlace(loading) /\ \A b \in loading : b.at[1] = entry /\ b.at[2] < file
    /\ OnePerPlace(merged) /\ \A b \in merged : b.at[1] <= entry
    /\ phase \in {"start", "parse", "validate", "override", "join", "complete"} =>
          \A b \in merged : b.at[1] < entry

\* What the checks of a directory have established is so until it is merged.
LoadingChecked ==
    /\ phase \in {"validate", "override", "join", "complete"} => ~Duplicates(loading)
    /\ phase \in {"override", "join", "complete"} => ~IngressConflict(loading)

\* Whatever a workload of S refers to is in S, or there is a warning.
Warned(S, W) ==
    \A b \in S : b.kind \in WorkloadKinds =>
        \A ref \in References(b) : Provided(S, ref) \/ <<b.kind, b.name, ref>> \in W

\* What the checks of the merged configuration have established stays so: the
\* defaults that are applied after the first of them touch only ingresses.
Checked ==
    /\ phase \in {"check", "done"} => ~Duplicates(merged) /\ Warned(merged, warnings)
    /\ phase \in {"check", "done"} /\ Rooted => NamespacesAccepted(merged, project.root)
    /\ phase = "done" => ~IngressConflict(merged)

LoadInv == Typed /\ Somewhere /\ InEntry /\ Emptied /\ Placed /\ LoadingChecked /\ Checked

(***************************************************************************)
(* Where the load is, and what it reads there.                             *)
(***************************************************************************)
LEMMA ElseIsSetting == \A f, g \in Setting : Else(f, g) \in Setting
BY DEF Setting, Else

LEMMA ProjectIsOK == LoadInv => ProjectOK(project)
BY LoaderAssumption DEF LoadInv, Typed

LEMMA EntriesAreOK ==
    ASSUME LoadInv, Rooted, NEW e \in 1..Len(Entries)
    PROVE  /\ Entries[e].dir \in Dir /\ Entries[e].env \in Env \cup {None}
           /\ Entries[e].set \in Setting
           /\ {Entries[e].ns, Entries[e].sa} \subseteq Name \cup {None}
<1>1. RootOK(project.root)
  BY ProjectIsOK DEF ProjectOK, Rooted
<1>2. e \in DOMAIN project.root.entries
  BY <1>1 DEF RootOK, Entries, Lists
<1>3. QED
  BY <1>1, <1>2 DEF RootOK, Entries

LEMMA EntriesAreCounted == LoadInv /\ Rooted => Len(Entries) \in Nat
BY ProjectIsOK DEF ProjectOK, RootOK, Rooted, Entries, Lists

LEMMA DirectoryIsOK == LoadInv => DirectoryOK(Directory(entry))
<1> SUFFICES ASSUME LoadInv PROVE DirectoryOK(Directory(entry))
  OBVIOUS
<1>1. Directory(entry) # None
  BY DEF LoadInv, Somewhere
<1>2. \A d \in Dir : project.dirs[d] # None => DirectoryOK(project.dirs[d])
  BY ProjectIsOK DEF ProjectOK
<1>3. CASE ~Rooted
  <2>1. project.single \in Dir
    BY <1>3, ProjectIsOK DEF ProjectOK, Rooted
  <2>2. QED
    BY <1>1, <1>2, <1>3, <2>1 DEF Directory
<1>4. CASE Rooted /\ entry = 0
  BY <1>1, <1>2, <1>4, LoaderAssumption DEF Directory
<1>5. CASE Rooted /\ entry # 0
  <2>1. entry \in 1..Len(Entries)
    BY <1>5, EntriesAreCounted DEF LoadInv, Somewhere
  <2>2. Entries[entry].dir \in Dir
    BY <1>5, <2>1, EntriesAreOK
  <2>3. QED
    BY <1>1, <1>2, <1>5, <2>2 DEF Directory
<1>6. QED
  BY <1>3, <1>4, <1>5

\* The environment file of a directory changes variables to values.  The root's
\* own files have none.
LEMMA EnvFileIsOK ==
    ASSUME LoadInv, ~Rooted \/ entry # 0, EnvFile(entry) # None
    PROVE  EnvFile(entry).useVars \in Setting
<1>1. DirectoryOK(Directory(entry))
  BY DirectoryIsOK
<1>2. EnvOf(entry) # None
  BY DEF EnvFile
<1>3. EnvOf(entry) \in Env
  <2>1. project.cli.env \in Env \cup {None}
    BY ProjectIsOK DEF ProjectOK
  <2>2. CASE ~Rooted
    BY <1>2, <2>1, <2>2 DEF EnvOf
  <2>3. CASE Rooted
    <3>1. project.root.env \in Env \cup {None}
      BY <2>3, ProjectIsOK DEF ProjectOK, RootOK, Rooted
    <3>2. entry \in 1..Len(Entries)
      BY <2>3, EntriesAreCounted DEF LoadInv, Somewhere
    <3>3. Entries[entry].env \in Env \cup {None}
      BY <2>3, <3>2, EntriesAreOK
    <3>4. QED
      BY <1>2, <2>1, <3>1, <3>3 DEF EnvOf
  <2>4. QED
    BY <2>2, <2>3
<1>4. EnvFile(entry) = Directory(entry).env[EnvOf(entry)]
  BY <1>2 DEF EnvFile
<1>5. QED
  BY <1>1, <1>3, <1>4 DEF DirectoryOK

\* The variables that a file sees have values or none.
LEMMA ContextIsSetting == LoadInv => Context(entry, overrides) \in Setting
<1> SUFFICES ASSUME LoadInv PROVE Context(entry, overrides) \in Setting
  OBVIOUS
<1>1. overrides \in Setting /\ Directory(entry).declared \in Setting /\ project.cli.values \in Setting
  BY DirectoryIsOK, ProjectIsOK DEF LoadInv, Typed, DirectoryOK, ProjectOK
<1>2. [x \in Variable |-> None] \in Setting
  BY DEF Setting
<1>3. QED
  BY <1>1, <1>2, ElseIsSetting DEF Context

(***************************************************************************)
(* The steps of the load.                                                  *)
(***************************************************************************)
LEMMA InitLoads == Init => LoadInv
<1> SUFFICES ASSUME Init PROVE LoadInv
  OBVIOUS
<1>1. ProjectOK(project)
  BY LoaderAssumption DEF Init
<1>2. Typed
  BY <1>1 DEF Init, Typed, Phase, AllWhole, ProjectOK
<1>3. Somewhere
  <2>1. Rooted => Len(Entries) \in Nat
    BY <1>1 DEF ProjectOK, RootOK, Rooted, Entries, Lists
  <2>2. Directory(0) # None
    BY <1>1 DEF ProjectOK, Directory, Rooted
  <2>3. QED
    BY <2>1, <2>2 DEF Init, Somewhere
<1>4. InEntry /\ Emptied /\ LoadingChecked /\ Checked
  BY DEF Init, InEntry, Emptied, LoadingChecked, Checked
<1>5. Placed
  BY DEF Init, Placed, OnePerPlace
<1>6. QED
  BY <1>2, <1>3, <1>4, <1>5 DEF LoadInv

\* Where the load is does not change unless the project or the entry does.
LEMMA Stays ==
    ASSUME project' = project, entry' = entry, Somewhere
    PROVE  Somewhere' /\ Rooted' = Rooted
BY DEF Somewhere, Rooted, Entries, Directory

LEMMA FailLoads == LoadInv /\ Fail => LoadInv'
<1> SUFFICES ASSUME LoadInv, Fail PROVE LoadInv'
  OBVIOUS
<1>1. Somewhere'
  BY Stays DEF LoadInv, Fail
<1>2. Typed'
  BY DEF LoadInv, Fail, Typed, Phase
<1>3. InEntry' /\ Emptied' /\ LoadingChecked' /\ Checked'
  BY DEF Fail, InEntry, Emptied, LoadingChecked, Checked
<1>4. Placed'
  BY DEF LoadInv, Fail, Placed
<1>5. QED
  BY <1>1, <1>2, <1>3, <1>4 DEF LoadInv

LEMMA StutterLoads == LoadInv /\ UNCHANGED vars => LoadInv'
<1> SUFFICES ASSUME LoadInv, UNCHANGED vars PROVE LoadInv'
  OBVIOUS
<1>1. Somewhere' /\ Rooted' = Rooted
  BY Stays DEF LoadInv, vars
<1>2. Typed'
  BY DEF LoadInv, vars, Typed
<1>3. InEntry' /\ Emptied' /\ LoadingChecked' /\ Checked' /\ Placed'
  BY <1>1 DEF LoadInv, vars, InEntry, Emptied, LoadingChecked, Checked, Placed
<1>4. QED
  BY <1>1, <1>2, <1>3 DEF LoadInv

LEMMA StartLoads == LoadInv /\ Start => LoadInv'
<1> SUFFICES ASSUME LoadInv, Start PROVE LoadInv'
  OBVIOUS
<1>1. Somewhere' /\ Rooted' = Rooted /\ loading = {}
  BY Stays DEF LoadInv, Emptied, Start
<1>2. Typed'
  BY DEF LoadInv, Start, Typed, Phase
<1>3. InEntry' /\ Emptied' /\ LoadingChecked' /\ Checked'
  BY <1>1 DEF LoadInv, Start, InEntry, Emptied, LoadingChecked, Checked
<1>4. Placed'
  BY DEF LoadInv, Start, Placed
<1>5. QED
  BY <1>1, <1>2, <1>3, <1>4 DEF LoadInv

LEMMA ParseFileLoads == LoadInv /\ ParseFile => LoadInv'
<1> SUFFICES ASSUME LoadInv, ParseFile PROVE LoadInv'
  OBVIOUS
<1> DEFINE items == Directory(entry).files[file]
           ctx   == Context(entry, overrides)
           S     == FileBlocks(items, ctx, <<entry, file>>)
<1>1. Somewhere' /\ Rooted' = Rooted
  BY Stays DEF LoadInv, ParseFile
<1>2. /\ phase = "parse" /\ phase' = phase /\ project' = project /\ entry' = entry
      /\ file' = file + 1 /\ overrides' = overrides /\ merged' = merged
      /\ loading' = loading \cup S /\ FileAccepted(items, ctx) /\ file <= Len(Directory(entry).files)
  BY DEF ParseFile
<1>3. file \in Nat \ {0} /\ entry \in Nat /\ ctx \in Setting
  BY ContextIsSetting DEF LoadInv, Typed
<1>4. Lists(items) /\ \A i \in DOMAIN items : ItemOK(items[i])
  BY <1>2, <1>3, DirectoryIsOK DEF DirectoryOK, Lists
<1>5. AllWhole(S) /\ OnePerPlace(S) /\ \A b \in S : b.at[1] = entry /\ b.at[2] = file
  BY <1>2, <1>3, <1>4, FilesAreWhole
<1> HIDE DEF S, items, ctx
<1>6. Typed'
  BY <1>2, <1>3, <1>5 DEF LoadInv, Typed, AllWhole
<1>7. InEntry' /\ Emptied' /\ LoadingChecked' /\ Checked'
  BY <1>1, <1>2 DEF LoadInv, InEntry, Emptied, LoadingChecked, Checked
<1>8. Placed'
  <2>1. /\ OnePerPlace(loading) /\ \A b \in loading : b.at[1] = entry /\ b.at[2] < file
        /\ OnePerPlace(merged) /\ \A b \in merged : b.at[1] < entry /\ b.at[1] <= entry
    BY <1>2 DEF LoadInv, Placed
  <2>2. \A b \in loading, c \in S : b.at # c.at
    BY <1>3, <1>5, <2>1
  <2>3. OnePerPlace(loading')
    BY <1>2, <1>5, <2>1, <2>2 DEF OnePerPlace
  <2>4. \A b \in loading' : b.at \in Place
    BY <1>2, <1>5 DEF LoadInv, Typed, AllWhole, Whole
  <2>5. \A b \in loading' : b.at[1] = entry /\ b.at[2] < file + 1
    BY <1>2, <1>3, <1>5, <2>1, <2>4, SMTT(30) DEF Place
  <2>6. QED
    BY <1>2, <2>1, <2>3, <2>5 DEF Placed
<1>9. QED
  BY <1>1, <1>6, <1>7, <1>8 DEF LoadInv
\* Edits leave blocks where they are.
LEMMA EditsKeepPlaces ==
    ASSUME NEW S, NEW T, NEW X, Edits(S, T, X), AllWhole(S), OnePerPlace(S)
    PROVE  /\ AllWhole(T) /\ OnePerPlace(T)
           /\ \A c \in T : \E b \in S : c.at = b.at
<1>1. AllWhole(T) /\ OnePerPlace(T) /\ \A c \in T : \E b \in S : Edited(c, b, X)
  BY EditsKeep
<1>2. QED
  BY <1>1, EditedKeeps

LEMMA FinishRootFilesLoads == LoadInv /\ FinishRootFiles => LoadInv'
<1> SUFFICES ASSUME LoadInv, FinishRootFiles PROVE LoadInv'
  OBVIOUS
<1>1. Somewhere' /\ Rooted' = Rooted
  BY Stays DEF LoadInv, FinishRootFiles
<1>2. Typed'
  BY DEF LoadInv, FinishRootFiles, Typed, Phase, AllWhole
<1>3. InEntry' /\ Emptied' /\ LoadingChecked' /\ Checked'
  BY <1>1 DEF LoadInv, FinishRootFiles, InEntry, Emptied, LoadingChecked, Checked
<1>4. Placed'
  <2>1. \A b \in loading : b.at[1] = entry
    BY DEF LoadInv, Placed
  <2>2. entry \in Nat
    BY DEF LoadInv, Typed
  <2>3. QED
    BY <2>1, <2>2 DEF LoadInv, FinishRootFiles, Placed, OnePerPlace
<1>5. QED
  BY <1>1, <1>2, <1>3, <1>4 DEF LoadInv

LEMMA FinishFilesLoads == LoadInv /\ FinishFiles => LoadInv'
<1> SUFFICES ASSUME LoadInv, FinishFiles PROVE LoadInv'
  OBVIOUS
<1> DEFINE T == ApplyIngressDefaults(loading, Directory(entry).defaults)
<1>1. Somewhere' /\ Rooted' = Rooted
  BY Stays DEF LoadInv, FinishFiles
<1>2. AllWhole(loading) /\ OnePerPlace(loading)
  BY DEF LoadInv, Typed, Placed
<1>3. Edits(loading, T, {"ingresses"})
  BY <1>2, DefaultsEdit
<1>4. loading' = T /\ ~Duplicates(loading)
  BY DEF FinishFiles
<1> HIDE DEF T
<1>5. AllWhole(T) /\ OnePerPlace(T) /\ \A c \in T : \E b \in loading : c.at = b.at
  BY <1>2, <1>3, EditsKeepPlaces
<1>6. ~Duplicates(T)
  BY <1>2, <1>3, <1>4, EditsMakeNoDuplicates
<1>7. Typed'
  BY <1>4, <1>5 DEF LoadInv, FinishFiles, Typed, Phase
<1>8. InEntry' /\ Emptied' /\ LoadingChecked' /\ Checked'
  BY <1>1, <1>4, <1>6 DEF LoadInv, FinishFiles, InEntry, Emptied, LoadingChecked, Checked
<1>9. Placed'
  BY <1>4, <1>5 DEF LoadInv, FinishFiles, Placed
<1>10. QED
  BY <1>1, <1>7, <1>8, <1>9 DEF LoadInv

LEMMA ValidateIngressesLoads == LoadInv /\ ValidateIngresses => LoadInv'
<1> SUFFICES ASSUME LoadInv, ValidateIngresses PROVE LoadInv'
  OBVIOUS
<1>1. Somewhere' /\ Rooted' = Rooted
  BY Stays DEF LoadInv, ValidateIngresses
<1>2. Typed'
  BY DEF LoadInv, ValidateIngresses, Typed, Phase
<1>3. InEntry' /\ Emptied' /\ LoadingChecked' /\ Checked'
  BY <1>1 DEF LoadInv, ValidateIngresses, InEntry, Emptied, LoadingChecked, Checked
<1>4. Placed'
  BY DEF LoadInv, ValidateIngresses, Placed
<1>5. QED
  BY <1>1, <1>2, <1>3, <1>4 DEF LoadInv

LEMMA ApplyEnvironmentLoads == LoadInv /\ ApplyEnvironment => LoadInv'
<1> SUFFICES ASSUME LoadInv, ApplyEnvironment PROVE LoadInv'
  OBVIOUS
<1>1. Somewhere' /\ Rooted' = Rooted
  BY Stays DEF LoadInv, ApplyEnvironment
<1>2. /\ AllWhole(loading) /\ OnePerPlace(loading) /\ overrides \in Setting
      /\ ~Duplicates(loading) /\ ~IngressConflict(loading)
  BY DEF LoadInv, Typed, Placed, LoadingChecked, ApplyEnvironment
<1>3. /\ AllWhole(loading') /\ OnePerPlace(loading') /\ overrides' \in Setting
      /\ ~Duplicates(loading') /\ ~IngressConflict(loading')
      /\ \A c \in loading' : \E b \in loading : c.at = b.at
  <2>1. CASE EnvFile(entry) = None
    BY <1>2, <2>1 DEF ApplyEnvironment
  <2>2. CASE EnvFile(entry) # None
    <3> DEFINE T == ApplyOverrides(loading, EnvFile(entry).replicas)
    <3>1. Edits(loading, T, {"replicas"})
      BY <1>2, OverridesEdit
    <3>2. loading' = T /\ overrides' = Else(overrides, EnvFile(entry).useVars)
      BY <2>2 DEF ApplyEnvironment
    <3> HIDE DEF T
    <3>3. AllWhole(T) /\ OnePerPlace(T) /\ \A c \in T : \E b \in loading : c.at = b.at
      BY <1>2, <3>1, EditsKeepPlaces
    <3>4. ~Duplicates(T) /\ ~IngressConflict(T)
      BY <1>2, <3>1, EditsMakeNoDuplicates, EditsMakeNoConflict
    <3>5. ~Rooted \/ entry # 0
      BY DEF LoadInv, InEntry, ApplyEnvironment
    <3>6. Else(overrides, EnvFile(entry).useVars) \in Setting
      BY <1>2, <2>2, <3>5, EnvFileIsOK, ElseIsSetting
    <3>7. QED
      BY <3>2, <3>3, <3>4, <3>6
  <2>3. QED
    BY <2>1, <2>2
<1>4. /\ phase = "override" /\ phase' \in {"join", "complete"} /\ (phase' = "join" <=> Rooted)
      /\ project' = project /\ entry' = entry /\ file' = file /\ merged' = merged
  BY DEF ApplyEnvironment
<1>5. Typed'
  BY <1>3, <1>4 DEF LoadInv, Typed, Phase
<1>6. InEntry' /\ Emptied' /\ LoadingChecked' /\ Checked'
  BY <1>1, <1>3, <1>4 DEF LoadInv, InEntry, Emptied, LoadingChecked, Checked
<1>7. Placed'
  BY <1>3, <1>4 DEF LoadInv, Placed
<1>8. QED
  BY <1>1, <1>5, <1>6, <1>7 DEF LoadInv

LEMMA NextEntryLoads == LoadInv /\ NextEntry => LoadInv'
<1> SUFFICES ASSUME LoadInv, NextEntry PROVE LoadInv'
  OBVIOUS
<1>1. /\ Rooted /\ project' = project /\ entry' = entry + 1 /\ entry < Len(Entries)
      /\ entry \in Nat /\ Directory(entry + 1) # None /\ loading = {} /\ RootAccepted(project.root)
      /\ merged' = merged /\ loading' = loading /\ phase' = "parse"
  BY DEF LoadInv, Typed, InEntry, Emptied, NextEntry
<1>2. Len(Entries) \in Nat
  BY <1>1, EntriesAreCounted
<1>3. entry + 1 \in 1..Len(Entries)
  BY <1>1, <1>2
<1>4. Somewhere'
  <2>1. Rooted' /\ Entries' = Entries /\ Directory(entry)' = Directory(entry + 1)
    BY <1>1 DEF Rooted, Entries, Directory
  <2>2. entry' \in 0..Len(Entries)
    BY <1>1, <1>2, <1>3
  <2>3. QED
    BY <1>1, <2>1, <2>2 DEF Somewhere
<1>5. OverridesOf(entry + 1) \in Setting
  <2>1. Entries[entry + 1].set \in Setting
    BY <1>1, <1>3, EntriesAreOK
  <2>2. project.cli.set \in Setting /\ project.root.set \in Setting
    BY <1>1, ProjectIsOK DEF ProjectOK, RootOK, Rooted
  <2>3. QED
    BY <2>1, <2>2, ElseIsSetting DEF OverridesOf
<1>6. Typed'
  BY <1>1, <1>5 DEF LoadInv, Typed, NextEntry, Phase
<1>7. InEntry' /\ Emptied' /\ LoadingChecked' /\ Checked'
  BY <1>1 DEF InEntry, Emptied, LoadingChecked, Checked, Rooted
<1>8. Placed'
  <2>1. \A b \in merged : b.at \in Place /\ b.at[1] <= entry
    BY DEF LoadInv, Placed, Typed, AllWhole, Whole
  <2>2. \A b \in merged : b.at[1] <= entry + 1 /\ b.at[1] < entry + 1
    BY <1>1, <2>1 DEF Place
  <2>3. QED
    BY <1>1, <2>2 DEF LoadInv, Placed
<1>9. QED
  BY <1>4, <1>6, <1>7, <1>8 DEF LoadInv

LEMMA JoinEntryLoads == LoadInv /\ JoinEntry => LoadInv'
<1> SUFFICES ASSUME LoadInv, JoinEntry PROVE LoadInv'
  OBVIOUS
<1> DEFINE T == {Injected(b, Entries[entry]) : b \in loading}
<1>1. Somewhere' /\ Rooted' = Rooted
  BY Stays DEF LoadInv, JoinEntry
<1>2. AllWhole(loading) /\ OnePerPlace(loading) /\ entry \in Nat /\ Rooted /\ entry # 0
  BY DEF LoadInv, Typed, Placed, InEntry, JoinEntry
<1>3. {Entries[entry].ns, Entries[entry].sa} \subseteq Name \cup {None}
  <2>1. entry \in 1..Len(Entries)
    BY <1>2, EntriesAreCounted DEF LoadInv, Somewhere
  <2>2. QED
    BY <1>2, <2>1, EntriesAreOK
<1>4. Edits(loading, T, {"ns", "sa"})
  BY <1>2, <1>3, InjectionEdits
<1>5. /\ merged' = merged \cup T /\ loading' = {} /\ phase = "join" /\ phase' = "next"
      /\ project' = project /\ entry' = entry /\ file' = file /\ overrides' = overrides
  BY DEF JoinEntry
<1> HIDE DEF T
<1>6. AllWhole(T) /\ OnePerPlace(T) /\ \A c \in T : \E b \in loading : c.at = b.at
  BY <1>2, <1>4, EditsKeepPlaces
<1>7. Typed'
  BY <1>5, <1>6 DEF LoadInv, Typed, AllWhole, Phase
<1>8. InEntry' /\ Emptied' /\ LoadingChecked' /\ Checked'
  BY <1>1, <1>5 DEF LoadInv, InEntry, Emptied, LoadingChecked, Checked
<1>9. Placed'
  <2>1. /\ OnePerPlace(merged) /\ \A b \in merged : b.at[1] < entry /\ b.at[1] <= entry
    BY <1>5 DEF LoadInv, Placed
  <2>2. \A b \in T : b.at[1] = entry
    BY <1>6 DEF LoadInv, Placed
  <2>3. \A b \in merged, c \in T : b.at # c.at
    BY <1>2, <2>1, <2>2
  <2>4. OnePerPlace(merged')
    BY <1>5, <1>6, <2>1, <2>3 DEF OnePerPlace
  <2>5. \A b \in merged' : b.at[1] <= entry
    BY <1>2, <1>5, <2>1, <2>2
  <2>6. QED
    BY <1>5, <2>4, <2>5 DEF Placed, OnePerPlace
<1>10. QED
  BY <1>1, <1>7, <1>8, <1>9 DEF LoadInv

LEMMA DanglingWarns == \A S : Warned(S, Dangling(S))
BY DEF Warned, Dangling

\* The checks establish what they are for, and the defaults do not undo it.
LEMMA CheckLoads == LoadInv /\ CheckMerged => LoadInv'
<1> SUFFICES ASSUME LoadInv, CheckMerged PROVE LoadInv'
  OBVIOUS
<1> DEFINE T == ApplyIngressDefaults(merged, project.root.defaults)
<1>1. Somewhere' /\ Rooted' = Rooted /\ Rooted
  BY Stays DEF LoadInv, CheckMerged, InEntry
<1>2. AllWhole(merged) /\ OnePerPlace(merged)
  BY DEF LoadInv, Typed, Placed
<1>3. Edits(merged, T, {"ingresses"})
  BY <1>2, DefaultsEdit
<1>4. /\ merged' = T /\ warnings' = Dangling(merged) /\ phase = "next" /\ phase' = "check"
      /\ NamespacesAccepted(merged, project.root) /\ ~Duplicates(merged) /\ project' = project
      /\ entry' = entry /\ file' = file /\ overrides' = overrides /\ loading' = loading
  BY DEF CheckMerged, MergedAccepted
<1> HIDE DEF T
<1>5. AllWhole(T) /\ OnePerPlace(T) /\ \A c \in T : \E b \in merged : c.at = b.at
  BY <1>2, <1>3, EditsKeepPlaces
<1>6. NamespacesAccepted(T, project.root) /\ ~Duplicates(T)
  BY <1>2, <1>3, <1>4, EditsKeepAccepted, EditsMakeNoDuplicates
<1>7. Warned(T, warnings')
  <2>1. Warned(merged, warnings')
    BY <1>4, DanglingWarns
  <2>2. /\ \A c \in T : \E b \in merged : c.kind = b.kind /\ c.name = b.name /\ References(c) = References(b)
        /\ \A ref : Provided(merged, ref) => Provided(T, ref)
    BY <1>2, <1>3, EditsKeepReferences
  <2>3. QED
    BY <2>1, <2>2 DEF Warned
<1>8. Typed'
  BY <1>4, <1>5 DEF LoadInv, Typed, Phase
<1>9. Checked'
  BY <1>4, <1>6, <1>7 DEF Checked
<1>10. InEntry' /\ Emptied' /\ LoadingChecked'
  BY <1>1, <1>4 DEF LoadInv, InEntry, Emptied, LoadingChecked
<1>11. Placed'
  <2>1. \A c \in T : c.at[1] <= entry
    BY <1>5 DEF LoadInv, Placed
  <2>2. QED
    BY <1>4, <1>5, <2>1 DEF LoadInv, Placed
<1>12. QED
  BY <1>1, <1>8, <1>9, <1>10, <1>11 DEF LoadInv

LEMMA FinishRootLoads == LoadInv /\ FinishRoot => LoadInv'
<1> SUFFICES ASSUME LoadInv, FinishRoot PROVE LoadInv'
  OBVIOUS
<1>1. Somewhere' /\ Rooted' = Rooted
  BY Stays DEF LoadInv, FinishRoot
<1>2. Typed'
  BY DEF LoadInv, Typed, Phase, FinishRoot
<1>3. InEntry' /\ Emptied' /\ LoadingChecked' /\ Checked' /\ Placed'
  BY <1>1 DEF LoadInv, InEntry, Emptied, LoadingChecked, Checked, Placed, FinishRoot
<1>4. QED
  BY <1>1, <1>2, <1>3 DEF LoadInv

LEMMA FinishSingleLoads == LoadInv /\ FinishSingle => LoadInv'
<1> SUFFICES ASSUME LoadInv, FinishSingle PROVE LoadInv'
  OBVIOUS
<1>1. Somewhere' /\ Rooted' = Rooted
  BY Stays DEF LoadInv, FinishSingle
<1>2. Typed'
  BY DEF LoadInv, Typed, Phase, AllWhole, FinishSingle
<1>3. InEntry' /\ Emptied' /\ LoadingChecked'
  BY <1>1 DEF LoadInv, InEntry, Emptied, LoadingChecked, FinishSingle
<1>4. Checked'
  BY <1>1, DanglingWarns DEF LoadInv, LoadingChecked, Checked, FinishSingle
<1>5. Placed'
  <2>1. entry \in Nat /\ \A b \in loading : b.at[1] = entry
    BY DEF LoadInv, Typed, Placed
  <2>2. \A b \in loading : b.at[1] <= entry
    BY <2>1
  <2>3. QED
    BY <2>2 DEF LoadInv, FinishSingle, Placed, OnePerPlace
<1>6. QED
  BY <1>1, <1>2, <1>3, <1>4, <1>5 DEF LoadInv

LEMMA LoadStepLoads == LoadInv /\ LoadStep => LoadInv'
<1>1. LoadStep =>
          \/ Start \/ ParseFile \/ FinishRootFiles \/ FinishFiles \/ ValidateIngresses
          \/ ApplyEnvironment \/ NextEntry \/ JoinEntry \/ CheckMerged \/ FinishRoot \/ FinishSingle
          \/ Fail
  BY DEF LoadStep, RootRefused, FileRefused, DuplicateInDirectory, IngressRefused,
         EnvironmentRefused, DirectoryMissing, MergedRefused, MergedIngressRefused
<1>2. QED
  BY <1>1, StartLoads, ParseFileLoads, FinishRootFilesLoads, FinishFilesLoads,
     ValidateIngressesLoads, ApplyEnvironmentLoads, NextEntryLoads, JoinEntryLoads, CheckLoads,
     FinishRootLoads, FinishSingleLoads, FailLoads
(***************************************************************************)
(* The inductive invariant of the command.                                 *)
(***************************************************************************)
Commanded ==
    /\ stage \in {"load", "refused", "generate", "write", "written"}
    /\ stage # "load" => phase = "done"

AccountsOf(use) == GenerateAccount(Accounts, use[1], use[2])

\* Another use that has an account joins to the key of this one.
Joined(use) == \E other \in DeclaredUses : JoinToOne(other, use)

NamespaceObjects == GenerateNamespaces(Namespaces)
AccountObjects == UNION {AccountsOf(use) : use \in AccountUses(merged)}

\* Nothing is generated but what the configuration asks for.
Made ==
    /\ stage = "generate" =>
          /\ manifests \subseteq NamespaceObjects \cup AccountObjects
          /\ pending \subseteq AccountUses(merged)
    /\ stage \in {"write", "written"} =>
          manifests \subseteq NamespaceObjects \cup AccountObjects \cup ObjectsOf(merged, Mode)

\* The accounts of the uses that have been dealt with are there.
Accounted ==
    stage \in {"generate", "write", "written"} =>
        \A use \in AccountUses(merged) :
            \/ stage = "generate" /\ use \in pending
            \/ Joined(use)
            \/ AccountsOf(use) \subseteq manifests

\* Of the objects of blocks, none is lost but to a cluster-scoped block, and
\* those of one block go together.
Filed ==
    stage \in {"write", "written"} =>
        /\ \A b \in merged :
              \/ \E c \in merged : c.kind \in ClusterKinds /\ KeyOf(c) = KeyOf(b) /\ c # b
              \/ Objects(b, Mode) \subseteq manifests
        /\ \A b \in merged :
              (\E m \in Objects(b, Mode) : m \in manifests) => Objects(b, Mode) \subseteq manifests
        /\ \A m \in ObjectsOf(merged, Mode) : m.key[1] \notin ClusterKinds => m \in manifests

\* What may be lost before the objects of blocks are generated.
Kept(M) ==
    /\ M \subseteq NamespaceObjects \cup AccountObjects
    /\ NamespaceObjects \subseteq M
    /\ \A use \in AccountUses(merged) : Joined(use) \/ AccountsOf(use) \subseteq M

\* All that is written is what is made of something so kept.
Rendered ==
    /\ stage = "generate" => NamespaceObjects \subseteq manifests
    /\ stage \in {"write", "written"} => \E M : Kept(M) /\ manifests = GenerateBlocks(M, merged, Mode)

IInv == LoadInv /\ Commanded /\ Made /\ Accounted /\ Filed /\ Rendered

(***************************************************************************)
(* The steps of the command.                                               *)
(***************************************************************************)
LEMMA LoadCommands == IInv /\ Load => IInv'
<1> SUFFICES ASSUME IInv, Load PROVE IInv'
  OBVIOUS
<1>1. LoadInv'
  BY LoadStepLoads DEF IInv, Load
<1>2. stage' = "load"
  BY DEF Load, renderVars
<1>3. QED
  BY <1>1, <1>2 DEF IInv, Commanded, Made, Accounted, Filed, Rendered

\* What the command generates follows from the configuration.
LEMMA SameConfiguration ==
    ASSUME UNCHANGED vars
    PROVE  /\ Mode' = Mode /\ Namespaces' = Namespaces /\ Accounts' = Accounts
           /\ NamespaceObjects' = NamespaceObjects /\ AccountObjects' = AccountObjects
           /\ merged' = merged /\ phase' = phase
           /\ \A use : AccountsOf(use)' = AccountsOf(use) /\ Joined(use)' = Joined(use)
           /\ \A M : Kept(M)' = Kept(M)
<1>1. project' = project /\ merged' = merged /\ phase' = phase
  BY DEF vars
<1>2. Mode' = Mode /\ Namespaces' = Namespaces /\ Accounts' = Accounts
  BY <1>1 DEF Mode, Namespaces, Accounts, Rooted, Directory, Entries
<1>3. \A use : AccountsOf(use)' = AccountsOf(use) /\ Joined(use)' = Joined(use)
  BY <1>1, <1>2 DEF AccountsOf, Joined, DeclaredUses, JoinToOne
<1>4. NamespaceObjects' = NamespaceObjects /\ AccountObjects' = AccountObjects
  BY <1>1, <1>2, <1>3 DEF NamespaceObjects, AccountObjects
<1>5. \A M : Kept(M)' = Kept(M)
  BY <1>1, <1>3, <1>4 DEF Kept
<1>6. QED
  BY <1>1, <1>2, <1>3, <1>4, <1>5

LEMMA StutterCommands ==
    ASSUME IInv, UNCHANGED vars, UNCHANGED <<pending, manifests>>,
           stage' = stage \/ (stage = "write" /\ stage' = "written")
                          \/ (stage = "load" /\ phase = "done" /\ stage' = "refused")
    PROVE  IInv'
<1>1. LoadInv'
  BY StutterLoads DEF IInv
<1>2. Commanded'
  BY DEF IInv, Commanded, vars
<1>3. Made'
  BY SameConfiguration DEF IInv, Made
<1>4. Accounted'
  BY SameConfiguration DEF IInv, Accounted
<1>5. Filed'
  BY SameConfiguration DEF IInv, Filed
<1>6. Rendered'
  BY SameConfiguration DEF IInv, Rendered
<1>7. QED
  BY <1>1, <1>2, <1>3, <1>4, <1>5, <1>6 DEF IInv

LEMMA BeginCommands == IInv /\ BeginGenerate => IInv'
<1> SUFFICES ASSUME IInv, BeginGenerate PROVE IInv'
  OBVIOUS
<1>1. /\ UNCHANGED vars /\ stage' = "generate" /\ manifests' = NamespaceObjects
      /\ pending' = AccountUses(merged) /\ phase = "done"
  BY DEF BeginGenerate, NamespaceObjects
<1>2. LoadInv' /\ phase' = "done"
  BY <1>1, StutterLoads DEF IInv, vars
<1>3. Commanded'
  BY <1>1, <1>2 DEF Commanded
<1>4. Made' /\ Accounted' /\ Filed' /\ Rendered'
  BY <1>1, SameConfiguration DEF Made, Accounted, Filed, Rendered
<1>5. QED
  BY <1>2, <1>3, <1>4 DEF IInv

\* All that is generated for a use has its key.
LEMMA AccountFields ==
    ASSUME NEW accounts, NEW name, NEW ns, NEW m \in GenerateAccount(accounts, name, ns)
    PROVE  /\ m.key = AccountKey(name, ns) /\ m.kind = "ServiceAccount"
           /\ m.ns = ns /\ m.name = name /\ m.at = <<>>
           /\ m.spec \in Declaring(accounts, name, ns)
           /\ m = Manifest(AccountKey(name, ns), "ServiceAccount", ns, name, <<>>, m.spec)
<1>1. PICK i \in Declaring(accounts, name, ns) :
          m = Manifest(AccountKey(name, ns), "ServiceAccount", ns, name, <<>>, i)
  BY DEF GenerateAccount
<1>2. QED
  BY <1>1, ManifestFields

\* Of a root project, whoever uses a service account has a namespace.
LEMMA UsesAreNamed ==
    ASSUME LoadInv, phase = "done", Rooted, NEW use \in AccountUses(merged)
    PROVE  use[1] \in Name /\ use[2] \in Name
<1>1. PICK b \in merged : b.kind \in WorkloadKinds /\ b.sa # None /\ use = <<b.sa, b.ns>>
  BY DEF AccountUses
<1>2. BlockOK(b)
  BY DEF LoadInv, Typed, AllWhole, Whole
<1>3. b.ns # None
  BY <1>1 DEF LoadInv, Checked, NamespacesAccepted, NamespaceAccepted, NamespacedKinds
<1>4. QED
  BY <1>1, <1>2, <1>3 DEF BlockOK

\* Projects without a root.kdef declare no accounts.
LEMMA AccountsAreRooted ==
    ASSUME NEW use, NEW m \in AccountsOf(use)
    PROVE  Rooted
<1>1. Declaring(Accounts, use[1], use[2]) # {}
  BY DEF AccountsOf, GenerateAccount
<1>2. DOMAIN Accounts # {}
  BY <1>1 DEF Declaring
<1>3. QED
  BY <1>2 DEF Accounts

\* The accounts of two uses that do not join have different keys.
LEMMA KeysTellAccounts ==
    ASSUME LoadInv, phase = "done", NEW u \in AccountUses(merged), NEW v \in AccountUses(merged),
           u # v, ~Joined(u), NEW m \in AccountsOf(u), NEW n \in AccountsOf(v)
    PROVE  m.key # n.key
<1>1. Rooted
  BY AccountsAreRooted
<1>2. /\ u[1] \in Name /\ u[2] \in Name /\ v[1] \in Name /\ v[2] \in Name
  BY <1>1, UsesAreNamed
<1>3. v \in DeclaredUses
  BY DEF DeclaredUses, AccountsOf, GenerateAccount
<1>4. u[1] \o u[2] # v[1] \o v[2]
  BY <1>3 DEF Joined, JoinToOne
<1>5. m.key = AccountKey(u[1], u[2]) /\ n.key = AccountKey(v[1], v[2])
  BY AccountFields DEF AccountsOf
<1> DEFINE a == u[1]
           b == u[2]
           c == v[1]
           d == v[2]
<1>6. a \in Name /\ b \in Name /\ c \in Name /\ d \in Name /\ a \o b # c \o d
  BY <1>2, <1>4
<1> HIDE DEF a, b, c, d
<1>7. AccountKey(a, b) # AccountKey(c, d)
  BY <1>6, AccountKeysJoin
<1>8. m.key = AccountKey(a, b) /\ n.key = AccountKey(c, d)
  BY <1>5 DEF a, b, c, d
<1>9. QED
  BY <1>7, <1>8

\* An account takes no namespace's place.
LEMMA AccountsLeaveNamespaces ==
    ASSUME LoadInv, phase = "done", NEW use \in AccountUses(merged), NEW m \in AccountsOf(use),
           NEW n \in NamespaceObjects
    PROVE  m.key # n.key
<1>1. Rooted
  BY AccountsAreRooted
<1>2. m.key[1] = "sa"
  BY <1>1, UsesAreNamed, AccountFields, AccountKeyIsHeaded DEF AccountsOf
<1>3. PICK ns \in Namespaces : n = Manifest(<<"namespace">> \o ns, "Namespace", None, ns, <<>>, None)
  BY DEF NamespaceObjects, GenerateNamespaces
<1>4. ns \in Name
  BY <1>1, <1>3, ProjectIsOK DEF Namespaces, ProjectOK, RootOK, Rooted
<1> DEFINE S == {Alphabet[i] : i \in DOMAIN Alphabet} \cup {"namespace"}
<1>5. ns \in Seq(S) /\ "namespace" \in S
  BY <1>4 DEF Name
<1> HIDE DEF S
<1>6. (<<"namespace">> \o ns)[1] = "namespace"
  BY <1>5, Headed
<1> DEFINE k == <<"namespace">> \o ns
<1>7. n = Manifest(k, "Namespace", None, ns, <<>>, None)
  BY <1>3
<1> HIDE DEF k
<1>8. n.key = k
  BY <1>7, ManifestFields
<1>9. QED
  BY <1>2, <1>6, <1>8 DEF k

LEMMA AccountCommands == IInv /\ GenerateNextAccount => IInv'
<1> SUFFICES ASSUME IInv, GenerateNextAccount PROVE IInv'
  OBVIOUS
<1>1. PICK use \in pending :
          /\ manifests' = Assign(manifests, AccountsOf(use))
          /\ pending' = pending \ {use}
  BY DEF GenerateNextAccount, AccountsOf
<1>2. UNCHANGED vars /\ stage = "generate" /\ stage' = stage
  BY DEF GenerateNextAccount
<1>3. LoadInv' /\ Commanded'
  BY <1>2, StutterLoads DEF IInv, Commanded, vars
<1>4. use \in AccountUses(merged)
  BY <1>2 DEF IInv, Made
<1>5. manifests' = {m \in manifests : \A n \in AccountsOf(use) : n.key # m.key} \cup AccountsOf(use)
  BY <1>1 DEF Assign
<1>6. Made'
  <2>1. AccountsOf(use) \subseteq AccountObjects
    BY <1>4 DEF AccountObjects
  <2>2. QED
    BY <1>1, <1>2, <1>5, <2>1, SameConfiguration DEF IInv, Made
<1>7. Accounted'
  <2> SUFFICES ASSUME NEW done \in AccountUses(merged), done \notin pending', ~Joined(done)
               PROVE  AccountsOf(done) \subseteq manifests'
    BY <1>2, SameConfiguration DEF Accounted
  <2>1. CASE done = use
    BY <1>5, <2>1
  <2>2. CASE done # use
    <3>1. AccountsOf(done) \subseteq manifests
      BY <1>1, <1>2, <2>2 DEF IInv, Accounted
    <3>2. \A m \in AccountsOf(done), n \in AccountsOf(use) : m.key # n.key
      BY <1>2, <1>4, <2>2, KeysTellAccounts DEF IInv, Commanded
    <3>3. QED
      BY <1>5, <3>1, <3>2
  <2>3. QED
    BY <2>1, <2>2
<1>8. Filed'
  BY <1>2 DEF Filed
<1>9. Rendered'
  <2>1. NamespaceObjects \subseteq manifests
    BY <1>2 DEF IInv, Rendered
  <2>2. \A m \in AccountsOf(use), n \in NamespaceObjects : m.key # n.key
    BY <1>2, <1>4, AccountsLeaveNamespaces DEF IInv, Commanded
  <2>3. NamespaceObjects \subseteq manifests'
    BY <1>5, <2>1, <2>2
  <2>4. QED
    BY <1>2, <2>3, SameConfiguration DEF Rendered
<1>10. QED
  BY <1>3, <1>6, <1>7, <1>8, <1>9 DEF IInv

LEMMA RestCommands == IInv /\ GenerateRest => IInv'
<1> SUFFICES ASSUME IInv, GenerateRest PROVE IInv'
  OBVIOUS
<1>1. /\ UNCHANGED vars /\ stage = "generate" /\ stage' = "write" /\ pending = {}
      /\ manifests' = GenerateBlocks(manifests, merged, Mode)
  BY DEF GenerateRest
<1>2. LoadInv' /\ Commanded' /\ phase = "done" /\ LoadInv
  BY <1>1, StutterLoads DEF IInv, Commanded, vars
<1>3. /\ OnePerPlace(merged) /\ \A c \in merged : c.name \in Name
  BY <1>2 DEF LoadInv, Placed, Typed, AllWhole, Whole, BlockOK
<1>4. Made'
  <2>1. manifests \subseteq NamespaceObjects \cup AccountObjects
    BY <1>1 DEF IInv, Made
  <2>2. manifests' \subseteq manifests \cup ObjectsOf(merged, Mode)
    BY <1>1, GeneratedFrom
  <2>3. QED
    BY <1>1, <2>1, <2>2, SameConfiguration DEF Made
<1>5. Accounted'
  <2> SUFFICES ASSUME NEW use \in AccountUses(merged), ~Joined(use), NEW m \in AccountsOf(use)
               PROVE  m \in manifests'
    BY <1>1, SameConfiguration DEF Accounted
  <2>1. m \in manifests
    BY <1>1 DEF IInv, Accounted
  <2>2. use[1] \in Name /\ use[2] \in Name
    BY <1>2, AccountsAreRooted, UsesAreNamed
  <2>3. m.key[1] = "sa"
    BY <2>2, AccountFields, AccountKeyIsHeaded DEF AccountsOf
  <2>4. m.key[1] \notin ClusterKinds
    BY <2>3 DEF ClusterKinds
  <2>5. QED
    BY <1>1, <1>3, <2>1, <2>4, HeadKeeps
<1>6. Filed'
  <2>1. \A b \in merged :
            \/ \E c \in merged : c.kind \in ClusterKinds /\ KeyOf(c) = KeyOf(b) /\ c # b
            \/ Objects(b, Mode) \subseteq manifests'
    BY <1>1, GeneratedBlocksSurvive
  <2>2. \A b \in merged :
            (\E m \in Objects(b, Mode) : m \in manifests') => Objects(b, Mode) \subseteq manifests'
    BY <1>1, <1>3, GeneratedTogether
  <2>3. \A m \in ObjectsOf(merged, Mode) : m.key[1] \notin ClusterKinds => m \in manifests'
    BY <1>1, <1>3, HeadKeeps
  <2>4. QED
    BY <1>1, <2>1, <2>2, <2>3, SameConfiguration DEF Filed
<1>7. Rendered'
  <2>1. Kept(manifests)
    BY <1>1 DEF IInv, Made, Accounted, Rendered, Kept
  <2>2. QED
    BY <1>1, <2>1, SameConfiguration DEF Rendered
<1>8. QED
  BY <1>2, <1>4, <1>5, <1>6, <1>7 DEF IInv

LEMMA NextCommands == IInv /\ [RenderNext]_allVars => IInv'
<1> SUFFICES ASSUME IInv, [RenderNext]_allVars PROVE IInv'
  OBVIOUS
<1>1. CASE NothingToRender \/ Write \/ UNCHANGED allVars
  <2>1. /\ UNCHANGED vars /\ UNCHANGED <<pending, manifests>>
        /\ stage' = stage \/ (stage = "write" /\ stage' = "written")
                          \/ (stage = "load" /\ phase = "done" /\ stage' = "refused")
    BY <1>1 DEF NothingToRender, Write, allVars, renderVars
  <2>2. QED
    BY <2>1, StutterCommands
<1>2. QED
  BY <1>1, LoadCommands, BeginCommands, AccountCommands, RestCommands DEF RenderNext, RenderEnd

THEOREM Inductive == RenderSpec => []IInv
<1>1. RenderInit => IInv
  BY InitLoads DEF RenderInit, IInv, Commanded, Made, Accounted, Filed, Rendered
<1>2. QED
  BY <1>1, NextCommands, PTL DEF RenderSpec

\* The load and the command keep to their phases, and no step of either, whatever
\* the project, leaves a block without a field or its place.
THEOREM Typing == RenderSpec => []TypeOK
<1>1. IInv => TypeOK
  <2> SUFFICES ASSUME IInv PROVE TypeOK
    OBVIOUS
  <2>1. \A b \in loading \cup merged : DOMAIN b = DOMAIN Blank /\ b.at \in Place
    BY DEF IInv, LoadInv, Typed, AllWhole, Whole, BlockOK
  <2>2. \A b \in loading \cup merged : Len(b.at) = 5
    BY <2>1 DEF Place
  <2>3. QED
    BY <2>1, <2>2 DEF IInv, LoadInv, Typed, Emptied, Commanded, TypeOK, Setting
<1>2. QED
  BY <1>1, Inductive, PTL

\* Of any project with a root.kdef that loads, each namespaced block is in a
\* namespace it may be in, under a service account it may have, and no two blocks
\* or ingresses clash, although defaults are applied between the two checks.
THEOREM Sound == RenderSpec => []SuccessIsSound
<1>1. IInv => SuccessIsSound
  BY DEF IInv, LoadInv, Checked, SuccessIsSound
<1>2. QED
  BY <1>1, Inductive, PTL

\* Of any project, whatever names its blocks share, each block has its objects
\* among what is written, or there is a cluster-scoped block with its key.
THEOREM Survival == RenderSpec => []BlocksSurvive
<1>1. IInv => BlocksSurvive
  BY DEF IInv, Filed, BlocksSurvive
<1>2. QED
  BY <1>1, Inductive, PTL
(***************************************************************************)
(* What is written.                                                        *)
(***************************************************************************)
\* Where the manifests come from, once they are all there.
LEMMA WrittenFrom ==
    ASSUME IInv, stage = "written", NEW m \in manifests
    PROVE  \/ Rooted /\ \E ns \in Name : m = Manifest(<<"namespace">> \o ns, "Namespace", None, ns, <<>>, None)
           \/ Rooted /\ \E use \in AccountUses(merged) : m \in AccountsOf(use)
           \/ \E b \in merged : m \in Objects(b, Mode)
<1>1. m \in NamespaceObjects \cup AccountObjects \cup ObjectsOf(merged, Mode)
  BY DEF IInv, Made
<1>2. CASE m \in NamespaceObjects
  <2>1. PICK ns \in Namespaces : m = Manifest(<<"namespace">> \o ns, "Namespace", None, ns, <<>>, None)
    BY <1>2 DEF NamespaceObjects, GenerateNamespaces
  <2>2. Rooted /\ ns \in project.root.namespaces
    BY DEF Namespaces
  <2>3. ns \in Name
    BY <2>2, ProjectIsOK DEF IInv, ProjectOK, RootOK, Rooted
  <2>4. QED
    BY <2>1, <2>2, <2>3
<1>3. CASE m \in AccountObjects
  BY <1>3, AccountsAreRooted DEF AccountObjects
<1>4. CASE m \in ObjectsOf(merged, Mode)
  BY <1>4 DEF ObjectsOf
<1>5. QED
  BY <1>1, <1>2, <1>3, <1>4

\* The objects of blocks are of other kinds than what is made for all of them.
LEMMA ObjectKinds ==
    ASSUME NEW b, b.kind \in KindsOfBlock, NEW mode, NEW m \in Objects(b, mode)
    PROVE  m.kind \notin {"Namespace", "ServiceAccount"}
<1>1. CASE m.kind \in {"Service", "HorizontalPodAutoscaler", "Ingress", "HTTPRoute", "Certificate"}
  BY <1>1
<1>2. CASE m.kind \notin {"Service", "HorizontalPodAutoscaler", "Ingress", "HTTPRoute", "Certificate"}
  <2>1. b.kind # "ingress" /\ m = MainObject(b)
    BY <1>2, KindTellsForm
  <2>2. m.kind = ObjectKind[b.kind]
    BY <2>1, ObjectFields
  <2>3. QED
    BY <2>1, <2>2, KindsApart
<1>3. QED
  BY <1>1, <1>2

\* A manifest tells by its kind where it comes from.
LEMMA WrittenByKind ==
    ASSUME IInv, stage = "written", NEW m \in manifests
    PROVE  /\ m.kind = "Namespace" =>
                 \E ns \in Name : m = Manifest(<<"namespace">> \o ns, "Namespace", None, ns, <<>>, None)
           /\ m.kind = "ServiceAccount" => Rooted /\ \E use \in AccountUses(merged) : m \in AccountsOf(use)
           /\ m.kind \notin {"Namespace", "ServiceAccount"} => \E b \in merged : m \in Objects(b, Mode)
<1>1. \A b \in merged : b.kind \in KindsOfBlock
  BY DEF IInv, LoadInv, Typed, AllWhole, Whole, BlockOK
<1>2. \A b \in merged : m \in Objects(b, Mode) => m.kind \notin {"Namespace", "ServiceAccount"}
  BY <1>1, ObjectKinds
<1>3. \A ns : m = Manifest(<<"namespace">> \o ns, "Namespace", None, ns, <<>>, None) => m.kind = "Namespace"
  BY ManifestFields
<1>4. \A use : m \in AccountsOf(use) => m.kind = "ServiceAccount"
  BY AccountFields DEF AccountsOf
<1>5. QED
  BY <1>2, <1>3, <1>4, WrittenFrom

\* The manifest of a workload is what its block becomes.
LEMMA WorkloadsWritten ==
    ASSUME IInv, stage = "written", NEW w \in Workloads
    PROVE  \E b \in merged :
               /\ b.kind \in WorkloadKinds /\ Whole(b) /\ w = MainObject(b)
               /\ w.name = b.name /\ w.ns = b.ns /\ w.at = b.at /\ w.spec = Pod(b)
<1>1. w \in manifests /\ w.kind \in {"Deployment", "DaemonSet", "StatefulSet", "CronJob"}
  BY DEF Workloads, IsWorkload
<1>2. PICK b \in merged : w \in Objects(b, Mode)
  BY <1>1, WrittenByKind
<1>3. Whole(b) /\ b.kind \in KindsOfBlock
  BY DEF IInv, LoadInv, Typed, AllWhole, Whole, BlockOK
<1>4. b.kind # "ingress" /\ w = MainObject(b)
  BY <1>1, <1>2, <1>3, KindTellsForm
<1>5. w.kind = ObjectKind[b.kind]
  BY <1>4, ObjectFields
<1>6. b.kind \in WorkloadKinds
  BY <1>1, <1>3, <1>4, <1>5 DEF ObjectKind, KindsOfBlock, NamespacedKinds, ClusterKinds, WorkloadKinds, ServedKinds
<1>7. b.kind \notin ClusterKinds
  BY <1>6 DEF ClusterKinds, WorkloadKinds, ServedKinds
<1>8. QED
  BY <1>3, <1>4, <1>6, <1>7, ObjectFields

\* What is written is what the configuration renders to, whatever the order in
\* which the accounts were generated, but for accounts that join to one key.
LEMMA WrittenIsRendering ==
    ASSUME IInv, stage = "written"
    PROVE  /\ manifests \subseteq Rendering
           /\ \A m \in Rendering : m \in manifests \/ (m.kind = "ServiceAccount" /\ m.key \in JoinedKeys)
<1>1. PICK M : Kept(M) /\ manifests = GenerateBlocks(M, merged, Mode)
  BY DEF IInv, Rendered
<1> DEFINE cluster == {b \in merged : b.kind \in ClusterKinds}
           C == ObjectsOf(cluster, Mode)
           O == ObjectsOf(merged \ cluster, Mode)
           N == NamespaceObjects \cup AccountObjects
           free(m) == \A n \in C : n.key # m.key
<1>2. manifests = {m \in M \cup O : free(m)} \cup C
  BY <1>1 DEF GenerateBlocks, Assign
<1>3. Rendering = {m \in N \cup O : free(m)} \cup C
  BY DEF Rendering, GenerateBlocks, Assign, NamespaceObjects, AccountObjects, AccountsOf
<1> HIDE DEF C, O, free
<1>4. M \subseteq N
  BY <1>1 DEF Kept
<1>5. ASSUME NEW m \in N, m \notin M
      PROVE  m.kind = "ServiceAccount" /\ m.key \in JoinedKeys
  <2>1. PICK use \in AccountUses(merged) : m \in AccountsOf(use)
    BY <1>1, <1>5 DEF Kept, AccountObjects
  <2>2. Joined(use)
    BY <1>1, <1>5, <2>1 DEF Kept
  <2>3. PICK other \in DeclaredUses : JoinToOne(other, use)
    BY <2>2 DEF Joined
  <2>4. JoinToOne(use, other)
    BY <2>3 DEF JoinToOne
  <2>5. use \in DeclaredUses
    BY <2>1 DEF DeclaredUses, AccountsOf, GenerateAccount
  <2>6. m.key = AccountKey(use[1], use[2]) /\ m.kind = "ServiceAccount"
    BY <2>1, AccountFields DEF AccountsOf
  <2>7. QED
    BY <2>3, <2>4, <2>5, <2>6 DEF JoinedKeys
<1>6. QED
  BY <1>2, <1>3, <1>4, <1>5

\* Whatever order the map of accounts is walked in, what is written is the same,
\* in the same order, but for the accounts that join to one key.
THEOREM Ordered == RenderSpec => []Reproducible
<1>1. ASSUME IInv, stage = "written", NEW m \in manifests
      PROVE  m.key \in Name
  <2>1. CASE \E ns \in Name : m = Manifest(<<"namespace">> \o ns, "Namespace", None, ns, <<>>, None)
    BY <2>1, KeysAreNames, ManifestFields, AlphabetAssumption
  <2>2. CASE Rooted /\ \E use \in AccountUses(merged) : m \in AccountsOf(use)
    <3>1. PICK use \in AccountUses(merged) : m \in AccountsOf(use)
      BY <2>2
    <3>2. m.key = AccountKey(use[1], use[2])
      BY <3>1, AccountFields DEF AccountsOf
    <3>3. use[1] \in Name /\ use[2] \in Name
      BY <1>1, <2>2, UsesAreNamed DEF IInv, Commanded
    <3>4. QED
      BY <3>2, <3>3, KeysAreNames, AlphabetAssumption
  <2>3. CASE \E b \in merged : m \in Objects(b, Mode)
    <3>1. PICK b \in merged : m \in Objects(b, Mode)
      BY <2>3
    <3>2. b.kind \in KindsOfBlock /\ b.name \in Name
      BY <1>1 DEF IInv, LoadInv, Typed, AllWhole, Whole, BlockOK
    <3>3. m.key = KeyOf(b)
      BY <3>1, FiledUnderItsKey
    <3>4. QED
      BY <3>2, <3>3, KeysAreNames, AlphabetAssumption
  <2>4. QED
    BY <1>1, <2>1, <2>2, <2>3, WrittenFrom
<1>2. IInv => Reproducible
  <2> SUFFICES ASSUME IInv, stage = "written", NEW m \in manifests, NEW n \in manifests, m.key # n.key
               PROVE  Less(m, n) <=> ~Less(n, m)
    BY WrittenIsRendering DEF Reproducible
  <2>1. m.key \in Name /\ n.key \in Name
    BY <1>1
  <2>2. QED
    BY <2>1, ManifestsAreOrdered, AlphabetAssumption
<1>3. QED
  BY <1>2, Inductive, PTL

\* No two manifests are of one kind, namespace and name, so the checks of the
\* load leave out nothing that the generator makes.
THEOREM Distinct == RenderSpec => []DistinctManifests
<1>1. IInv => DistinctManifests
  <2> SUFFICES ASSUME IInv, stage = "written", NEW m \in manifests, NEW n \in manifests, SameManifest(m, n)
               PROVE  m = n
    BY DEF DistinctManifests
  <2>1. m.kind = n.kind /\ m.ns = n.ns /\ m.name = n.name
    BY DEF SameManifest
  <2>2. CASE m.kind = "Namespace"
    <3>1. PICK s \in Name : m = Manifest(<<"namespace">> \o s, "Namespace", None, s, <<>>, None)
      BY <2>2, WrittenByKind
    <3>2. PICK t \in Name : n = Manifest(<<"namespace">> \o t, "Namespace", None, t, <<>>, None)
      BY <2>1, <2>2, WrittenByKind
    <3>3. m.name = s /\ n.name = t
      BY <3>1, <3>2, ManifestFields
    <3>4. QED
      BY <2>1, <3>1, <3>2, <3>3
  <2>3. CASE m.kind = "ServiceAccount"
    <3>1. PICK u \in AccountUses(merged) : m \in AccountsOf(u)
      BY <2>3, WrittenByKind
    <3>2. PICK v \in AccountUses(merged) : n \in AccountsOf(v)
      BY <2>1, <2>3, WrittenByKind
    <3>3. /\ m.name = u[1] /\ m.ns = u[2] /\ m.spec \in Declaring(Accounts, u[1], u[2])
          /\ m = Manifest(AccountKey(u[1], u[2]), "ServiceAccount", u[2], u[1], <<>>, m.spec)
      BY <3>1, AccountFields DEF AccountsOf
    <3>4. /\ n.name = v[1] /\ n.ns = v[2] /\ n.spec \in Declaring(Accounts, v[1], v[2])
          /\ n = Manifest(AccountKey(v[1], v[2]), "ServiceAccount", v[2], v[1], <<>>, n.spec)
      BY <3>2, AccountFields DEF AccountsOf
    <3>5. u[1] = v[1] /\ u[2] = v[2]
      BY <2>1, <3>3, <3>4
    <3>6. Rooted /\ RootAccepted(project.root)
      BY <3>1, AccountsAreRooted DEF IInv, LoadInv, InEntry, Commanded
    <3>7. m.spec = n.spec
      <4>1. m.spec \in DOMAIN Accounts /\ n.spec \in DOMAIN Accounts
        BY <3>3, <3>4 DEF Declaring
      <4>2. <<Accounts[m.spec].name, Accounts[m.spec].ns>> = <<Accounts[n.spec].name, Accounts[n.spec].ns>>
        BY <3>3, <3>4, <3>5 DEF Declaring
      <4>3. QED
        BY <3>6, <4>1, <4>2 DEF RootAccepted, Accounts
    <3>8. QED
      BY <3>3, <3>4, <3>5, <3>7
  <2>4. CASE m.kind \notin {"Namespace", "ServiceAccount"}
    <3>1. PICK b \in merged : m \in Objects(b, Mode)
      BY <2>4, WrittenByKind
    <3>2. PICK c \in merged : n \in Objects(c, Mode)
      BY <2>1, <2>4, WrittenByKind
    <3>3. /\ \A d \in merged : d.kind \in KindsOfBlock
          /\ OnePerPlace(merged) /\ ~Duplicates(merged) /\ ~IngressConflict(merged)
      BY DEF IInv, LoadInv, Placed, Checked, Commanded, Typed, AllWhole, Whole, BlockOK
    <3>4. QED
      BY <2>1, <3>1, <3>2, <3>3, ObjectsAreDistinct
  <2>5. QED
    BY <2>2, <2>3, <2>4
<1>2. QED
  BY <1>1, Inductive, PTL
\* What a pod names, the block it is built from refers to.
LEMMA PodRefersAsBlock ==
    ASSUME NEW b, BlockOK(b), NEW ref \in NamedReferences(b)
    PROVE  ref \in References(b) /\ ref[1] \in ReferredKinds
<1>1. CASE \E i \in DOMAIN b.containers : ref \in EnvRefs(b.containers[i])
  BY <1>1 DEF References, BlockOK
<1>2. CASE \E i \in DOMAIN b.inits : ref \in EnvRefs(b.inits[i])
  BY <1>2 DEF References, BlockOK
<1>3. CASE \E u \in PodVolumes(b) : u.source # None /\ u.source[1] \in ReferredKinds /\ ref = u.source
  <2>1. PICK u \in PodVolumes(b) : u.source # None /\ u.source[1] \in ReferredKinds /\ ref = u.source
    BY <1>3
  <2>2. PICK v \in ToSet(Known(b)) : u = BuildVolume(v)
    BY PodVolumesAreKnown
  <2>3. u.source = SourceOf(v)
    BY <2>2 DEF BuildVolume
  <2>4. PICK k \in DOMAIN v.sources : SourceOf(v) = <<k, v.sources[k]>>
    BY <2>1, <2>3, SourceIsNamed
  <2>5. k \in ReferredKinds /\ ref = <<k, v.sources[k]>>
    BY <2>1, <2>3, <2>4
  <2>6. ref \in VolumeRefs(v)
    BY <2>5 DEF VolumeRefs
  <2>7. CASE v \in ToSet(b.volumes)
    BY <2>1, <2>6, <2>7 DEF References, VolumesRefs, ToSet
  <2>8. CASE v \in ToSet(OwnVolumes(b))
    <3>1. PICK i \in DOMAIN b.containers : v \in ToSet(b.containers[i].volumes)
      BY <2>8, OwnVolumesCollect
    <3>2. ref \in VolumesRefs(b.containers[i].volumes)
      BY <2>6, <3>1 DEF VolumesRefs, ToSet
    <3>3. QED
      BY <2>1, <3>2 DEF References
  <2>9. QED
    BY <2>7, <2>8, KnownCollect
<1>4. QED
  BY <1>1, <1>2, <1>3 DEF NamedReferences

LEMMA PodFields ==
    ASSUME NEW b
    PROVE  /\ Pod(b).sa = b.sa /\ Pod(b).volumes = PodVolumes(b) /\ Pod(b).mounts = Mounts(b)
           /\ Pod(b).claims = DOMAIN b.claims
           /\ Pod(b).refs = PodReferences(b) /\ Pod(b).named = NamedReferences(b)
BY DEF Pod

\* What a rendered pod needs is rendered too, or there is a warning: neither
\* what the generator adds to the pod nor what replaces manifests by their key
\* undoes what the load has looked at.
THEOREM ReferencesKept == RenderSpec => []ReferencesAreAccountedFor
<1>1. IInv => ReferencesAreAccountedFor
  <2> SUFFICES ASSUME IInv, stage = "written", NEW w \in Workloads, NEW ref \in w.spec.named
               PROVE  \/ \E m \in manifests : m.kind \in ProvidedAs(ref[1]) /\ m.name = ref[2]
                      \/ \E warning \in warnings : warning[2] = w.name /\ warning[3] = ref
    BY DEF ReferencesAreAccountedFor, AccountedFor
  <2>1. PICK b \in merged : b.kind \in WorkloadKinds /\ Whole(b) /\ w.name = b.name /\ w.spec = Pod(b)
    BY WorkloadsWritten
  <2>2. ref \in References(b) /\ ref[1] \in ReferredKinds
    BY <2>1, PodFields, PodRefersAsBlock DEF Whole
  <2>3. Provided(merged, ref) \/ <<b.kind, b.name, ref>> \in warnings
    BY <2>1, <2>2 DEF IInv, LoadInv, Commanded, Checked, Warned
  <2>4. CASE Provided(merged, ref)
    <3>1. PICK c \in merged : c.kind \in Providers(ref[1]) /\ c.name = ref[2]
      BY <2>4 DEF Provided
    <3>2. c.name \in Name
      BY DEF IInv, LoadInv, Typed, AllWhole, Whole, BlockOK
    <3>3. c.kind \in {"configmap", "secret", "sealedsecret", "persistentvolumeclaim"}
      BY <2>2, <3>1 DEF Providers, ReferredKinds
    <3> DEFINE m == MainObject(c)
    <3>4. m \in Objects(c, Mode)
      BY <3>3 DEF Objects, MainObject
    <3>5. m.key = KeyOf(c) /\ m.kind = ObjectKind[c.kind] /\ m.name = c.name
      BY ObjectFields
    <3> HIDE DEF m
    <3>6. c.kind \notin WorkloadKinds
      BY <3>3 DEF WorkloadKinds, ServedKinds
    <3>7. m.key[1] = KeyHead(c)
      BY <3>2, <3>5, <3>6, KeyIsHeaded
    <3>8. m.key[1] \notin ClusterKinds
      BY <3>3, <3>7 DEF KeyHead, ClusterKinds
    <3>9. m \in manifests
      BY <3>4, <3>8 DEF IInv, Filed, ObjectsOf
    <3>10. m.kind \in ProvidedAs(ref[1])
      BY <2>2, <3>1, <3>5 DEF ProvidedAs, Providers, ReferredKinds, ObjectKind
    <3>11. QED
      BY <3>1, <3>5, <3>9, <3>10
  <2>5. CASE <<b.kind, b.name, ref>> \in warnings
    BY <2>1, <2>5
  <2>6. QED
    BY <2>3, <2>4, <2>5
<1>2. QED
  BY <1>1, Inductive, PTL

\* The names that a pod mounts are those that its block's containers list and
\* those of its init containers that are known.
LEMMA NamesAreMounted ==
    ASSUME NEW b, NEW n \in MountedNames(Pod(b))
    PROVE  Mounted(b, n)
<1>1. Pod(b).mounts = Mounts(b)
  BY PodFields
<1>2. /\ Mounts(b).containers = [i \in DOMAIN b.containers |-> ContainerMounts(b.containers[i])]
      /\ Mounts(b).inits = [i \in DOMAIN b.inits |-> InitMounts(b, b.inits[i])]
  BY DEF Mounts
<1>3. CASE \E i \in DOMAIN b.containers : n \in {m.name : m \in ContainerMounts(b.containers[i])}
  <2>1. PICK i \in DOMAIN b.containers : n \in {m.name : m \in ContainerMounts(b.containers[i])}
    BY <1>3
  <2>2. PICK k \in DOMAIN b.containers[i].volumes : n = b.containers[i].volumes[k].name
    BY <2>1 DEF ContainerMounts
  <2>3. n \in VolumeNames(b.containers[i].volumes)
    BY <2>2 DEF VolumeNames
  <2>4. QED
    BY <2>3 DEF Mounted
<1>4. CASE \E i \in DOMAIN b.inits : n \in {m.name : m \in InitMounts(b, b.inits[i])}
  <2>1. PICK i \in DOMAIN b.inits : n \in {m.name : m \in InitMounts(b, b.inits[i])}
    BY <1>4
  <2>2. n \in ToSet(b.inits[i].mounts) \cap VolumeNames(Known(b))
    BY <2>1 DEF InitMounts
  <2>3. QED
    BY <2>2 DEF Mounted
<1>5. QED
  BY <1>1, <1>2, <1>3, <1>4 DEF MountedNames

\* Of one place there is one block.
LEMMA BlockOfPlace ==
    ASSUME IInv, NEW b \in merged
    PROVE  (CHOOSE c \in merged : c.at = b.at) = b
BY DEF IInv, LoadInv, Placed, OnePerPlace

\* The volumes that the containers of a pod mount are among the pod's, and not
\* twice, whatever a container, a workload and a claim template share a name.
THEOREM MountsThere == RenderSpec => []MountsResolve
<1>1. IInv => MountsResolve
  <2> DEFINE block(w) == CHOOSE b \in merged : b.at = w.at
             named(w, n) == {v \in w.spec.volumes : v.name = n}
  <2> SUFFICES ASSUME IInv, stage = "written", NEW w \in Workloads
               PROVE  /\ \A n \in MountedNames(w.spec) : named(w, n) # {} \/ n \in w.spec.claims
                      /\ block(w).kind # "cronjob" =>
                            \A n \in MountedNames(w.spec) \ VolumeNames(block(w).volumes) :
                                Cardinality(named(w, n)) = 1 <=> n \notin w.spec.claims
    BY DEF MountsResolve
  <2>1. PICK b \in merged : Whole(b) /\ w.at = b.at /\ w.spec = Pod(b)
    BY WorkloadsWritten
  <2>2. block(w) = b
    BY <2>1, BlockOfPlace
  <2>3. BlockOK(b) /\ BlockAccepted(b)
    BY <2>1 DEF Whole
  <2>4. b.kind = "cronjob" => b.inits = <<>>
    <3>1. SUFFICES ASSUME b.kind = "cronjob" PROVE b.inits = <<>>
      OBVIOUS
    <3>2. "inits" \in DOMAIN Blank \ (FieldsOf[b.kind] \cup {"kind", "name", "evaluates", "at"})
      BY <3>1 DEF Blank, FieldsOf, CronJobFields
    <3>3. b["inits"] = Blank["inits"]
      BY <2>3, <3>2 DEF BlockAccepted, FieldsAccepted
    <3>4. QED
      BY <3>3 DEF Blank
  <2>5. \A n \in MountedNames(Pod(b)) : n \in DOMAIN b.claims \/ \E u \in PodVolumes(b) : u.name = n
    BY <2>3, <2>4, NamesAreMounted, MountsAreThere
  <2>6. b.kind # "cronjob" =>
            \A n \in MountedNames(Pod(b)) \ VolumeNames(b.volumes) :
                Cardinality({u \in PodVolumes(b) : u.name = n}) = 1 <=> n \notin DOMAIN b.claims
    BY <2>3, NamesAreMounted, MountedOnce
  <2>7. /\ w.spec.volumes = PodVolumes(b) /\ w.spec.claims = DOMAIN b.claims
    BY <2>1, PodFields
  <2> HIDE DEF block
  <2>8. \A n \in MountedNames(w.spec) : named(w, n) # {} \/ n \in w.spec.claims
    BY <2>1, <2>5, <2>7
  <2>9. block(w).kind # "cronjob" =>
            \A n \in MountedNames(w.spec) \ VolumeNames(block(w).volumes) :
                Cardinality(named(w, n)) = 1 <=> n \notin w.spec.claims
    BY <2>1, <2>2, <2>6, <2>7
  <2>10. QED
    BY <2>8, <2>9
<1>2. QED
  BY <1>1, Inductive, PTL

\* Among what is written, each workload finds the service account that is
\* declared for it, unless another account has its key.
THEOREM AccountsThere == RenderSpec => []AccountsForWorkloads
<1>1. IInv => AccountsForWorkloads
  <2> DEFINE declared(w, n) == {k \in DOMAIN Accounts : Accounts[k].name = w.spec.sa /\ Accounts[k].ns = n}
             joined(w) == \E use \in DeclaredUses : JoinToOne(use, <<w.spec.sa, w.ns>>)
  <2> SUFFICES ASSUME IInv, stage = "written", NEW w \in Workloads, w.spec.sa # None,
                      declared(w, w.ns) \cup declared(w, None) # {}, ~joined(w)
               PROVE  \E m \in manifests :
                          /\ m.kind = "ServiceAccount" /\ m.name = w.spec.sa /\ m.ns = w.ns
                          /\ m.spec \in IF declared(w, w.ns) # {} THEN declared(w, w.ns) ELSE declared(w, None)
    BY DEF AccountsForWorkloads
  <2>1. PICK b \in merged : b.kind \in WorkloadKinds /\ w.ns = b.ns /\ w.spec = Pod(b)
    BY WorkloadsWritten
  <2>2. w.spec.sa = b.sa
    BY <2>1, PodFields
  <2> DEFINE use == <<w.spec.sa, w.ns>>
  <2>3. use \in AccountUses(merged)
    BY <2>1, <2>2 DEF AccountUses
  <2>4. ~Joined(use)
    BY DEF Joined
  <2>5. AccountsOf(use) \subseteq manifests
    BY <2>3, <2>4 DEF IInv, Accounted
  <2>6. Declaring(Accounts, w.spec.sa, w.ns)
            = IF declared(w, w.ns) # {} THEN declared(w, w.ns) ELSE declared(w, None)
    BY DEF Declaring
  <2>7. PICK i \in Declaring(Accounts, w.spec.sa, w.ns) : TRUE
    BY <2>6
  <2> DEFINE m == Manifest(AccountKey(w.spec.sa, w.ns), "ServiceAccount", w.ns, w.spec.sa, <<>>, i)
  <2>8. m \in AccountsOf(use)
    BY DEF AccountsOf, GenerateAccount
  <2>9. m.kind = "ServiceAccount" /\ m.name = w.spec.sa /\ m.ns = w.ns /\ m.spec = i
    BY ManifestFields
  <2> HIDE DEF m
  <2>10. QED
    BY <2>5, <2>6, <2>7, <2>8, <2>9
<1>2. QED
  BY <1>1, Inductive, PTL

LEMMA PodReferencesAreOfKinds ==
    ASSUME NEW b, BlockOK(b), NEW ref \in PodReferences(b)
    PROVE  ref[1] \in ReferredKinds
<1>1. CASE ref \in NamedReferences(b)
  BY <1>1, PodRefersAsBlock
<1>2. CASE ref \in PublishReferences(b)
  BY <1>2 DEF PublishReferences, ReferredKinds
<1>3. QED
  BY <1>1, <1>2 DEF PodReferences

LEMMA Ranks ==
    /\ KindRank("Namespace") = 0
    /\ \A kind : kind # "Namespace" => 0 < KindRank(kind)
    /\ KindRank("ClusterRole") < KindRank("ClusterRoleBinding")
    /\ KindRank("Deployment") < KindRank("HorizontalPodAutoscaler")
    /\ \A kind \in {"Deployment", "DaemonSet", "StatefulSet", "CronJob"} : KindRank(kind) = 30
    /\ \A kind \in {"CSIDriver", "ServiceAccount", "Service", "ConfigMap", "Secret", "SealedSecret",
                    "PersistentVolumeClaim"} : KindRank(kind) < 30
BY DEF KindRank, kindApplyOrder, kindApplyOrderDefault

\* What a manifest needs of others in the cluster is written before it, whatever
\* their names.
THEOREM OrderedByNeed == RenderSpec => []PrerequisitesFirst
<1>1. IInv => PrerequisitesFirst
  <2> SUFFICES ASSUME IInv, stage = "written", NEW m \in manifests, NEW n \in manifests, Needs(m, n)
               PROVE  KindRank(n.kind) < KindRank(m.kind)
    BY DEF PrerequisitesFirst, Less
  <2>1. CASE n.kind = "Namespace" /\ n.name = m.ns
    <3>1. ASSUME m.kind = "Namespace" PROVE FALSE
      <4>1. PICK ns \in Name : n = Manifest(<<"namespace">> \o ns, "Namespace", None, ns, <<>>, None)
        BY <2>1, WrittenByKind
      <4>2. PICK s \in Name : m = Manifest(<<"namespace">> \o s, "Namespace", None, s, <<>>, None)
        BY <3>1, WrittenByKind
      <4>3. n.name = ns /\ m.ns = None
        BY <4>1, <4>2, ManifestFields
      <4>4. QED
        BY <2>1, <4>3, LoaderAssumption
    <3>2. QED
      BY <2>1, <3>1, Ranks
  <2>2. CASE m.kind = "ClusterRoleBinding" /\ n.kind = "ClusterRole"
    BY <2>2, Ranks
  <2>3. CASE m.kind = "HorizontalPodAutoscaler" /\ n.kind = "Deployment" /\ n.at = m.at
    BY <2>3, Ranks
  <2>4. ASSUME IsWorkload(m), NEW ref \in m.spec.refs
        PROVE  ref[1] \in ReferredKinds
    <3>1. m \in Workloads
      BY <2>4 DEF Workloads
    <3>2. PICK b \in merged : Whole(b) /\ m.spec = Pod(b)
      BY <3>1, WorkloadsWritten
    <3>3. QED
      BY <2>4, <3>2, PodFields, PodReferencesAreOfKinds DEF Whole
  <2>5. CASE IsWorkload(m) /\ ~(n.kind = "Namespace" /\ n.name = m.ns)
    <3>1. \/ n.kind \in {"CSIDriver", "ServiceAccount", "Service"}
          \/ \E ref \in m.spec.refs : n.kind \in ProvidedAs(ref[1])
      BY <2>5 DEF Needs, IsWorkload
    <3>2. n.kind \in {"CSIDriver", "ServiceAccount", "Service", "ConfigMap", "Secret", "SealedSecret",
                      "PersistentVolumeClaim"}
      BY <2>4, <2>5, <3>1 DEF ProvidedAs, ReferredKinds
    <3>3. QED
      BY <2>5, <3>2, Ranks DEF IsWorkload
  <2>6. QED
    BY <2>1, <2>2, <2>3, <2>5 DEF Needs
<1>2. QED
  BY <1>1, Inductive, PTL
LEMMA PortsAreListed ==
    ASSUME NEW b, BlockOK(b), ContainerPorts(b) # <<>>
    PROVE  ContainerPorts(b)[1] \in ToSet(ContainerPorts(b))
<1> DEFINE S == UNION {ToSet(b.containers[i].ports) : i \in DOMAIN b.containers}
           s == [i \in DOMAIN b.containers |-> b.containers[i].ports]
<1>1. Len(b.containers) \in Nat /\ DOMAIN b.containers = 1..Len(b.containers)
  BY DEF BlockOK, Lists
<1>2. \A i \in DOMAIN b.containers : b.containers[i].ports \in Seq(ToSet(b.containers[i].ports))
  BY DEF BlockOK, Lists, ToSet
<1>3. ASSUME NEW i \in DOMAIN b.containers PROVE b.containers[i].ports \in Seq(S)
  <2>1. ToSet(b.containers[i].ports) \subseteq S
    OBVIOUS
  <2>2. QED
    BY <1>2, <2>1
<1>4. s \in Seq(Seq(S))
  BY <1>1, <1>3
<1> HIDE DEF S
<1>5. FlattenSeq(s) \in Seq(S)
  BY <1>4, FlattenSeqCollects
<1>6. ContainerPorts(b) \in Seq(S)
  BY <1>5 DEF ContainerPorts
<1>7. 1 \in DOMAIN ContainerPorts(b)
  BY <1>6
<1>8. QED
  BY <1>7 DEF ToSet

\* A route that takes its backend from its workload leads to a port of the
\* workload's Service, which is written with it.
THEOREM RoutesLead == RenderSpec => []RoutesReachTheService
<1>1. IInv => RoutesReachTheService
  <2> SUFFICES ASSUME IInv, stage = "written", NEW b \in merged, NEW i \in DOMAIN b.ingresses,
                      HasService(b), b.service = <<>>, b.servicePorts = <<>>, ContainerPorts(b) # <<>>,
                      b.ingresses[i].backend \in {None, <<>>}, b.ingresses[i].port \in {None, 0},
                      NEW m \in manifests, m.kind \in {"Ingress", "HTTPRoute"}, m.at = b.at,
                      m.name = ResourceName(b, i)
               PROVE  \E n \in manifests :
                          /\ n.kind = "Service" /\ n.ns = m.ns /\ n.name = m.spec.backend.service
                          /\ m.spec.backend.port \in n.spec.ports
    BY DEF RoutesReachTheService
  <2>1. PICK c \in merged : m \in Objects(c, Mode)
    BY WrittenByKind
  <2>2. c.at = b.at
    BY <2>1, FiledUnderItsKey
  <2>3. c = b
    BY <2>2 DEF IInv, LoadInv, Placed, OnePerPlace
  <2>4. BlockOK(b) /\ b.kind \in KindsOfBlock
    BY DEF IInv, LoadInv, Typed, AllWhole, Whole, BlockOK
  <2>5. b.kind \in RoutingKinds /\ \E j \in DOMAIN b.ingresses : m = RouteObject(b, j, Mode)
    BY <2>1, <2>3, <2>4, KindTellsForm
  <2>6. PICK j \in DOMAIN b.ingresses : m = RouteObject(b, j, Mode)
    BY <2>5
  <2>7. m.name = ResourceName(b, j) /\ m.ns = b.ns /\ m.spec = Route(b, j, Mode)
    BY <2>6, ObjectFields
  <2>8. ~IngressConflict(merged)
    BY DEF IInv, LoadInv, Checked, Commanded
  <2>9. i = j
    <3>1. SameRoute(b, i, b, j)
      BY <2>7 DEF SameRoute
    <3>2. ~(<<b.at, i>> # <<b.at, j>>)
      BY <2>5, <2>8, <3>1 DEF IngressConflict, RoutingKinds
    <3>3. QED
      BY <3>2
  <2>10. m.spec.backend.service = b.name /\ m.spec.backend.port = ContainerPorts(b)[1]
    BY <2>7, <2>9 DEF Route, Backend
  <2> DEFINE n == ServiceObject(b)
  <2>11. n \in Objects(b, Mode)
    BY DEF Objects, Services, ServiceObject
  <2>12. n \in manifests
    BY <2>1, <2>3, <2>11 DEF IInv, Filed
  <2>13. n.kind = "Service" /\ n.ns = b.ns /\ n.name = ServiceName(b) /\ n.spec = Service(b)
    BY ObjectFields
  <2> HIDE DEF n
  <2>14. ServiceName(b) = b.name
    BY DEF ServiceName
  <2>15. Service(b).ports = ToSet(ContainerPorts(b))
    BY DEF Service
  <2>16. ContainerPorts(b)[1] \in ToSet(ContainerPorts(b))
    BY <2>4, PortsAreListed
  <2>17. QED
    BY <2>7, <2>10, <2>12, <2>13, <2>14, <2>15, <2>16
<1>2. QED
  BY <1>1, Inductive, PTL
(***************************************************************************)
(* Nothing that is declared is lost.  Where the load is says which files   *)
(* have had their blocks parsed, with the variables that the documentation *)
(* promises.                                                               *)
(***************************************************************************)
LEMMA FirstIs ==
    ASSUME NEW s, DOMAIN s \subseteq Nat, NEW i \in DOMAIN s, s[i] # None,
           \A j \in DOMAIN s : s[j] # None => i <= j
    PROVE  First(s) = s[i]
<1> DEFINE set == {j \in DOMAIN s : s[j] # None}
           Least(k) == \A j \in set : k <= j
<1>1. i \in set /\ Least(i) /\ set \subseteq Nat
  OBVIOUS
<1>2. First(s) = s[CHOOSE k \in set : Least(k)]
  BY <1>1 DEF First
<1> DEFINE c == CHOOSE k \in set : Least(k)
<1> HIDE DEF set
<1>3. c \in set /\ Least(c)
  BY <1>1
<1> HIDE DEF c
<1>4. c = i
  BY <1>1, <1>3
<1>5. QED
  BY <1>2, <1>4 DEF c

LEMMA FirstIsNone == \A s : (\A j \in DOMAIN s : s[j] = None) => First(s) = None
BY DEF First

LEMMA FirstOfTwo == \A x, y : First(<<x, y>>) = IF x # None THEN x ELSE y
<1> SUFFICES ASSUME NEW x, NEW y PROVE First(<<x, y>>) = IF x # None THEN x ELSE y
  OBVIOUS
<1> DEFINE s == <<x, y>>
<1>1. DOMAIN s = 1..2 /\ s[1] = x /\ s[2] = y
  OBVIOUS
<1> HIDE DEF s
<1>2. CASE x # None
  BY <1>1, <1>2, FirstIs
<1>3. CASE x = None /\ y # None
  <2>1. \A j \in DOMAIN s : s[j] # None => 2 <= j
    BY <1>1, <1>3
  <2>2. QED
    BY <1>1, <1>3, <2>1, FirstIs
<1>4. CASE x = None /\ y = None
  BY <1>1, <1>4, FirstIsNone
<1>5. QED
  BY <1>1, <1>2, <1>3, <1>4

LEMMA FirstOfThree ==
    \A x, y, z :
        First(<<x, y, z>>)
            = IF x # None THEN x ELSE IF y # None THEN y ELSE z
<1> SUFFICES ASSUME NEW x, NEW y, NEW z
             PROVE  First(<<x, y, z>>)
                        = IF x # None THEN x ELSE IF y # None THEN y ELSE z
  OBVIOUS
<1> DEFINE s == <<x, y, z>>
<1>1. DOMAIN s = 1..3 /\ s[1] = x /\ s[2] = y /\ s[3] = z
  OBVIOUS
<1> HIDE DEF s
<1>2. CASE x # None
  <2>1. \A j \in DOMAIN s : s[j] # None => 1 <= j
    BY <1>1, <1>2
  <2>2. QED
    BY <1>1, <1>2, <2>1, FirstIs
<1>3. CASE x = None /\ y # None
  <2>1. \A j \in DOMAIN s : s[j] # None => 2 <= j
    BY <1>1, <1>3
  <2>2. QED
    BY <1>1, <1>3, <2>1, FirstIs
<1>4. CASE x = None /\ y = None /\ z # None
  <2>1. \A j \in DOMAIN s : s[j] # None => 3 <= j
    BY <1>1, <1>4
  <2>2. QED
    BY <1>1, <1>4, <2>1, FirstIs
<1>5. CASE x = None /\ y = None /\ z = None
  BY <1>1, <1>5, FirstIsNone
<1>6. QED
  BY <1>1, <1>2, <1>3, <1>4, <1>5

LEMMA FirstOfFive ==
    \A v, w, x, y, z :
        First(<<v, w, x, y, z>>)
            = IF v # None THEN v ELSE IF w # None THEN w
              ELSE IF x # None THEN x ELSE IF y # None THEN y
              ELSE z
<1> SUFFICES ASSUME NEW v, NEW w, NEW x, NEW y, NEW z
             PROVE  First(<<v, w, x, y, z>>)
                        = IF v # None THEN v ELSE IF w # None THEN w
              ELSE IF x # None THEN x ELSE IF y # None THEN y
              ELSE z
  OBVIOUS
<1> DEFINE s == <<v, w, x, y, z>>
<1>1. DOMAIN s = 1..5 /\ s[1] = v /\ s[2] = w /\ s[3] = x /\ s[4] = y /\ s[5] = z
  OBVIOUS
<1> HIDE DEF s
<1>2. CASE v # None
  <2>1. \A j \in DOMAIN s : s[j] # None => 1 <= j
    BY <1>1, <1>2
  <2>2. QED
    BY <1>1, <1>2, <2>1, FirstIs
<1>3. CASE v = None /\ w # None
  <2>1. \A j \in DOMAIN s : s[j] # None => 2 <= j
    BY <1>1, <1>3
  <2>2. QED
    BY <1>1, <1>3, <2>1, FirstIs
<1>4. CASE v = None /\ w = None /\ x # None
  <2>1. \A j \in DOMAIN s : s[j] # None => 3 <= j
    BY <1>1, <1>4
  <2>2. QED
    BY <1>1, <1>4, <2>1, FirstIs
<1>5. CASE v = None /\ w = None /\ x = None /\ y # None
  <2>1. \A j \in DOMAIN s : s[j] # None => 4 <= j
    BY <1>1, <1>5
  <2>2. QED
    BY <1>1, <1>5, <2>1, FirstIs
<1>6. CASE v = None /\ w = None /\ x = None /\ y = None /\ z # None
  <2>1. \A j \in DOMAIN s : s[j] # None => 5 <= j
    BY <1>1, <1>6
  <2>2. QED
    BY <1>1, <1>6, <2>1, FirstIs
<1>7. CASE v = None /\ w = None /\ x = None /\ y = None /\ z = None
  BY <1>1, <1>7, FirstIsNone
<1>8. QED
  BY <1>1, <1>2, <1>3, <1>4, <1>5, <1>6, <1>7

Labels(S) == {<<b.at, b.name>> : b \in S}

\* What an item, a file and a directory ask for.
Asks(e, f, i) == ItemAsks(Files(e)[f][i], <<e, f, i>>, LAMBDA x : Worth(e, x))
FileAsks(e, f) == UNION {Asks(e, f, i) : i \in DOMAIN Files(e)[f]}
Asked(e) == UNION {FileAsks(e, f) : f \in DOMAIN Files(e)}

\* The overrides in force are those of the entry until its files are parsed.
InForce ==
    phase \in {"start", "parse"} =>
        overrides = IF Rooted /\ entry # 0 THEN OverridesOf(entry) ELSE project.cli.set

Collected ==
    /\ phase = "parse" =>
          Labels(loading) = UNION {FileAsks(entry, f) : f \in {g \in DOMAIN Files(entry) : g < file}}
    /\ phase \in {"validate", "override", "join", "complete"} => Labels(loading) = Asked(entry)
    /\ phase \in {"start", "parse", "validate", "override", "join", "complete"} =>
          Labels(merged) = UNION {Asked(e) : e \in {d \in Nat : d < entry}}
    /\ phase \in {"next", "check", "done"} =>
          Labels(merged) = UNION {Asked(e) : e \in {d \in Nat : d <= entry}}
    /\ phase \in {"check", "done"} /\ Rooted => entry = Len(Entries)
    /\ phase = "start" => file = 1 /\ loading = {}

LEMMA WorthInForce ==
    ASSUME LoadInv, InForce, phase = "parse", NEW x \in Variable
    PROVE  Context(entry, overrides)[x] = Worth(entry, x)
<1>1. \A f, g : Else(f, g)[x] = IF f[x] # None THEN f[x] ELSE g[x]
  BY DEF Else
<1>2. CASE ~Rooted
  <2>1. overrides = project.cli.set
    BY <1>2 DEF InForce
  <2>2. Context(entry, overrides) = Else(project.cli.set, Else(project.cli.values, Directory(entry).declared))
    BY <1>2, <2>1 DEF Context
  <2>3. Worth(entry, x) = First(<<project.cli.set[x], project.cli.values[x], Directory(entry).declared[x]>>)
    BY <1>2 DEF Worth
  <2>4. QED
    BY <1>1, <2>2, <2>3, FirstOfThree
<1>3. CASE Rooted /\ entry = 0
  <2>1. overrides = project.cli.set
    BY <1>3 DEF InForce
  <2>2. Context(entry, overrides)
            = Else(project.cli.set, Else([y \in Variable |-> None], Directory(entry).declared))
    BY <1>3, <2>1 DEF Context
  <2>3. Worth(entry, x) = First(<<project.cli.set[x], Directory(entry).declared[x]>>)
    BY <1>3 DEF Worth
  <2>4. QED
    BY <1>1, <2>2, <2>3, FirstOfTwo
<1>4. CASE Rooted /\ entry # 0
  <2>1. overrides = Else(project.cli.set, Else(Entries[entry].set, project.root.set))
    BY <1>4 DEF InForce, OverridesOf
  <2>2. Context(entry, overrides) = Else(overrides, Else(project.cli.values, Directory(entry).declared))
    BY <1>4 DEF Context
  <2>3. Worth(entry, x) = First(<<project.cli.set[x], Entries[entry].set[x], project.root.set[x],
                                  project.cli.values[x], Directory(entry).declared[x]>>)
    BY <1>4 DEF Worth
  <2>4. QED
    BY <1>1, <2>1, <2>2, <2>3, FirstOfFive
<1>5. QED
  BY <1>2, <1>3, <1>4

LEMMA AskedIsAskedFor == \A e : AskedFor(e, LAMBDA x : Worth(e, x)) = Asked(e)
BY DEF AskedFor, Asked, FileAsks, Asks, ItemAsks

LEMMA ShortPlaceOf == \A e, f, i, p, k : <<e, f, i>> \o <<p, k>> = <<e, f, i, p, k>>
<1> SUFFICES ASSUME NEW e, NEW f, NEW i, NEW p, NEW k
             PROVE  <<e, f, i>> \o <<p, k>> = <<e, f, i, p, k>>
  OBVIOUS
<1> DEFINE Part == {e, f, i}
           s == Append(<<e, f>>, i)
<1>1. <<e, f>> \in Seq(Part) /\ Len(<<e, f>>) = 2
  OBVIOUS
<1>2. s \in Seq(Part) /\ Len(s) = 3 /\ s[1] = e /\ s[2] = f /\ s[3] = i
  BY <1>1, AppendProperties
<1> HIDE DEF s
<1>3. <<e, f, i>> \in Seq(Part) /\ Len(<<e, f, i>>) = 3
  OBVIOUS
<1>4. \A j \in 1..3 : s[j] = <<e, f, i>>[j]
  BY <1>2
<1>5. s = <<e, f, i>>
  BY <1>2, <1>3, <1>4, SeqEqual
<1>6. QED
  BY <1>5, PlaceOf, ZenonT(60) DEF s

\* The blocks of an item are those it asks for.
LEMMA ItemGives ==
    ASSUME LoadInv, InForce, phase = "parse", NEW i \in DOMAIN Files(entry)[file],
           ItemOK(Files(entry)[file][i])
    PROVE  Labels(ItemBlocks(Files(entry)[file][i], Context(entry, overrides), Append(<<entry, file>>, i)))
               = Asks(entry, file, i)
<1> DEFINE item  == Files(entry)[file][i]
           ctx   == Context(entry, overrides)
           place == Append(<<entry, file>>, i)
           for   == Repeats(item, IF item.form = "block" THEN None ELSE Worth(entry, item.var))
           label(p, k) == <<<<entry, file, i, p, k>>,
                            IF item.blocks[p].perItem THEN Append(item.blocks[p].name, for[k])
                            ELSE item.blocks[p].name>>
           asked(p, k) == <<<<entry, file, i>> \o <<p, k>>,
                            IF item.blocks[p].perItem THEN Append(item.blocks[p].name, for[k])
                            ELSE item.blocks[p].name>>
           block(p, k) == Parsed(item.blocks[p], for[k], place \o <<p, k>>)
<1>1. item.form \in {"block", "if", "for"} /\ (item.form # "block" => item.var \in Variable)
  BY DEF ItemOK
<1>2. item.form # "block" => ctx[item.var] = Worth(entry, item.var)
  BY <1>1, WorthInForce
<1> HIDE DEF ctx
<1>3. ElementsFor(item, ctx) = for
  <2>1. CASE item.form = "block"
    BY <2>1 DEF ElementsFor, Repeats
  <2>2. CASE item.form = "if"
    BY <1>2, <2>2 DEF ElementsFor, Repeats
  <2>3. CASE item.form = "for"
    BY <1>2, <2>3 DEF ElementsFor, Repeats
  <2>4. QED
    BY <1>1, <2>1, <2>2, <2>3
<1>4. \A p \in DOMAIN item.blocks : DOMAIN item.blocks[p] = DOMAIN Blank
  BY DEF ItemOK, BlockOK
<1>5. Asks(entry, file, i) = {asked(p, k) : p \in DOMAIN item.blocks, k \in DOMAIN for}
  BY DEF Asks, ItemAsks
<1>6. \A p, k : asked(p, k) = label(p, k)
  BY ShortPlaceOf
<1>7. \A p, k : place \o <<p, k>> = <<entry, file, i, p, k>>
  BY PlaceOf
<1>8. ItemBlocks(item, ctx, place) = {block(p, k) : p \in DOMAIN item.blocks, k \in DOMAIN for}
  BY <1>3 DEF ItemBlocks
<1> HIDE DEF item, for, place
<1>9. \A p \in DOMAIN item.blocks, k \in DOMAIN for : <<block(p, k).at, block(p, k).name>> = label(p, k)
  <2> SUFFICES ASSUME NEW p \in DOMAIN item.blocks, NEW k \in DOMAIN for
               PROVE  <<block(p, k).at, block(p, k).name>> = label(p, k)
    OBVIOUS
  <2> DEFINE raw == item.blocks[p]
             at  == place \o <<p, k>>
             c   == Parsed(raw, for[k], at)
  <2>1. DOMAIN raw = DOMAIN Blank
    BY <1>4
  <2>2. block(p, k) = c /\ at = <<entry, file, i, p, k>>
    BY <1>7
  <2>3. label(p, k) = <<<<entry, file, i, p, k>>, IF raw.perItem THEN Append(raw.name, for[k]) ELSE raw.name>>
    OBVIOUS
  <2> HIDE DEF raw, at, block, label
  <2>4. c.at = at /\ c.name = IF raw.perItem THEN Append(raw.name, for[k]) ELSE raw.name
    BY <2>1, ParsedFields
  <2> HIDE DEF c
  <2>5. QED
    BY <2>2, <2>3, <2>4
<1> HIDE DEF block, label, asked
<1>10. Labels(ItemBlocks(item, ctx, place)) = {label(p, k) : p \in DOMAIN item.blocks, k \in DOMAIN for}
  BY <1>8, <1>9 DEF Labels
<1>11. Asks(entry, file, i) = {label(p, k) : p \in DOMAIN item.blocks, k \in DOMAIN for}
  BY <1>5, <1>6
<1>12. QED
  BY <1>10, <1>11 DEF item, ctx, place
LEMMA EditsKeepLabels ==
    ASSUME NEW S, NEW T, NEW X, Edits(S, T, X), AllWhole(S)
    PROVE  Labels(T) = Labels(S)
<1>1. \A c \in T : \E b \in S : c.at = b.at /\ c.name = b.name
  BY EditsKeep, EditedKeeps
<1>2. \A b \in S : \E c \in T : c.at = b.at /\ c.name = b.name
  BY EditsKeep, EditedKeeps
<1>3. QED
  BY <1>1, <1>2 DEF Labels

\* The blocks of a file are those it asks for.
LEMMA FileGives ==
    ASSUME LoadInv, InForce, phase = "parse", \A i \in DOMAIN Files(entry)[file] : ItemOK(Files(entry)[file][i])
    PROVE  Labels(FileBlocks(Files(entry)[file], Context(entry, overrides), <<entry, file>>))
               = FileAsks(entry, file)
<1> DEFINE items  == Files(entry)[file]
           of(i)  == ItemBlocks(items[i], Context(entry, overrides), Append(<<entry, file>>, i))
           ask(i) == Asks(entry, file, i)
<1>1. \A i \in DOMAIN items : Labels(of(i)) = ask(i)
  BY ItemGives
<1>2. FileBlocks(items, Context(entry, overrides), <<entry, file>>) = UNION {of(i) : i \in DOMAIN items}
  BY DEF FileBlocks
<1>3. FileAsks(entry, file) = UNION {ask(i) : i \in DOMAIN items}
  BY DEF FileAsks
<1> HIDE DEF of, ask, items
<1>4. Labels(UNION {of(i) : i \in DOMAIN items}) = UNION {Labels(of(i)) : i \in DOMAIN items}
  BY DEF Labels
<1>5. QED
  BY <1>1, <1>2, <1>3, <1>4 DEF items

\* What an item asks for when its variable is worth w.
Labelled(item, place, w) ==
    LET for == Repeats(item, w)
    IN  {<<place \o <<p, k>>,
           IF item.blocks[p].perItem THEN Append(item.blocks[p].name, for[k])
           ELSE item.blocks[p].name>> : p \in DOMAIN item.blocks, k \in DOMAIN for}

\* What is asked for is a matter of the project.
LEMMA SameAsked ==
    ASSUME project' = project
    PROVE  /\ Rooted' = Rooted /\ Entries' = Entries
           /\ \A e : /\ Files(e)' = Files(e) /\ Asked(e)' = Asked(e) /\ OverridesOf(e)' = OverridesOf(e)
                     /\ Directory(e)' = Directory(e)
                     /\ \A f : FileAsks(e, f)' = FileAsks(e, f)
<1>1. Rooted' = Rooted /\ Entries' = Entries
  BY DEF Rooted, Entries
<1>2. \A e : Directory(e)' = Directory(e) /\ Files(e)' = Files(e) /\ OverridesOf(e)' = OverridesOf(e)
  BY <1>1 DEF Directory, Files, OverridesOf
<1>3. \A e, x : Worth(e, x)' = Worth(e, x)
  BY <1>1, <1>2 DEF Worth
<1>4. \A e, f, i : Asks(e, f, i)' = Asks(e, f, i)
  <2> SUFFICES ASSUME NEW e, NEW f, NEW i PROVE Asks(e, f, i)' = Asks(e, f, i)
    OBVIOUS
  <2>1. Files(e)' = Files(e) /\ \A x : Worth(e, x)' = Worth(e, x)
    BY <1>2, <1>3
  <2> DEFINE item == Files(e)[f][i]
             w == IF item.form = "block" THEN None ELSE Worth(e, item.var)
  <2>2. Asks(e, f, i) = Labelled(item, <<e, f, i>>, w)
    BY DEF Asks, ItemAsks, Labelled
  <2>3. Asks(e, f, i)' = Labelled(item', <<e, f, i>>, w')
    BY DEF Asks, ItemAsks, Labelled
  <2>4. item' = item
    BY <2>1
  <2>5. w' = w
    BY <2>1, <2>4
  <2> HIDE DEF item, w
  <2>6. QED
    BY <2>2, <2>3, <2>4, <2>5
<1>5. \A e, f : FileAsks(e, f)' = FileAsks(e, f)
  BY <1>2, <1>4 DEF FileAsks
<1>6. \A e : Asked(e)' = Asked(e)
  BY <1>2, <1>5 DEF Asked
<1>7. QED
  BY <1>1, <1>2, <1>5, <1>6

LEMMA ForceKept == LoadInv /\ InForce /\ LoadStep => InForce'
<1> SUFFICES ASSUME LoadInv, InForce, LoadStep PROVE InForce'
  OBVIOUS
<1>1. project' = project
  BY DEF LoadStep, Start, RootRefused, ParseFile, FileRefused, FinishRootFiles, FinishFiles,
         DuplicateInDirectory, ValidateIngresses, IngressRefused, EnvironmentRefused,
         ApplyEnvironment, FinishSingle, NextEntry, DirectoryMissing, JoinEntry, CheckMerged,
         MergedRefused, FinishRoot, MergedIngressRefused, Fail
<1>2. CASE Start \/ ParseFile
  BY <1>1, <1>2, SameAsked DEF InForce, Start, ParseFile
<1>3. CASE NextEntry
  <2>1. Rooted /\ entry \in Nat /\ entry' = entry + 1 /\ overrides' = OverridesOf(entry + 1)
    BY <1>3 DEF LoadInv, Typed, InEntry, NextEntry
  <2>2. entry' # 0 /\ OverridesOf(entry)' = OverridesOf(entry + 1)
    BY <1>1, <2>1 DEF OverridesOf, Entries
  <2>3. QED
    BY <1>1, <2>1, <2>2, SameAsked DEF InForce
<1>4. CASE phase' \notin {"start", "parse"}
  BY <1>4 DEF InForce
<1>5. QED
  BY <1>2, <1>3, <1>4 DEF LoadStep, RootRefused, FileRefused, FinishRootFiles, FinishFiles,
         DuplicateInDirectory, ValidateIngresses, IngressRefused, EnvironmentRefused,
         ApplyEnvironment, FinishSingle, DirectoryMissing, JoinEntry, CheckMerged,
         MergedRefused, FinishRoot, MergedIngressRefused, Fail

\* When the last file has been parsed, all of them have.
LEMMA AllParsed ==
    ASSUME LoadInv, Collected, phase = "parse", file > Len(Files(entry))
    PROVE  Labels(loading) = Asked(entry)
<1>1. Lists(Files(entry)) /\ file \in Nat
  BY DirectoryIsOK DEF DirectoryOK, Files, LoadInv, Typed
<1>2. Len(Files(entry)) \in Nat /\ DOMAIN Files(entry) = 1..Len(Files(entry))
  BY <1>1 DEF Lists
<1>3. \A g \in DOMAIN Files(entry) : g < file
  BY <1>1, <1>2
<1>4. {g \in DOMAIN Files(entry) : g < file} = DOMAIN Files(entry)
  BY <1>3
<1>5. QED
  BY <1>4 DEF Collected, Asked

LEMMA CollectedStart == LoadInv /\ Collected /\ Start => Collected'
<1> SUFFICES ASSUME LoadInv, Collected, Start PROVE Collected'
  OBVIOUS
<1>1. Lists(Files(entry))
  BY DirectoryIsOK DEF DirectoryOK, Files
<1>2. {g \in DOMAIN Files(entry) : g < 1} = {}
  BY <1>1 DEF Lists
<1>3. project' = project /\ entry' = entry /\ file' = file /\ merged' = merged /\ loading' = loading
      /\ phase = "start" /\ phase' = "parse"
  BY DEF Start
<1>4. file = 1 /\ Labels(loading) = {}
  BY <1>3 DEF Collected, Labels
<1>5. UNION {FileAsks(entry, f) : f \in {g \in DOMAIN Files(entry) : g < 1}} = {}
  BY <1>2
<1>6. Labels(loading)' = Labels(loading) /\ Labels(merged)' = Labels(merged)
  BY <1>3 DEF Labels
<1>7. Labels(merged) = UNION {Asked(e) : e \in {d \in Nat : d < entry}}
  BY <1>3 DEF Collected
<1>8. QED
  BY <1>3, <1>4, <1>5, <1>6, <1>7, SameAsked DEF Collected

LEMMA CollectedFile == LoadInv /\ InForce /\ Collected /\ ParseFile => Collected'
<1> SUFFICES ASSUME LoadInv, InForce, Collected, ParseFile PROVE Collected'
  OBVIOUS
<1> DEFINE S == FileBlocks(Files(entry)[file], Context(entry, overrides), <<entry, file>>)
<1>1. /\ phase = "parse" /\ phase' = phase /\ project' = project /\ entry' = entry
      /\ file' = file + 1 /\ merged' = merged /\ loading' = loading \cup S
      /\ file <= Len(Files(entry))
  BY DEF ParseFile, Files
<1>2. /\ Lists(Files(entry)) /\ file \in Nat \ {0}
      /\ \A f \in DOMAIN Files(entry) : \A i \in DOMAIN Files(entry)[f] : ItemOK(Files(entry)[f][i])
  BY DirectoryIsOK DEF DirectoryOK, Files, LoadInv, Typed
<1>3. file \in DOMAIN Files(entry)
  BY <1>1, <1>2 DEF Lists
<1>4. Labels(S) = FileAsks(entry, file)
  BY <1>1, <1>2, <1>3, FileGives
<1> HIDE DEF S
<1>5. Labels(loading') = Labels(loading) \cup FileAsks(entry, file)
  BY <1>1, <1>4 DEF Labels
<1>6. {g \in DOMAIN Files(entry) : g < file + 1} = {g \in DOMAIN Files(entry) : g < file} \cup {file}
  BY <1>2, <1>3 DEF Lists
<1>7. Labels(loading') = UNION {FileAsks(entry, f) : f \in {g \in DOMAIN Files(entry) : g < file + 1}}
  BY <1>1, <1>5, <1>6, ZenonT(60) DEF Collected
<1>8. Labels(loading)' = Labels(loading') /\ Labels(merged)' = Labels(merged)
  BY <1>1 DEF Labels
<1>9. {g \in DOMAIN Files(entry)' : g < file'} = {g \in DOMAIN Files(entry) : g < file + 1}
  BY <1>1, SameAsked
<1>10. Labels(loading)' = UNION {FileAsks(entry, f)' : f \in {g \in DOMAIN Files(entry)' : g < file'}}
  BY <1>1, <1>7, <1>8, <1>9, SameAsked
<1>11. Labels(merged)' = UNION {Asked(e)' : e \in {d \in Nat : d < entry'}}
  BY <1>1, <1>8, SameAsked DEF Collected
<1>12. QED
  BY <1>1, <1>10, <1>11 DEF Collected

\* Steps that edit the blocks being loaded.
LEMMA CollectedLoading ==
    LoadInv /\ Collected /\ (FinishFiles \/ ValidateIngresses \/ ApplyEnvironment) => Collected'
<1> SUFFICES ASSUME LoadInv, Collected, FinishFiles \/ ValidateIngresses \/ ApplyEnvironment
             PROVE  Collected'
  OBVIOUS
<1>1. AllWhole(loading)
  BY DEF LoadInv, Typed
<1>2. /\ project' = project /\ entry' = entry /\ file' = file /\ merged' = merged
      /\ phase \in {"parse", "validate", "override"}
      /\ phase' \in {"validate", "override", "join", "complete"}
  BY DEF FinishFiles, ValidateIngresses, ApplyEnvironment
<1>3. Labels(loading') = Labels(loading)
  <2>1. Edits(loading, ApplyIngressDefaults(loading, Directory(entry).defaults), {"ingresses"})
    BY <1>1, DefaultsEdit
  <2>2. Edits(loading, ApplyOverrides(loading, EnvFile(entry).replicas), {"replicas"})
    BY <1>1, OverridesEdit
  <2>3. loading' \in {loading, ApplyIngressDefaults(loading, Directory(entry).defaults),
                      ApplyOverrides(loading, EnvFile(entry).replicas)}
    BY DEF FinishFiles, ValidateIngresses, ApplyEnvironment
  <2>4. QED
    BY <1>1, <2>1, <2>2, <2>3, EditsKeepLabels
<1>4. Labels(loading) = Asked(entry)
  <2>1. CASE FinishFiles
    BY <2>1, AllParsed DEF FinishFiles, Files
  <2>2. CASE ValidateIngresses \/ ApplyEnvironment
    BY <2>2 DEF Collected, ValidateIngresses, ApplyEnvironment
  <2>3. QED
    BY <2>1, <2>2
<1>5. Labels(loading)' = Labels(loading') /\ Labels(merged)' = Labels(merged)
  BY <1>2 DEF Labels
<1>6. QED
  BY <1>2, <1>3, <1>4, <1>5, SameAsked DEF Collected

LEMMA CollectedMerged ==
    LoadInv /\ Collected /\ (FinishRootFiles \/ FinishSingle \/ JoinEntry) => Collected'
<1> SUFFICES ASSUME LoadInv, Collected, FinishRootFiles \/ FinishSingle \/ JoinEntry
             PROVE  Collected'
  OBVIOUS
<1>1. /\ project' = project /\ entry' = entry /\ phase \in {"parse", "complete", "join"}
      /\ phase' = IF Rooted THEN "next" ELSE "done"
  BY DEF LoadInv, InEntry, FinishRootFiles, FinishSingle, JoinEntry
<1>2. entry \in Nat /\ AllWhole(loading)
  BY DEF LoadInv, Typed
<1>3. Labels(loading) = Asked(entry)
  <2>1. CASE FinishRootFiles
    BY <2>1, AllParsed DEF FinishRootFiles, Files
  <2>2. CASE FinishSingle \/ JoinEntry
    BY <2>2 DEF Collected, FinishSingle, JoinEntry
  <2>3. QED
    BY <2>1, <2>2
<1>4. Labels(merged) = UNION {Asked(e) : e \in {d \in Nat : d < entry}}
  BY <1>1 DEF Collected
<1>5. Labels(merged') = Labels(merged) \cup Asked(entry)
  <2>1. CASE FinishRootFiles \/ FinishSingle
    <3>1. entry = 0 /\ merged' = loading
      BY <2>1 DEF LoadInv, Somewhere, FinishRootFiles, FinishSingle
    <3>2. {d \in Nat : d < entry} = {}
      BY <3>1
    <3>3. Labels(merged) = {}
      BY <1>4, <3>2
    <3>4. QED
      BY <1>3, <3>1, <3>3
  <2>2. CASE JoinEntry
    <3> DEFINE T == {Injected(b, Entries[entry]) : b \in loading}
    <3>1. Rooted /\ entry # 0 /\ merged' = merged \cup T
      BY <2>2 DEF LoadInv, InEntry, JoinEntry
    <3>2. entry \in 1..Len(Entries)
      BY <1>2, <3>1, EntriesAreCounted DEF LoadInv, Somewhere
    <3>3. Edits(loading, T, {"ns", "sa"})
      BY <1>2, <3>1, <3>2, EntriesAreOK, InjectionEdits
    <3> HIDE DEF T
    <3>4. Labels(T) = Labels(loading)
      BY <1>2, <3>3, EditsKeepLabels
    <3>5. Labels(merged \cup T) = Labels(merged) \cup Labels(T)
      BY DEF Labels
    <3>6. QED
      BY <1>3, <3>1, <3>4, <3>5
  <2>3. QED
    BY <2>1, <2>2
<1>6. {d \in Nat : d <= entry} = {d \in Nat : d < entry} \cup {entry}
  BY <1>2
<1>7. Labels(merged') = UNION {Asked(e) : e \in {d \in Nat : d <= entry}}
  BY <1>4, <1>5, <1>6
<1>8. Labels(merged)' = Labels(merged')
  BY DEF Labels
<1>9. QED
  BY <1>1, <1>7, <1>8, SameAsked DEF Collected

LEMMA CollectedNext == LoadInv /\ Collected /\ NextEntry => Collected'
<1> SUFFICES ASSUME LoadInv, Collected, NextEntry PROVE Collected'
  OBVIOUS
<1>1. /\ project' = project /\ entry' = entry + 1 /\ file' = 1 /\ merged' = merged /\ loading' = {}
      /\ phase = "next" /\ phase' = "parse" /\ entry \in Nat
  BY DEF LoadInv, Typed, Emptied, NextEntry
<1>2. LoadInv'
  BY NextEntryLoads
<1>3. Lists(Files(entry + 1))
  <2>1. DirectoryOK(Directory(entry)')
    <3>1. LoadInv' => DirectoryOK(Directory(entry))'
      BY DirectoryIsOK, PTL
    <3>2. QED
      BY <1>2, <3>1 DEF DirectoryOK
  <2>2. Directory(entry)' = Directory(entry + 1)
    BY <1>1, SameAsked DEF Directory, Entries, Rooted
  <2>3. QED
    BY <2>1, <2>2 DEF DirectoryOK, Files
<1>4. {g \in DOMAIN Files(entry + 1) : g < 1} = {}
  BY <1>3 DEF Lists
<1>5. {d \in Nat : d <= entry} = {d \in Nat : d < entry + 1}
  BY <1>1
<1>6. Labels(merged) = UNION {Asked(e) : e \in {d \in Nat : d < entry + 1}}
  BY <1>1, <1>5 DEF Collected
<1>7. Labels(loading)' = {} /\ Labels(merged)' = Labels(merged)
  BY <1>1 DEF Labels
<1>8. DOMAIN Files(entry)' = DOMAIN Files(entry + 1)
  BY <1>1 DEF Files, Directory, Entries, Rooted
<1>9. QED
  BY <1>1, <1>4, <1>6, <1>7, <1>8, SameAsked DEF Collected

LEMMA CollectedCheck == LoadInv /\ Collected /\ (CheckMerged \/ FinishRoot) => Collected'
<1> SUFFICES ASSUME LoadInv, Collected, CheckMerged \/ FinishRoot PROVE Collected'
  OBVIOUS
<1>1. /\ project' = project /\ entry' = entry /\ phase \in {"next", "check"}
      /\ phase' \in {"check", "done"} /\ AllWhole(merged)
  BY DEF LoadInv, Typed, CheckMerged, FinishRoot
<1>2. Labels(merged') = Labels(merged)
  <2>1. Edits(merged, ApplyIngressDefaults(merged, project.root.defaults), {"ingresses"})
    BY <1>1, DefaultsEdit
  <2>2. merged' \in {merged, ApplyIngressDefaults(merged, project.root.defaults)}
    BY DEF CheckMerged, FinishRoot
  <2>3. QED
    BY <1>1, <2>1, <2>2, EditsKeepLabels
<1>3. entry = Len(Entries)
  BY DEF LoadInv, InEntry, Collected, CheckMerged, FinishRoot
<1>4. Labels(merged)' = Labels(merged')
  BY DEF Labels
<1>5. QED
  BY <1>1, <1>2, <1>3, <1>4, SameAsked DEF Collected
\* Steps that only end the load, or leave it alone.
LEMMA CollectedStays ==
    ASSUME InForce, Collected, UNCHANGED <<project, entry, file, overrides, loading, merged>>,
           phase' \in {phase, "failed"}
    PROVE  InForce' /\ Collected'
<1>1. Labels(loading)' = Labels(loading) /\ Labels(merged)' = Labels(merged)
  BY DEF Labels
<1>2. InForce'
  BY SameAsked DEF InForce
<1>3. CASE phase' = "failed"
  BY <1>2, <1>3 DEF Collected
<1>4. CASE phase' = phase
  <2>1. UNION {FileAsks(entry, f)' : f \in {g \in DOMAIN Files(entry)' : g < file'}}
            = UNION {FileAsks(entry, f) : f \in {g \in DOMAIN Files(entry) : g < file}}
    BY SameAsked
  <2>2. Asked(entry)' = Asked(entry) /\ Rooted' = Rooted /\ Entries' = Entries
    BY SameAsked
  <2>3. /\ UNION {Asked(e)' : e \in {d \in Nat : d < entry'}} = UNION {Asked(e) : e \in {d \in Nat : d < entry}}
        /\ UNION {Asked(e)' : e \in {d \in Nat : d <= entry'}} = UNION {Asked(e) : e \in {d \in Nat : d <= entry}}
    BY SameAsked
  <2>4. QED
    BY <1>1, <1>2, <1>4, <2>1, <2>2, <2>3 DEF Collected
<1>5. QED
  BY <1>3, <1>4

LEMMA CollectedInit == Init => InForce /\ Collected
<1> SUFFICES ASSUME Init PROVE InForce /\ Collected
  OBVIOUS
<1>1. phase = "start" /\ entry = 0 /\ file = 1 /\ loading = {} /\ merged = {} /\ overrides = project.cli.set
  BY DEF Init
<1>2. {d \in Nat : d < entry} = {}
  BY <1>1
<1>3. Labels(merged) = {} /\ UNION {Asked(e) : e \in {d \in Nat : d < entry}} = {}
  BY <1>1, <1>2 DEF Labels
<1>4. QED
  BY <1>1, <1>3 DEF InForce, Collected

LEMMA NextCollects == IInv /\ InForce /\ Collected /\ [RenderNext]_allVars => InForce' /\ Collected'
<1> SUFFICES ASSUME IInv, InForce, Collected, [RenderNext]_allVars PROVE InForce' /\ Collected'
  OBVIOUS
<1>1. LoadInv
  BY DEF IInv
<1>2. CASE Load
  <2>1. CASE \/ Start \/ ParseFile \/ FinishRootFiles \/ FinishFiles \/ ValidateIngresses
             \/ ApplyEnvironment \/ NextEntry \/ JoinEntry \/ CheckMerged \/ FinishRoot \/ FinishSingle
    BY <1>1, <1>2, <2>1, ForceKept, CollectedStart, CollectedFile, CollectedLoading, CollectedMerged,
       CollectedNext, CollectedCheck DEF Load
  <2>2. CASE Fail
    BY <2>2, CollectedStays DEF Fail
  <2>3. QED
    BY <1>2, <2>1, <2>2 DEF Load, LoadStep, RootRefused, FileRefused, DuplicateInDirectory, IngressRefused,
         EnvironmentRefused, DirectoryMissing, MergedRefused, MergedIngressRefused
<1>3. CASE UNCHANGED vars
  BY <1>3, CollectedStays DEF vars
<1>4. QED
  BY <1>2, <1>3 DEF RenderNext, NothingToRender, BeginGenerate, GenerateNextAccount, GenerateRest, Write,
                    RenderEnd, allVars

\* A load that succeeds, whatever the project, has the blocks that the files of
\* all its directories ask for, each once, under the values that the documented
\* precedence gives to variables, and no other.
THEOREM NothingLost == RenderSpec => []NothingDeclaredIsLost
<1>1. IInv /\ Collected => NothingDeclaredIsLost
  <2> SUFFICES ASSUME IInv, Collected, phase = "done"
               PROVE  Labels(merged) = UNION {AskedFor(e, LAMBDA x : Worth(e, x)) : e \in Visited}
    BY DEF NothingDeclaredIsLost, Labels
  <2>1. {d \in Nat : d <= entry} = Visited
    <3>1. CASE Rooted
      <4>1. entry = Len(Entries) /\ entry \in Nat
        BY <3>1 DEF Collected, IInv, LoadInv, Typed
      <4>2. QED
        BY <3>1, <4>1 DEF Visited
    <3>2. CASE ~Rooted
      BY <3>2 DEF Visited, IInv, LoadInv, Somewhere
    <3>3. QED
      BY <3>1, <3>2
  <2>2. Labels(merged) = UNION {Asked(e) : e \in Visited}
    BY <2>1 DEF Collected
  <2> DEFINE R(e) == AskedFor(e, LAMBDA x : Worth(e, x))
  <2>3. \A e : R(e) = Asked(e)
    BY AskedIsAskedFor
  <2> HIDE DEF R
  <2>4. Labels(merged) = UNION {R(e) : e \in Visited}
    BY <2>2, <2>3
  <2>5. QED
    BY <2>4 DEF R
<1>2. RenderInit => InForce /\ Collected
  BY CollectedInit DEF RenderInit
<1>3. QED
  BY <1>1, <1>2, Inductive, NextCollects, PTL DEF RenderSpec
(***************************************************************************)
(* Completed by the nearest.  A block is the one of its file, completed as *)
(* far as the load has come.                                               *)
(***************************************************************************)
OwnOr(x, y) == IF x # None THEN x ELSE y

SecretOf(d) == IF d = None THEN None ELSE d.secret
ClassOf(d)  == IF d = None THEN None ELSE d.class
TlsOf(d)    == d # None /\ d.tls = TRUE

\* j is i with what the defaults d, and then those of r, say of it.
FilledFrom(j, i, d, r) ==
    /\ j.secret = OwnOr(i.secret, OwnOr(SecretOf(d), SecretOf(r)))
    /\ j.class = OwnOr(i.class, OwnOr(ClassOf(d), ClassOf(r)))
    /\ j.tls = (i.tls \/ TlsOf(d) \/ TlsOf(r))

\* The ingresses of b are those of its file, with the defaults d and then r.
Routed(b, d, r) ==
    /\ DOMAIN b.ingresses = DOMAIN Origin(b).ingresses
    /\ \A i \in DOMAIN b.ingresses :
          i \in DOMAIN Origin(b).ingresses => FilledFrom(b.ingresses[i], Origin(b).ingresses[i], d, r)

NsOf(b) == IF Rooted /\ b.at[1] > 0 THEN Entries[b.at[1]].ns ELSE None
SaOf(b) == IF Rooted /\ b.at[1] > 0 THEN Entries[b.at[1]].sa ELSE None
NearTo(b) == DefaultsNear(b)[1]
Above(b)  == DefaultsNear(b)[2]

LoadingCompleted ==
    phase # "failed" => \A b \in loading :
        /\ b.kind = Origin(b).kind /\ b.ns = Origin(b).ns /\ b.sa = Origin(b).sa
        /\ Routed(b, IF phase = "parse" THEN None ELSE NearTo(b), None)
        /\ b.replicas = IF phase \in {"join", "complete"} THEN ReplicasIn(b, Origin(b).replicas)
                        ELSE Origin(b).replicas

MergedCompleted ==
    phase # "failed" => \A b \in merged :
        /\ b.kind = Origin(b).kind
        /\ b.kind \in NamespacedKinds => b.ns = OwnOr(Origin(b).ns, NsOf(b))
        /\ b.kind \in WorkloadKinds => b.sa = OwnOr(Origin(b).sa, SaOf(b))
        /\ Routed(b, NearTo(b), IF phase \in {"check", "done"} THEN Above(b) ELSE None)
        /\ b.replicas = ReplicasIn(b, Origin(b).replicas)

\* What completes a block is a matter of the project and of its place.
LEMMA SameCompletion ==
    ASSUME project' = project
    PROVE  /\ \A b : /\ Origin(b)' = Origin(b) /\ NsOf(b)' = NsOf(b) /\ SaOf(b)' = SaOf(b)
                     /\ NearTo(b)' = NearTo(b) /\ Above(b)' = Above(b)
                     /\ \A x : ReplicasIn(b, x)' = ReplicasIn(b, x)
                     /\ \A d, r : Routed(b, d, r)' = Routed(b, d, r)
<1>1. Rooted' = Rooted /\ Entries' = Entries /\ \A e : Directory(e)' = Directory(e) /\ Files(e)' = Files(e)
  BY SameAsked
<1>2. \A b : Origin(b)' = Origin(b)
  BY <1>1 DEF Origin
<1>3. \A b : DefaultsNear(b)' = DefaultsNear(b) /\ NsOf(b)' = NsOf(b) /\ SaOf(b)' = SaOf(b)
  BY <1>1 DEF DefaultsNear, NsOf, SaOf
<1>4. \A e : DocumentedEnv(e)' = DocumentedEnv(e)
  BY <1>1 DEF DocumentedEnv
<1>5. \A b, x : ReplicasIn(b, x)' = ReplicasIn(b, x)
  BY <1>1, <1>4 DEF ReplicasIn
<1>6. \A b, d, r : Routed(b, d, r)' = Routed(b, d, r)
  BY <1>2 DEF Routed
<1>7. QED
  BY <1>2, <1>3, <1>5, <1>6 DEF NearTo, Above

LEMMA PlacedAlike ==
    ASSUME NEW b, NEW c, b.at = c.at
    PROVE  /\ Origin(b) = Origin(c) /\ NsOf(b) = NsOf(c) /\ SaOf(b) = SaOf(c)
           /\ NearTo(b) = NearTo(c) /\ Above(b) = Above(c)
           /\ b.kind = c.kind /\ b.name = c.name => \A x : ReplicasIn(b, x) = ReplicasIn(c, x)
           /\ b.ingresses = c.ingresses => \A d, r : Routed(b, d, r) = Routed(c, d, r)
BY DEF Origin, NsOf, SaOf, NearTo, Above, DefaultsNear, ReplicasIn, Routed

\* What defaults, an environment file and an entry give to a block.
LEMMA DefaultsGive ==
    ASSUME NEW S, AllWhole(S), NEW d, NEW c \in ApplyIngressDefaults(S, d)
    PROVE  \E b \in S :
               /\ c.at = b.at /\ c.kind = b.kind /\ c.name = b.name /\ c.ns = b.ns /\ c.sa = b.sa
               /\ c.replicas = b.replicas /\ DOMAIN c.ingresses = DOMAIN b.ingresses
               /\ \A i \in DOMAIN b.ingresses : c.ingresses[i] = WithDefaults(b.ingresses[i], d)
<1>1. PICK b \in S : c = [b EXCEPT !.ingresses = [i \in DOMAIN @ |-> WithDefaults(@[i], d)]]
  BY DEF ApplyIngressDefaults
<1>2. DOMAIN b = DOMAIN Blank
  BY DEF AllWhole, Whole, BlockOK
<1>3. {"at", "kind", "name", "ns", "sa", "replicas", "ingresses"} \subseteq DOMAIN b
  BY <1>2 DEF Blank
<1>4. QED
  BY <1>1, <1>3

LEMMA OverridesGive ==
    ASSUME NEW S, AllWhole(S), NEW replicas, NEW c \in ApplyOverrides(S, replicas)
    PROVE  \E b \in S :
               /\ c.at = b.at /\ c.kind = b.kind /\ c.name = b.name /\ c.ns = b.ns /\ c.sa = b.sa
               /\ c.ingresses = b.ingresses
               /\ c.replicas = IF b.kind \in {"deployment", "statefulset"} /\ b.name \in DOMAIN replicas
                               THEN replicas[b.name] ELSE b.replicas
<1>1. PICK b \in S : c = IF b.kind \in {"deployment", "statefulset"} /\ b.name \in DOMAIN replicas
                         THEN [b EXCEPT !.replicas = replicas[b.name]] ELSE b
  BY DEF ApplyOverrides
<1>2. DOMAIN b = DOMAIN Blank
  BY DEF AllWhole, Whole, BlockOK
<1>3. {"at", "kind", "name", "ns", "sa", "replicas", "ingresses"} \subseteq DOMAIN b
  BY <1>2 DEF Blank
<1>4. QED
  BY <1>1, <1>3

LEMMA InjectionGives ==
    ASSUME NEW b, Whole(b), NEW e
    PROVE  LET c == Injected(b, e)
           IN  /\ c.at = b.at /\ c.kind = b.kind /\ c.name = b.name
               /\ c.ingresses = b.ingresses /\ c.replicas = b.replicas
               /\ c.ns = IF b.kind \in NamespacedKinds THEN OwnOr(b.ns, e.ns) ELSE b.ns
               /\ c.sa = IF b.kind \in WorkloadKinds THEN OwnOr(b.sa, e.sa) ELSE b.sa
<1> DEFINE m == InjectNamespace(b, e.ns)
           c == Injected(b, e)
<1>1. {"at", "kind", "name", "ns", "sa", "replicas", "ingresses"} \subseteq DOMAIN b
  BY DEF Whole, BlockOK, Blank
<1>2. /\ DOMAIN m = DOMAIN b /\ \A x \in DOMAIN b \ {"ns"} : m[x] = b[x]
      /\ m.ns = IF b.kind \in NamespacedKinds THEN OwnOr(b.ns, e.ns) ELSE b.ns
  BY <1>1 DEF InjectNamespace, OwnOr
<1>3. c = IF m.kind \in WorkloadKinds /\ m.sa = None THEN [m EXCEPT !.sa = e.sa] ELSE m
  BY DEF Injected, InjectServiceAccount
<1> HIDE DEF m, c
<1>4. \A x \in {"at", "kind", "name", "sa", "replicas", "ingresses"} : m[x] = b[x]
  BY <1>1, <1>2
<1>5. /\ \A x \in DOMAIN b \ {"sa"} : c[x] = m[x]
      /\ c.sa = IF b.kind \in WorkloadKinds THEN OwnOr(b.sa, e.sa) ELSE b.sa
  BY <1>1, <1>2, <1>3, <1>4 DEF OwnOr
<1>6. \A x \in {"at", "kind", "name", "ns", "replicas", "ingresses"} : c[x] = m[x]
  BY <1>1, <1>5
<1>7. QED
  BY <1>2, <1>4, <1>5, <1>6 DEF c
LEMMA FilledNext ==
    ASSUME NEW j, NEW i, DOMAIN j = DOMAIN BlankIngress, NEW d, NEW n
    PROVE  /\ FilledFrom(j, i, None, None) => FilledFrom(WithDefaults(j, d), i, d, None)
           /\ FilledFrom(j, i, n, None) => FilledFrom(WithDefaults(j, d), i, n, d)
<1> DEFINE k == WithDefaults(j, d)
<1>1. {"tls", "secret", "class"} \subseteq DOMAIN j
  BY DEF BlankIngress
<1>2. k.secret = OwnOr(j.secret, SecretOf(d)) /\ k.class = OwnOr(j.class, ClassOf(d))
  BY <1>1 DEF WithDefaults, OwnOr, SecretOf, ClassOf
<1>3. FilledFrom(j, i, n, None) => k.tls = (i.tls \/ TlsOf(n) \/ TlsOf(d))
  BY <1>1 DEF WithDefaults, TlsOf, FilledFrom
<1>4. FilledFrom(j, i, None, None) => k.tls = (i.tls \/ TlsOf(d) \/ TlsOf(None))
  BY <1>1 DEF WithDefaults, TlsOf, FilledFrom
<1> HIDE DEF k
<1>5. SecretOf(None) = None /\ ClassOf(None) = None
  BY DEF SecretOf, ClassOf
<1>6. FilledFrom(j, i, None, None) => FilledFrom(k, i, d, None)
  BY <1>2, <1>4, <1>5 DEF FilledFrom, OwnOr
<1>7. FilledFrom(j, i, n, None) => FilledFrom(k, i, n, d)
  BY <1>2, <1>3, <1>5 DEF FilledFrom, OwnOr
<1>8. QED
  BY <1>6, <1>7 DEF k

\* Defaults that are applied are those that count.
LEMMA RoutedNext ==
    ASSUME NEW b, Whole(b), NEW c, c.at = b.at, NEW d, NEW n,
           DOMAIN c.ingresses = DOMAIN b.ingresses,
           \A i \in DOMAIN b.ingresses : c.ingresses[i] = WithDefaults(b.ingresses[i], d)
    PROVE  /\ Routed(b, None, None) => Routed(c, d, None)
           /\ Routed(b, n, None) => Routed(c, n, d)
<1>1. \A i \in DOMAIN b.ingresses : DOMAIN b.ingresses[i] = DOMAIN BlankIngress
  BY DEF Whole, BlockOK
<1>2. Origin(c) = Origin(b)
  BY PlacedAlike
<1>3. QED
  BY <1>1, <1>2, FilledNext DEF Routed

\* A block as its file has it.
LEMMA ParsedAsFiled ==
    ASSUME LoadInv, phase = "parse",
           NEW b \in FileBlocks(Files(entry)[file], Context(entry, overrides), <<entry, file>>),
           \A i \in DOMAIN Files(entry)[file] : ItemOK(Files(entry)[file][i])
    PROVE  /\ b.kind = Origin(b).kind /\ b.ns = Origin(b).ns /\ b.sa = Origin(b).sa
           /\ Routed(b, None, None) /\ b.replicas = Origin(b).replicas
<1> DEFINE items == Files(entry)[file]
           ctx   == Context(entry, overrides)
<1>1. b \in FileBlocks(items, ctx, <<entry, file>>)
  OBVIOUS
<1> HIDE DEF items, ctx
<1>2. PICK i \in DOMAIN items : \E p \in DOMAIN items[i].blocks : \E k \in DOMAIN ElementsFor(items[i], ctx) :
          b = Parsed(items[i].blocks[p], ElementsFor(items[i], ctx)[k], <<entry, file, i, p, k>>)
  BY <1>1, FileBlock
<1>3. PICK p \in DOMAIN items[i].blocks : \E k \in DOMAIN ElementsFor(items[i], ctx) :
          b = Parsed(items[i].blocks[p], ElementsFor(items[i], ctx)[k], <<entry, file, i, p, k>>)
  BY <1>2
<1>4. PICK k \in DOMAIN ElementsFor(items[i], ctx) :
          b = Parsed(items[i].blocks[p], ElementsFor(items[i], ctx)[k], <<entry, file, i, p, k>>)
  BY <1>3
<1> DEFINE own == items[i].blocks[p]
           place == <<entry, file, i, p, k>>
           element == ElementsFor(items[i], ctx)[k]
<1>5. BlockOK(own)
  BY DEF ItemOK, items
<1>6. b = Parsed(own, element, place) /\ place[1] = entry /\ place[2] = file /\ place[3] = i /\ place[4] = p
  BY <1>4
<1>7. own = Files(place[1])[place[2]][place[3]].blocks[place[4]]
  BY <1>6 DEF items
<1> HIDE DEF own, place, element
<1>8. b.at = place /\ \A x \in DOMAIN Blank \ {"name", "at"} : b[x] = own[x]
  BY <1>5, <1>6, ParsedFields DEF BlockOK
<1>9. Origin(b) = own
  BY <1>8, <1>7 DEF Origin
<1>10. {"kind", "ns", "sa", "ingresses", "replicas"} \subseteq DOMAIN Blank \ {"name", "at"}
  BY DEF Blank
<1>11. /\ b.kind = own.kind /\ b.ns = own.ns /\ b.sa = own.sa /\ b.ingresses = own.ingresses
      /\ b.replicas = own.replicas
  BY <1>8, <1>10
<1>12. \A j \in DOMAIN own.ingresses : FilledFrom(own.ingresses[j], own.ingresses[j], None, None)
  BY <1>5 DEF BlockOK, FilledFrom, OwnOr, SecretOf, ClassOf, TlsOf
<1>13. Routed(b, None, None)
  BY <1>9, <1>11, <1>12 DEF Routed
<1>14. QED
  BY <1>9, <1>11, <1>13

LEMMA EnvIsDocumented ==
    ASSUME LoadInv, ~(Rooted /\ entry = 0)
    PROVE  EnvOf(entry) = DocumentedEnv(entry)
BY FirstOfThree DEF EnvOf, DocumentedEnv

(***************************************************************************)
(* The steps of the load complete the blocks.                              *)
(***************************************************************************)
LEMMA CompleteInit == Init => LoadingCompleted /\ MergedCompleted
BY DEF Init, LoadingCompleted, MergedCompleted

LEMMA CompleteStays ==
    ASSUME LoadingCompleted, MergedCompleted, UNCHANGED <<project, loading, merged>>,
           phase' \in {phase, "failed"}
    PROVE  LoadingCompleted' /\ MergedCompleted'
BY SameCompletion DEF LoadingCompleted, MergedCompleted

\* Steps that move on without touching a block.
LEMMA CompleteMoves ==
    LoadInv /\ LoadingCompleted /\ MergedCompleted
        /\ (Start \/ ValidateIngresses \/ NextEntry \/ FinishRoot)
    => LoadingCompleted' /\ MergedCompleted'
<1> SUFFICES ASSUME LoadInv, LoadingCompleted, MergedCompleted,
                    Start \/ ValidateIngresses \/ NextEntry \/ FinishRoot
             PROVE  LoadingCompleted' /\ MergedCompleted'
  OBVIOUS
<1>1. project' = project /\ loading' = loading /\ merged' = merged
  BY DEF Start, ValidateIngresses, NextEntry, FinishRoot
<1>2. CASE Start \/ NextEntry
  <2>1. phase \in {"start", "next"} /\ phase' = "parse" /\ loading = {}
    BY <1>2 DEF LoadInv, Emptied, Start, NextEntry
  <2>2. QED
    BY <1>1, <2>1, SameCompletion DEF LoadingCompleted, MergedCompleted
<1>3. CASE ValidateIngresses
  <2>1. phase = "validate" /\ phase' = "override"
    BY <1>3 DEF ValidateIngresses
  <2>2. QED
    BY <1>1, <2>1, SameCompletion DEF LoadingCompleted, MergedCompleted
<1>4. CASE FinishRoot
  <2>1. phase = "check" /\ phase' = "done" /\ loading = {}
    BY <1>4 DEF LoadInv, Emptied, FinishRoot
  <2>2. QED
    BY <1>1, <2>1, SameCompletion DEF LoadingCompleted, MergedCompleted
<1>5. QED
  BY <1>2, <1>3, <1>4

LEMMA CompleteFile ==
    LoadInv /\ LoadingCompleted /\ MergedCompleted /\ ParseFile => LoadingCompleted' /\ MergedCompleted'
<1> SUFFICES ASSUME LoadInv, LoadingCompleted, MergedCompleted, ParseFile
             PROVE  LoadingCompleted' /\ MergedCompleted'
  OBVIOUS
<1> DEFINE S == FileBlocks(Files(entry)[file], Context(entry, overrides), <<entry, file>>)
<1>1. /\ phase = "parse" /\ phase' = phase /\ project' = project /\ merged' = merged
      /\ loading' = loading \cup S /\ file <= Len(Files(entry))
  BY DEF ParseFile, Files
<1>2. /\ Lists(Files(entry)) /\ file \in Nat \ {0}
      /\ \A f \in DOMAIN Files(entry) : \A i \in DOMAIN Files(entry)[f] : ItemOK(Files(entry)[f][i])
  BY DirectoryIsOK DEF DirectoryOK, Files, LoadInv, Typed
<1>3. file \in DOMAIN Files(entry)
  BY <1>1, <1>2 DEF Lists
<1>4. \A b \in S : /\ b.kind = Origin(b).kind /\ b.ns = Origin(b).ns /\ b.sa = Origin(b).sa
                   /\ Routed(b, None, None) /\ b.replicas = Origin(b).replicas
  BY <1>1, <1>2, <1>3, ParsedAsFiled
<1> HIDE DEF S
<1>5. LoadingCompleted'
  BY <1>1, <1>4, SameCompletion DEF LoadingCompleted
<1>6. MergedCompleted'
  BY <1>1, SameCompletion DEF MergedCompleted
<1>7. QED
  BY <1>5, <1>6
LEMMA CompleteRootFiles ==
    LoadInv /\ LoadingCompleted /\ FinishRootFiles => LoadingCompleted' /\ MergedCompleted'
<1> SUFFICES ASSUME LoadInv, LoadingCompleted, FinishRootFiles
             PROVE  LoadingCompleted' /\ MergedCompleted'
  OBVIOUS
<1>1. /\ project' = project /\ merged' = loading /\ loading' = {} /\ phase = "parse" /\ phase' = "next"
      /\ Rooted /\ entry = 0
  BY DEF FinishRootFiles
<1>2. ASSUME NEW b \in loading
      PROVE  /\ b.kind = Origin(b).kind
             /\ b.ns = OwnOr(Origin(b).ns, NsOf(b)) /\ b.sa = OwnOr(Origin(b).sa, SaOf(b))
             /\ Routed(b, NearTo(b), None) /\ b.replicas = ReplicasIn(b, Origin(b).replicas)
  <2>1. b.at[1] = 0
    BY <1>1 DEF LoadInv, Placed
  <2>2. NsOf(b) = None /\ SaOf(b) = None /\ NearTo(b) = None
    BY <1>1, <2>1 DEF NsOf, SaOf, NearTo, DefaultsNear
  <2>3. ReplicasIn(b, Origin(b).replicas) = Origin(b).replicas
    BY <1>1, <2>1 DEF ReplicasIn
  <2>4. QED
    BY <1>1, <2>2, <2>3 DEF LoadingCompleted, OwnOr
<1>3. QED
  BY <1>1, <1>2, SameCompletion DEF LoadingCompleted, MergedCompleted

LEMMA CompleteFiles ==
    LoadInv /\ LoadingCompleted /\ MergedCompleted /\ FinishFiles => LoadingCompleted' /\ MergedCompleted'
<1> SUFFICES ASSUME LoadInv, LoadingCompleted, MergedCompleted, FinishFiles
             PROVE  LoadingCompleted' /\ MergedCompleted'
  OBVIOUS
<1> DEFINE d == Directory(entry).defaults
           T == ApplyIngressDefaults(loading, d)
<1>1. /\ project' = project /\ merged' = merged /\ loading' = T /\ phase = "parse" /\ phase' = "validate"
      /\ ~(Rooted /\ entry = 0) /\ AllWhole(loading)
  BY DEF FinishFiles, LoadInv, Typed
<1> HIDE DEF d
<1>2. ASSUME NEW c \in T
      PROVE  /\ c.kind = Origin(c).kind /\ c.ns = Origin(c).ns /\ c.sa = Origin(c).sa
             /\ Routed(c, NearTo(c), None) /\ c.replicas = Origin(c).replicas
  <2>1. PICK b \in loading :
               /\ c.at = b.at /\ c.kind = b.kind /\ c.name = b.name /\ c.ns = b.ns /\ c.sa = b.sa
               /\ c.replicas = b.replicas /\ DOMAIN c.ingresses = DOMAIN b.ingresses
               /\ \A i \in DOMAIN b.ingresses : c.ingresses[i] = WithDefaults(b.ingresses[i], d)
    BY <1>1, DefaultsGive
  <2>2. /\ b.kind = Origin(b).kind /\ b.ns = Origin(b).ns /\ b.sa = Origin(b).sa
        /\ Routed(b, None, None) /\ b.replicas = Origin(b).replicas
    BY <1>1 DEF LoadingCompleted
  <2>3. Whole(b) /\ b.at[1] = entry
    BY <1>1 DEF AllWhole, LoadInv, Placed
  <2>4. Origin(c) = Origin(b)
    BY <2>1, PlacedAlike
  <2>5. NearTo(c) = d
    BY <1>1, <2>1, <2>3 DEF NearTo, DefaultsNear, d
  <2>6. Routed(c, d, None)
    BY <2>1, <2>2, <2>3, RoutedNext
  <2>7. QED
    BY <2>1, <2>2, <2>4, <2>5, <2>6
<1> HIDE DEF T
<1>3. LoadingCompleted'
  BY <1>1, <1>2, SameCompletion DEF LoadingCompleted
<1>4. MergedCompleted'
  BY <1>1, SameCompletion DEF MergedCompleted
<1>5. QED
  BY <1>3, <1>4

LEMMA CompleteEnvironment ==
    LoadInv /\ LoadingCompleted /\ MergedCompleted /\ ApplyEnvironment => LoadingCompleted' /\ MergedCompleted'
<1> SUFFICES ASSUME LoadInv, LoadingCompleted, MergedCompleted, ApplyEnvironment
             PROVE  LoadingCompleted' /\ MergedCompleted'
  OBVIOUS
<1> DEFINE f == EnvFile(entry)
<1>1. /\ project' = project /\ merged' = merged /\ phase = "override" /\ phase' \in {"join", "complete"}
      /\ ~(Rooted /\ entry = 0) /\ AllWhole(loading)
      /\ loading' = IF f = None THEN loading ELSE ApplyOverrides(loading, f.replicas)
  BY DEF ApplyEnvironment, LoadInv, Typed, InEntry
<1>2. f = IF DocumentedEnv(entry) = None THEN None ELSE Directory(entry).env[DocumentedEnv(entry)]
  BY <1>1, EnvIsDocumented DEF EnvFile
<1> HIDE DEF f
<1>3. ASSUME NEW b \in loading, NEW x
      PROVE  ReplicasIn(b, x) = IF f # None /\ b.kind \in {"deployment", "statefulset"}
                                   /\ b.name \in DOMAIN f.replicas
                                THEN f.replicas[b.name] ELSE x
  <2>1. b.at[1] = entry
    BY DEF LoadInv, Placed
  <2>2. QED
    BY <1>1, <1>2, <2>1 DEF ReplicasIn
<1>4. ASSUME NEW c \in loading'
      PROVE  /\ c.kind = Origin(c).kind /\ c.ns = Origin(c).ns /\ c.sa = Origin(c).sa
             /\ Routed(c, NearTo(c), None) /\ c.replicas = ReplicasIn(c, Origin(c).replicas)
  <2>1. CASE f = None
    <3>1. c \in loading /\ ReplicasIn(c, Origin(c).replicas) = Origin(c).replicas
      BY <1>1, <1>3, <2>1
    <3>2. QED
      BY <1>1, <3>1 DEF LoadingCompleted
  <2>2. CASE f # None
    <3>1. PICK b \in loading :
               /\ c.at = b.at /\ c.kind = b.kind /\ c.name = b.name /\ c.ns = b.ns /\ c.sa = b.sa
               /\ c.ingresses = b.ingresses
               /\ c.replicas = IF b.kind \in {"deployment", "statefulset"} /\ b.name \in DOMAIN f.replicas
                               THEN f.replicas[b.name] ELSE b.replicas
      BY <1>1, <2>2, OverridesGive
    <3>2. /\ b.kind = Origin(b).kind /\ b.ns = Origin(b).ns /\ b.sa = Origin(b).sa
          /\ Routed(b, NearTo(b), None) /\ b.replicas = Origin(b).replicas
      BY <1>1 DEF LoadingCompleted
    <3>3. c.replicas = ReplicasIn(b, Origin(b).replicas)
      BY <1>3, <2>2, <3>1, <3>2
    <3>4. /\ Origin(c) = Origin(b) /\ NearTo(c) = NearTo(b)
          /\ \A x : ReplicasIn(b, x) = ReplicasIn(c, x)
          /\ \A d, r : Routed(b, d, r) = Routed(c, d, r)
      BY <3>1, PlacedAlike
    <3>5. QED
      BY <3>1, <3>2, <3>3, <3>4
  <2>3. QED
    BY <2>1, <2>2
<1>5. LoadingCompleted'
  BY <1>1, <1>4, SameCompletion DEF LoadingCompleted
<1>6. MergedCompleted'
  BY <1>1, SameCompletion DEF MergedCompleted
<1>7. QED
  BY <1>5, <1>6

LEMMA CompleteSingle ==
    LoadInv /\ LoadingCompleted /\ FinishSingle => LoadingCompleted' /\ MergedCompleted'
<1> SUFFICES ASSUME LoadInv, LoadingCompleted, FinishSingle PROVE LoadingCompleted' /\ MergedCompleted'
  OBVIOUS
<1>1. /\ project' = project /\ merged' = loading /\ loading' = {} /\ phase = "complete" /\ phase' = "done"
      /\ ~Rooted
  BY DEF FinishSingle
<1>2. \A b : NsOf(b) = None /\ SaOf(b) = None /\ Above(b) = None
  BY <1>1 DEF NsOf, SaOf, Above, DefaultsNear
<1>3. \A b \in loading :
          /\ b.kind = Origin(b).kind
          /\ b.ns = OwnOr(Origin(b).ns, NsOf(b)) /\ b.sa = OwnOr(Origin(b).sa, SaOf(b))
          /\ Routed(b, NearTo(b), Above(b)) /\ b.replicas = ReplicasIn(b, Origin(b).replicas)
  BY <1>1, <1>2 DEF LoadingCompleted, OwnOr
<1>4. QED
  BY <1>1, <1>3, SameCompletion DEF LoadingCompleted, MergedCompleted

LEMMA CompleteJoin ==
    LoadInv /\ LoadingCompleted /\ MergedCompleted /\ JoinEntry => LoadingCompleted' /\ MergedCompleted'
<1> SUFFICES ASSUME LoadInv, LoadingCompleted, MergedCompleted, JoinEntry
             PROVE  LoadingCompleted' /\ MergedCompleted'
  OBVIOUS
<1> DEFINE e == Entries[entry]
           T == {Injected(b, e) : b \in loading}
<1>1. /\ project' = project /\ merged' = merged \cup T /\ loading' = {} /\ phase = "join" /\ phase' = "next"
      /\ Rooted /\ entry # 0 /\ entry \in Nat /\ AllWhole(loading)
  BY DEF JoinEntry, LoadInv, Typed, InEntry
<1>2. ASSUME NEW c \in T
      PROVE  /\ c.kind = Origin(c).kind
             /\ c.kind \in NamespacedKinds => c.ns = OwnOr(Origin(c).ns, NsOf(c))
             /\ c.kind \in WorkloadKinds => c.sa = OwnOr(Origin(c).sa, SaOf(c))
             /\ Routed(c, NearTo(c), None) /\ c.replicas = ReplicasIn(c, Origin(c).replicas)
  <2>1. PICK b \in loading : c = Injected(b, e)
    OBVIOUS
  <2>2. Whole(b) /\ b.at[1] = entry
    BY <1>1 DEF AllWhole, LoadInv, Placed
  <2>3. /\ c.at = b.at /\ c.kind = b.kind /\ c.name = b.name
        /\ c.ingresses = b.ingresses /\ c.replicas = b.replicas
        /\ c.ns = IF b.kind \in NamespacedKinds THEN OwnOr(b.ns, e.ns) ELSE b.ns
        /\ c.sa = IF b.kind \in WorkloadKinds THEN OwnOr(b.sa, e.sa) ELSE b.sa
    BY <2>1, <2>2, InjectionGives
  <2>4. /\ b.kind = Origin(b).kind /\ b.ns = Origin(b).ns /\ b.sa = Origin(b).sa
        /\ Routed(b, NearTo(b), None) /\ b.replicas = ReplicasIn(b, Origin(b).replicas)
    BY <1>1 DEF LoadingCompleted
  <2>5. NsOf(b) = e.ns /\ SaOf(b) = e.sa
    BY <1>1, <2>2 DEF NsOf, SaOf
  <2>6. /\ Origin(c) = Origin(b) /\ NearTo(c) = NearTo(b) /\ NsOf(c) = NsOf(b) /\ SaOf(c) = SaOf(b)
        /\ \A x : ReplicasIn(b, x) = ReplicasIn(c, x)
        /\ \A d, r : Routed(b, d, r) = Routed(c, d, r)
    BY <2>3, PlacedAlike
  <2> HIDE DEF e
  <2>7. QED
    BY <2>3, <2>4, <2>5, <2>6
<1> HIDE DEF T
<1>3. MergedCompleted'
  BY <1>1, <1>2, SameCompletion DEF MergedCompleted
<1>4. QED
  BY <1>1, <1>3 DEF LoadingCompleted

LEMMA CompleteCheck ==
    LoadInv /\ LoadingCompleted /\ MergedCompleted /\ CheckMerged => LoadingCompleted' /\ MergedCompleted'
<1> SUFFICES ASSUME LoadInv, LoadingCompleted, MergedCompleted, CheckMerged
             PROVE  LoadingCompleted' /\ MergedCompleted'
  OBVIOUS
<1> DEFINE d == project.root.defaults
           T == ApplyIngressDefaults(merged, d)
<1>1. /\ project' = project /\ merged' = T /\ loading' = {} /\ phase = "next" /\ phase' = "check"
      /\ Rooted /\ AllWhole(merged)
  BY DEF CheckMerged, LoadInv, Typed, InEntry, Emptied
<1>2. \A b : Above(b) = d
  BY <1>1 DEF Above, DefaultsNear
<1> HIDE DEF d
<1>3. ASSUME NEW c \in T
      PROVE  /\ c.kind = Origin(c).kind
             /\ c.kind \in NamespacedKinds => c.ns = OwnOr(Origin(c).ns, NsOf(c))
             /\ c.kind \in WorkloadKinds => c.sa = OwnOr(Origin(c).sa, SaOf(c))
             /\ Routed(c, NearTo(c), Above(c)) /\ c.replicas = ReplicasIn(c, Origin(c).replicas)
  <2>1. PICK b \in merged :
               /\ c.at = b.at /\ c.kind = b.kind /\ c.name = b.name /\ c.ns = b.ns /\ c.sa = b.sa
               /\ c.replicas = b.replicas /\ DOMAIN c.ingresses = DOMAIN b.ingresses
               /\ \A i \in DOMAIN b.ingresses : c.ingresses[i] = WithDefaults(b.ingresses[i], d)
    BY <1>1, DefaultsGive
  <2>2. /\ b.kind = Origin(b).kind
        /\ b.kind \in NamespacedKinds => b.ns = OwnOr(Origin(b).ns, NsOf(b))
        /\ b.kind \in WorkloadKinds => b.sa = OwnOr(Origin(b).sa, SaOf(b))
        /\ Routed(b, NearTo(b), None) /\ b.replicas = ReplicasIn(b, Origin(b).replicas)
    BY <1>1 DEF MergedCompleted
  <2>3. /\ Origin(c) = Origin(b) /\ NearTo(c) = NearTo(b) /\ NsOf(c) = NsOf(b) /\ SaOf(c) = SaOf(b)
        /\ \A x : ReplicasIn(b, x) = ReplicasIn(c, x)
    BY <2>1, PlacedAlike
  <2>4. Routed(c, NearTo(b), d)
    BY <1>1, <2>1, <2>2, RoutedNext DEF AllWhole
  <2>5. QED
    BY <1>2, <2>1, <2>2, <2>3, <2>4
<1> HIDE DEF T
<1>4. MergedCompleted'
  BY <1>1, <1>3, SameCompletion DEF MergedCompleted
<1>5. QED
  BY <1>1, <1>4 DEF LoadingCompleted

LEMMA NextCompletes ==
    IInv /\ LoadingCompleted /\ MergedCompleted /\ [RenderNext]_allVars => LoadingCompleted' /\ MergedCompleted'
<1> SUFFICES ASSUME IInv, LoadingCompleted, MergedCompleted, [RenderNext]_allVars
             PROVE  LoadingCompleted' /\ MergedCompleted'
  OBVIOUS
<1>1. LoadInv
  BY DEF IInv
<1>2. CASE Load
  <2>1. CASE \/ Start \/ ParseFile \/ FinishRootFiles \/ FinishFiles \/ ValidateIngresses
             \/ ApplyEnvironment \/ NextEntry \/ JoinEntry \/ CheckMerged \/ FinishRoot \/ FinishSingle
    BY <1>1, <2>1, CompleteMoves, CompleteFile, CompleteRootFiles, CompleteFiles, CompleteEnvironment,
       CompleteSingle, CompleteJoin, CompleteCheck
  <2>2. CASE Fail
    BY <2>2, CompleteStays DEF Fail
  <2>3. QED
    BY <1>2, <2>1, <2>2 DEF Load, LoadStep, RootRefused, FileRefused, DuplicateInDirectory, IngressRefused,
         EnvironmentRefused, DirectoryMissing, MergedRefused, MergedIngressRefused
<1>3. CASE UNCHANGED vars
  BY <1>3, CompleteStays DEF vars
<1>4. QED
  BY <1>2, <1>3 DEF RenderNext, NothingToRender, BeginGenerate, GenerateNextAccount, GenerateRest, Write,
                    RenderEnd, allVars

\* Each block of a load that succeeds, whatever the project, has what it says
\* itself, else what the nearest of its entry, its directory and root.kdef says,
\* although each of them is applied at another point of the load.
THEOREM Completion == RenderSpec => []CompletedByTheNearest
<1>1. IInv /\ MergedCompleted => CompletedByTheNearest
  <2> SUFFICES ASSUME IInv, MergedCompleted, phase = "done", NEW b \in merged
               PROVE
            LET own  == Origin(b)
                near == DefaultsNear(b)
                of(i, field(_)) ==
                    First(<<field(own.ingresses[i]), Said(near[1], field), Said(near[2], field)>>)
            IN  /\ b.kind \in NamespacedKinds =>
                      b.ns = First(<<own.ns, FromEntry(b, LAMBDA e : e.ns)>>)
                /\ b.kind \in WorkloadKinds =>
                      b.sa = First(<<own.sa, FromEntry(b, LAMBDA e : e.sa)>>)
                /\ b.replicas = ReplicasIn(b, own.replicas)
                /\ \A i \in DOMAIN own.ingresses :
                      /\ b.ingresses[i].secret = of(i, LAMBDA d : d.secret)
                      /\ b.ingresses[i].class = of(i, LAMBDA d : d.class)
                      /\ b.ingresses[i].tls =
                            (own.ingresses[i].tls \/ \E k \in 1..2 : near[k] # None /\ near[k].tls = TRUE)
    BY DEF CompletedByTheNearest
  <2> DEFINE own == Origin(b)
             near == DefaultsNear(b)
  <2>1. /\ b.kind \in NamespacedKinds => b.ns = OwnOr(own.ns, NsOf(b))
        /\ b.kind \in WorkloadKinds => b.sa = OwnOr(own.sa, SaOf(b))
        /\ Routed(b, near[1], near[2]) /\ b.replicas = ReplicasIn(b, own.replicas)
    BY DEF MergedCompleted, NearTo, Above
  <2>2. NsOf(b) = FromEntry(b, LAMBDA e : e.ns) /\ SaOf(b) = FromEntry(b, LAMBDA e : e.sa)
    BY DEF NsOf, SaOf, FromEntry
  <2>3. \A i \in DOMAIN own.ingresses : FilledFrom(b.ingresses[i], own.ingresses[i], near[1], near[2])
    BY <2>1 DEF Routed
  <2>4. \A d : SecretOf(d) = Said(d, LAMBDA x : x.secret) /\ ClassOf(d) = Said(d, LAMBDA x : x.class)
    BY DEF SecretOf, ClassOf, Said
  <2> HIDE DEF own, near
  <2>5. \A i \in DOMAIN own.ingresses :
            /\ b.ingresses[i].secret = First(<<own.ingresses[i].secret, SecretOf(near[1]), SecretOf(near[2])>>)
            /\ b.ingresses[i].class = First(<<own.ingresses[i].class, ClassOf(near[1]), ClassOf(near[2])>>)
    BY <2>3, FirstOfThree DEF FilledFrom, OwnOr
  <2>6. \A i \in DOMAIN own.ingresses :
            b.ingresses[i].tls = (own.ingresses[i].tls \/ \E k \in 1..2 : near[k] # None /\ near[k].tls = TRUE)
    BY <2>3 DEF FilledFrom, TlsOf
  <2>7. /\ b.kind \in NamespacedKinds => b.ns = First(<<own.ns, NsOf(b)>>)
        /\ b.kind \in WorkloadKinds => b.sa = First(<<own.sa, SaOf(b)>>)
    BY <2>1, FirstOfTwo DEF OwnOr
  <2>8. QED
    BY <2>1, <2>2, <2>4, <2>5, <2>6, <2>7 DEF own, near
<1>2. RenderInit => LoadingCompleted /\ MergedCompleted
  BY CompleteInit DEF RenderInit
<1>3. QED
  BY <1>1, <1>2, Inductive, NextCompletes, PTL DEF RenderSpec
=============================================================================
