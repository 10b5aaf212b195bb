------------------------ MODULE KdefGenerate_proofs ------------------------
(***************************************************************************)
(* Lemmas about the generator: what the objects of a block are, which keys *)
(* they are filed under, and the order of the output.                      *)
(***************************************************************************)
EXTENDS KdefGenerate, KdefSequences_proofs, FiniteSetTheorems

(***************************************************************************)
(* The order of names.                                                     *)
(***************************************************************************)
\* The first place at which two names differ.
Differ(s, t) == {i \in Nat \ {0} : i > Len(s) \/ i > Len(t) \/ s[i] # t[i]}

LEMMA IndexFinds ==
    ASSUME DOMAIN Alphabet \subseteq Nat, NEW part \in {Alphabet[i] : i \in DOMAIN Alphabet}
    PROVE  Index(part) \in Nat /\ Alphabet[Index(part)] = part
<1>1. \E i \in DOMAIN Alphabet : Alphabet[i] = part
  OBVIOUS
<1>2. Index(part) \in DOMAIN Alphabet /\ Alphabet[Index(part)] = part
  BY <1>1 DEF Index
<1>3. QED
  BY <1>2

LEMMA PartsHaveIndices ==
    ASSUME DOMAIN Alphabet \subseteq Nat, NEW s \in Name, NEW i \in 1..Len(s)
    PROVE  Index(s[i]) \in Nat /\ Alphabet[Index(s[i])] = s[i]
<1>1. s[i] \in {Alphabet[j] : j \in DOMAIN Alphabet}
  BY DEF Name
<1>2. QED
  BY <1>1, IndexFinds

LEMMA NamesDiffer ==
    ASSUME NEW s \in Name, NEW t \in Name, s # t
    PROVE  \E d \in Differ(s, t) :
              /\ \A j \in Differ(s, t) : d <= j
              /\ d <= Len(s) \/ d <= Len(t)
<1>1. Len(s) \in Nat /\ Len(t) \in Nat
  BY DEF Name
<1>2. Differ(s, t) \subseteq Nat /\ Len(s) + 1 \in Differ(s, t) /\ Len(t) + 1 \in Differ(s, t)
  BY <1>1 DEF Differ
<1>3. PICK d \in Differ(s, t) : \A j \in Differ(s, t) : d <= j
  BY <1>2, LeastNatural
<1>4. ASSUME d > Len(s), d > Len(t)
      PROVE  FALSE
  <2>1. Len(s) = Len(t)
    BY <1>1, <1>2, <1>3, <1>4
  <2>2. ASSUME NEW i \in 1..Len(s)
        PROVE  s[i] = t[i]
    <3>1. i \in Nat \ {0} /\ ~(d <= i)
      BY <1>1, <1>2, <1>4
    <3>2. i \notin Differ(s, t)
      BY <1>3, <3>1
    <3>3. QED
      BY <3>1, <3>2 DEF Differ
  <2>3. s = t
    BY <2>1, <2>2, SeqEqual DEF Name
  <2>4. QED
    BY <2>3
<1>5. d <= Len(s) \/ d <= Len(t)
  BY <1>1, <1>2, <1>4
<1>6. QED
  BY <1>3, <1>5

\* What Precedes looks for is the first difference.
LEMMA PrecedesAtFirst ==
    ASSUME NEW s \in Name, NEW t \in Name, DOMAIN Alphabet \subseteq Nat,
           NEW d \in Differ(s, t), \A j \in Differ(s, t) : d <= j
    PROVE  Precedes(s, t) <=> d <= Len(t) /\ (d > Len(s) \/ Index(s[d]) < Index(t[d]))
<1>1. /\ Len(s) \in Nat /\ Len(t) \in Nat /\ DOMAIN s = 1..Len(s) /\ DOMAIN t = 1..Len(t)
      /\ d \in Nat \ {0}
  BY DEF Name, Differ
<1>2. ASSUME NEW j \in 1..(d - 1)
      PROVE  j <= Len(s) /\ j <= Len(t) /\ s[j] = t[j]
  <2>1. j \in Nat \ {0} /\ ~(d <= j)
    BY <1>1
  <2>2. j \notin Differ(s, t)
    BY <2>1
  <2>3. QED
    BY <1>1, <2>1, <2>2 DEF Differ
<1>3. ASSUME d <= Len(t), d > Len(s) \/ Index(s[d]) < Index(t[d])
      PROVE  Precedes(s, t)
  <2>1. d \in DOMAIN t
    BY <1>1, <1>3
  <2>2. \A j \in 1..(d - 1) : j \in DOMAIN s /\ s[j] = t[j]
    BY <1>1, <1>2
  <2>3. QED
    BY <1>3, <2>1, <2>2 DEF Precedes
<1>4. ASSUME Precedes(s, t)
      PROVE  d <= Len(t) /\ (d > Len(s) \/ Index(s[d]) < Index(t[d]))
  <2>1. PICK i \in DOMAIN t :
            /\ \A j \in 1..(i - 1) : j \in DOMAIN s /\ s[j] = t[j]
            /\ i > Len(s) \/ Index(s[i]) < Index(t[i])
    BY <1>4 DEF Precedes
  <2>2. i \in Nat \ {0} /\ i <= Len(t)
    BY <1>1
  <2>3. i \in Differ(s, t)
    <3>1. CASE i > Len(s)
      BY <2>2, <3>1 DEF Differ
    <3>2. CASE ~(i > Len(s))
      <4>1. i \in 1..Len(s) /\ i \in 1..Len(t)
        BY <1>1, <2>2, <3>2
      <4>2. Index(s[i]) \in Nat /\ Index(t[i]) \in Nat /\ Index(s[i]) < Index(t[i])
        BY <2>1, <3>2, <4>1, PartsHaveIndices
      <4>3. s[i] # t[i]
        BY <4>2
      <4>4. QED
        BY <2>2, <4>3 DEF Differ
    <3>3. QED
      BY <3>1, <3>2
  <2>4. ~(d < i)
    <3> SUFFICES ASSUME d < i PROVE FALSE
      OBVIOUS
    <3>1. d \in 1..(i - 1)
      BY <1>1, <2>2
    <3>2. d \in DOMAIN s /\ s[d] = t[d] /\ d <= Len(t)
      BY <1>1, <2>1, <2>2, <3>1
    <3>3. QED
      BY <1>1, <3>2 DEF Differ
  <2>5. d = i
    BY <1>1, <2>2, <2>3, <2>4
  <2>6. QED
    BY <2>1, <2>2, <2>5
<1>5. QED
  BY <1>3, <1>4

\* Of two names one comes first.
LEMMA NamesAreOrdered ==
    ASSUME NEW s \in Name, NEW t \in Name, s # t, DOMAIN Alphabet \subseteq Nat
    PROVE  Precedes(s, t) <=> ~Precedes(t, s)
<1>1. PICK d \in Differ(s, t) : (\A j \in Differ(s, t) : d <= j) /\ (d <= Len(s) \/ d <= Len(t))
  BY NamesDiffer
<1>2. Differ(t, s) = Differ(s, t)
  BY DEF Differ
<1>3. Precedes(s, t) <=> d <= Len(t) /\ (d > Len(s) \/ Index(s[d]) < Index(t[d]))
  BY <1>1, PrecedesAtFirst
<1>4. Precedes(t, s) <=> d <= Len(s) /\ (d > Len(t) \/ Index(t[d]) < Index(s[d]))
  BY <1>1, <1>2, PrecedesAtFirst
<1>5. Len(s) \in Nat /\ Len(t) \in Nat /\ d \in Nat \ {0}
  BY DEF Name, Differ
<1>6. CASE d > Len(s)
  BY <1>1, <1>3, <1>4, <1>5, <1>6
<1>7. CASE d > Len(t)
  BY <1>1, <1>3, <1>4, <1>5, <1>7
<1>8. CASE d <= Len(s) /\ d <= Len(t)
  <2>1. s[d] # t[d] /\ d \in 1..Len(s) /\ d \in 1..Len(t)
    BY <1>5, <1>8 DEF Differ
  <2>2. /\ Index(s[d]) \in Nat /\ Alphabet[Index(s[d])] = s[d]
        /\ Index(t[d]) \in Nat /\ Alphabet[Index(t[d])] = t[d]
    BY <2>1, PartsHaveIndices
  <2>3. Index(s[d]) # Index(t[d])
    BY <2>1, <2>2
  <2>4. Index(s[d]) < Index(t[d]) <=> ~(Index(t[d]) < Index(s[d]))
    BY <2>2, <2>3
  <2>5. QED
    BY <1>3, <1>4, <1>5, <1>8, <2>4
<1>9. QED
  BY <1>5, <1>6, <1>7, <1>8

LEMMA RankIsNatural == \A kind : KindRank(kind) \in Nat
BY DEF KindRank, kindApplyOrder, kindApplyOrderDefault

\* Of two manifests that are filed under different keys one comes first.
LEMMA ManifestsAreOrdered ==
    ASSUME NEW m, NEW n, m.key \in Name, n.key \in Name, m.key # n.key,
           DOMAIN Alphabet \subseteq Nat
    PROVE  Less(m, n) <=> ~Less(n, m)
<1>1. KindRank(m.kind) \in Nat /\ KindRank(n.kind) \in Nat
  BY RankIsNatural
<1>2. Precedes(m.key, n.key) <=> ~Precedes(n.key, m.key)
  BY NamesAreOrdered
<1>3. CASE KindRank(m.kind) = KindRank(n.kind)
  BY <1>1, <1>2, <1>3 DEF Less
<1>4. CASE KindRank(m.kind) # KindRank(n.kind)
  BY <1>1, <1>4 DEF Less
<1>5. QED
  BY <1>3, <1>4
(***************************************************************************)
(* The objects of a block.                                                 *)
(***************************************************************************)
RoutingKinds == {"deployment", "statefulset", "ingress"}

LEMMA ManifestFields ==
    ASSUME NEW key, NEW kind, NEW ns, NEW name, NEW at, NEW spec
    PROVE  LET m == Manifest(key, kind, ns, name, at, spec)
           IN  /\ m.key = key /\ m.kind = kind /\ m.ns = ns /\ m.name = name
               /\ m.at = at /\ m.spec = spec
BY DEF Manifest

\* Kinds of block become kinds of object one for one, and no block becomes
\* what only goes with one or has no block.
LEMMA KindsApart ==
    /\ \A k \in KindsOfBlock \ {"ingress"} :
          ObjectKind[k] \notin {"Service", "HorizontalPodAutoscaler", "Ingress", "HTTPRoute",
                                "Certificate", "Namespace", "ServiceAccount"}
    /\ \A k, l \in KindsOfBlock \ {"ingress"} : ObjectKind[k] = ObjectKind[l] => k = l
BY DEF KindsOfBlock, NamespacedKinds, WorkloadKinds, ServedKinds, ClusterKinds, ObjectKind

MainObject(b) ==
    Manifest(KeyOf(b), ObjectKind[b.kind], IF b.kind \in ClusterKinds THEN None ELSE b.ns,
             b.name, b.at, IF b.kind \in WorkloadKinds THEN Pod(b) ELSE None)

ServiceObject(b) == Manifest(KeyOf(b), "Service", b.ns, ServiceName(b), b.at, Service(b))

AutoscalerObject(b) == Manifest(KeyOf(b), "HorizontalPodAutoscaler", b.ns, b.name, b.at, None)

RouteObject(b, i, mode) ==
    Manifest(KeyOf(b), IF mode = "gateway" THEN "HTTPRoute" ELSE "Ingress",
             b.ns, ResourceName(b, i), b.at, Route(b, i, mode))

CertificateObject(b, i) ==
    Manifest(KeyOf(b), "Certificate", b.ns, CertificateSecretName(b.ingresses[i]), b.at, None)

LEMMA ObjectForms ==
    ASSUME NEW b, NEW mode, NEW m \in Objects(b, mode)
    PROVE  \/ b.kind # "ingress" /\ m = MainObject(b)
           \/ HasService(b) /\ m = ServiceObject(b)
           \/ b.kind = "deployment" /\ m = AutoscalerObject(b)
           \/ b.kind \in RoutingKinds /\ \E i \in DOMAIN b.ingresses : m = RouteObject(b, i, mode)
           \/ /\ b.kind \in RoutingKinds
              /\ \E i \in DOMAIN b.ingresses :
                    CertificateSecretName(b.ingresses[i]) # None /\ m = CertificateObject(b, i)
<1>1. CASE m \in Services(b, KeyOf(b))
  BY <1>1 DEF Services, ServiceObject
<1>2. CASE m \in Autoscalers(b, KeyOf(b))
  BY <1>2 DEF Autoscalers, AutoscalerObject
<1>3. CASE b.kind \in RoutingKinds /\ m \in IngressObjects(b, KeyOf(b), mode)
  <2>1. PICK i \in DOMAIN b.ingresses :
            m \in RoutesFor(b, i, KeyOf(b), mode) \cup CertificatesFor(b, i, KeyOf(b))
    BY <1>3 DEF IngressObjects
  <2>2. CASE m \in RoutesFor(b, i, KeyOf(b), mode)
    <3>1. m = RouteObject(b, i, mode)
      BY <2>2 DEF RoutesFor, RouteObject
    <3>2. QED
      BY <1>3, <3>1
  <2>3. CASE m \in CertificatesFor(b, i, KeyOf(b))
    <3>1. CertificateSecretName(b.ingresses[i]) # None /\ m = CertificateObject(b, i)
      BY <2>3 DEF CertificatesFor, CertificateObject
    <3>2. QED
      BY <1>3, <3>1
  <2>4. QED
    BY <2>1, <2>2, <2>3
<1>4. CASE b.kind # "ingress" /\ m = MainObject(b)
  BY <1>4
<1>5. QED
  BY <1>1, <1>2, <1>3, <1>4 DEF Objects, MainObject, RoutingKinds

LEMMA ObjectFields ==
    /\ \A b : LET m == MainObject(b)
              IN  /\ m.key = KeyOf(b) /\ m.kind = ObjectKind[b.kind] /\ m.name = b.name /\ m.at = b.at
                  /\ m.ns = IF b.kind \in ClusterKinds THEN None ELSE b.ns
                  /\ m.spec = IF b.kind \in WorkloadKinds THEN Pod(b) ELSE None
    /\ \A b : LET m == ServiceObject(b)
              IN  /\ m.key = KeyOf(b) /\ m.kind = "Service" /\ m.ns = b.ns /\ m.name = ServiceName(b)
                  /\ m.at = b.at /\ m.spec = Service(b)
    /\ \A b : LET m == AutoscalerObject(b)
              IN  /\ m.key = KeyOf(b) /\ m.kind = "HorizontalPodAutoscaler" /\ m.ns = b.ns
                  /\ m.name = b.name /\ m.at = b.at
    /\ \A b, i, mode :
          LET m == RouteObject(b, i, mode)
          IN  /\ m.key = KeyOf(b) /\ m.kind \in {"HTTPRoute", "Ingress"} /\ m.ns = b.ns
              /\ m.kind = IF mode = "gateway" THEN "HTTPRoute" ELSE "Ingress"
              /\ m.name = ResourceName(b, i) /\ m.at = b.at /\ m.spec = Route(b, i, mode)
    /\ \A b, i : LET m == CertificateObject(b, i)
                 IN  /\ m.key = KeyOf(b) /\ m.kind = "Certificate" /\ m.ns = b.ns
                     /\ m.name = CertificateSecretName(b.ingresses[i]) /\ m.at = b.at
BY DEF MainObject, ServiceObject, AutoscalerObject, RouteObject, CertificateObject, Manifest

\* Every object of a block is filed under its key and says where it is from.
LEMMA FiledUnderItsKey ==
    ASSUME NEW b, NEW mode, NEW m \in Objects(b, mode)
    PROVE  m.key = KeyOf(b) /\ m.at = b.at
<1>1. CASE b.kind # "ingress" /\ m = MainObject(b)
  BY <1>1, ObjectFields
<1>2. CASE m = ServiceObject(b) \/ m = AutoscalerObject(b)
  BY <1>2, ObjectFields
<1>3. CASE \E i \in DOMAIN b.ingresses : m = RouteObject(b, i, mode) \/ m = CertificateObject(b, i)
  BY <1>3, ObjectFields
<1>4. QED
  BY <1>1, <1>2, <1>3, ObjectForms

\* The kind of an object tells what of its block it is.
LEMMA KindTellsForm ==
    ASSUME NEW b, b.kind \in KindsOfBlock, NEW mode, NEW m \in Objects(b, mode)
    PROVE  /\ m.kind = "Service" => HasService(b) /\ m = ServiceObject(b)
           /\ m.kind = "HorizontalPodAutoscaler" => b.kind = "deployment" /\ m = AutoscalerObject(b)
           /\ m.kind \in {"Ingress", "HTTPRoute"} =>
                 /\ b.kind \in RoutingKinds
                 /\ \E i \in DOMAIN b.ingresses : m = RouteObject(b, i, mode)
           /\ m.kind = "Certificate" =>
                 /\ b.kind \in RoutingKinds
                 /\ \E i \in DOMAIN b.ingresses :
                       CertificateSecretName(b.ingresses[i]) # None /\ m = CertificateObject(b, i)
           /\ m.kind \notin {"Service", "HorizontalPodAutoscaler", "Ingress", "HTTPRoute", "Certificate"} =>
                 b.kind # "ingress" /\ m = MainObject(b)
           /\ m.kind \notin {"Namespace", "ServiceAccount"}
<1>1. CASE b.kind # "ingress" /\ m = MainObject(b)
  <2>1. m.kind = ObjectKind[b.kind] /\ b.kind \in KindsOfBlock \ {"ingress"}
    BY <1>1, ObjectFields
  <2>2. m.kind \notin {"Service", "HorizontalPodAutoscaler", "Ingress", "HTTPRoute", "Certificate",
                       "Namespace", "ServiceAccount"}
    BY <2>1, KindsApart
  <2>3. QED
    BY <1>1, <2>2
<1>2. CASE HasService(b) /\ m = ServiceObject(b)
  <2>1. m.kind = "Service"
    BY <1>2, ObjectFields
  <2>2. QED
    BY <1>2, <2>1
<1>3. CASE b.kind = "deployment" /\ m = AutoscalerObject(b)
  <2>1. m.kind = "HorizontalPodAutoscaler"
    BY <1>3, ObjectFields
  <2>2. QED
    BY <1>3, <2>1
<1>4. CASE b.kind \in RoutingKinds /\ \E i \in DOMAIN b.ingresses : m = RouteObject(b, i, mode)
  <2>1. m.kind \in {"Ingress", "HTTPRoute"}
    BY <1>4, ObjectFields
  <2>2. QED
    BY <1>4, <2>1
<1>5. CASE /\ b.kind \in RoutingKinds
           /\ \E i \in DOMAIN b.ingresses :
                 CertificateSecretName(b.ingresses[i]) # None /\ m = CertificateObject(b, i)
  <2>1. m.kind = "Certificate"
    BY <1>5, ObjectFields
  <2>2. QED
    BY <1>5, <2>1
<1>6. QED
  BY <1>1, <1>2, <1>3, <1>4, <1>5, ObjectForms
OnePerPlace(S) == \A b, c \in S : b.at = c.at => b = c

\* Blocks that do not clash make no object twice.
LEMMA ObjectsAreDistinct ==
    ASSUME NEW S, \A b \in S : b.kind \in KindsOfBlock,
           OnePerPlace(S), ~Duplicates(S), ~IngressConflict(S),
           NEW mode, NEW b \in S, NEW c \in S, NEW m \in Objects(b, mode), NEW n \in Objects(c, mode),
           m.kind = n.kind, m.ns = n.ns, m.name = n.name
    PROVE  m = n
<1>1. SameObject(b, c) => b = c
  BY DEF Duplicates, OnePerPlace
<1>2. \A i \in DOMAIN b.ingresses, j \in DOMAIN c.ingresses :
          b.kind \in RoutingKinds /\ c.kind \in RoutingKinds /\ SameRoute(b, i, c, j) => b = c /\ i = j
  BY DEF IngressConflict, OnePerPlace, RoutingKinds
<1>3. b.kind \in KindsOfBlock /\ c.kind \in KindsOfBlock
  OBVIOUS
<1>4. CASE m.kind = "Service"
  <2>1. HasService(b) /\ m = ServiceObject(b) /\ HasService(c) /\ n = ServiceObject(c)
    BY <1>3, <1>4, KindTellsForm
  <2>2. b.ns = c.ns /\ ServiceName(b) = ServiceName(c)
    BY <2>1, ObjectFields
  <2>3. b = c
    BY <1>1, <2>1, <2>2 DEF SameObject
  <2>4. QED
    BY <2>1, <2>3
<1>5. CASE m.kind = "HorizontalPodAutoscaler"
  <2>1. /\ b.kind = "deployment" /\ m = AutoscalerObject(b)
        /\ c.kind = "deployment" /\ n = AutoscalerObject(c)
    BY <1>3, <1>5, KindTellsForm
  <2>2. b.ns = c.ns /\ b.name = c.name
    BY <2>1, ObjectFields
  <2>3. b = c
    BY <1>1, <2>1, <2>2 DEF SameObject, Identity
  <2>4. QED
    BY <2>1, <2>3
<1>6. CASE m.kind \in {"Ingress", "HTTPRoute"}
  <2>1. b.kind \in RoutingKinds /\ \E i \in DOMAIN b.ingresses : m = RouteObject(b, i, mode)
    BY <1>3, <1>6, KindTellsForm
  <2>2. c.kind \in RoutingKinds /\ \E j \in DOMAIN c.ingresses : n = RouteObject(c, j, mode)
    BY <1>3, <1>6, KindTellsForm
  <2>3. PICK i \in DOMAIN b.ingresses : m = RouteObject(b, i, mode)
    BY <2>1
  <2>4. PICK j \in DOMAIN c.ingresses : n = RouteObject(c, j, mode)
    BY <2>2
  <2>5. b.ns = c.ns /\ ResourceName(b, i) = ResourceName(c, j)
    BY <2>3, <2>4, ObjectFields
  <2>6. b = c /\ i = j
    BY <1>2, <2>1, <2>2, <2>5 DEF SameRoute
  <2>7. QED
    BY <2>3, <2>4, <2>6
<1>7. CASE m.kind = "Certificate"
  <2>0. n.kind = "Certificate"
    BY <1>7
  <2>1. /\ b.kind \in RoutingKinds
        /\ \E i \in DOMAIN b.ingresses :
              CertificateSecretName(b.ingresses[i]) # None /\ m = CertificateObject(b, i)
    BY <1>3, <1>7, KindTellsForm
  <2>2. /\ c.kind \in RoutingKinds
        /\ \E j \in DOMAIN c.ingresses :
              CertificateSecretName(c.ingresses[j]) # None /\ n = CertificateObject(c, j)
    BY <1>3, <2>0, KindTellsForm
  <2>3. PICK i \in DOMAIN b.ingresses :
            CertificateSecretName(b.ingresses[i]) # None /\ m = CertificateObject(b, i)
    BY <2>1
  <2>4. PICK j \in DOMAIN c.ingresses :
            CertificateSecretName(c.ingresses[j]) # None /\ n = CertificateObject(c, j)
    BY <2>2
  <2>5. /\ b.ns = c.ns
        /\ CertificateSecretName(b.ingresses[i]) = CertificateSecretName(c.ingresses[j])
    BY <2>3, <2>4, ObjectFields
  <2>6. b = c /\ i = j
    BY <1>2, <2>1, <2>2, <2>3, <2>5 DEF SameRoute
  <2>7. QED
    BY <2>3, <2>4, <2>6
<1>8. CASE m.kind \notin {"Service", "HorizontalPodAutoscaler", "Ingress", "HTTPRoute", "Certificate"}
  <2>1. b.kind # "ingress" /\ m = MainObject(b) /\ c.kind # "ingress" /\ n = MainObject(c)
    BY <1>3, <1>8, KindTellsForm
  <2>2. /\ ObjectKind[b.kind] = ObjectKind[c.kind] /\ b.name = c.name
        /\ (IF b.kind \in ClusterKinds THEN None ELSE b.ns)
              = (IF c.kind \in ClusterKinds THEN None ELSE c.ns)
    BY <2>1, ObjectFields
  <2>3. b.kind = c.kind
    BY <1>3, <2>1, <2>2, KindsApart
  <2>4. b = c
    BY <1>1, <2>2, <2>3 DEF SameObject, Identity
  <2>5. QED
    BY <2>1, <2>4
<1>9. QED
  BY <1>4, <1>5, <1>6, <1>7, <1>8

(***************************************************************************)
(* Keys.  What a key begins with tells cluster-scoped blocks, the other    *)
(* blocks that are no workloads, service accounts and namespaces apart.    *)
(***************************************************************************)
LEMMA Headed ==
    ASSUME NEW S, NEW part \in S, NEW s \in Seq(S)
    PROVE  <<part>> \o s \in Seq(S) /\ (<<part>> \o s)[1] = part
<1>1. <<part>> \in Seq(S) /\ Len(<<part>>) = 1 /\ <<part>>[1] = part
  OBVIOUS
<1>2. Len(s) \in Nat /\ 1 \in 1..(1 + Len(s))
  OBVIOUS
<1>3. QED
  BY <1>1, <1>2, ConcatProperties

KeyHead(b) == IF b.kind = "persistentvolumeclaim" THEN "pvc" ELSE b.kind

LEMMA KeyIsHeaded ==
    ASSUME NEW b, b.kind \notin WorkloadKinds, b.name \in Name
    PROVE  KeyOf(b)[1] = KeyHead(b)
<1> DEFINE S == {Alphabet[i] : i \in DOMAIN Alphabet} \cup {KeyHead(b)}
<1>1. b.name \in Seq(S)
  BY DEF Name
<1>2. KeyOf(b) = <<KeyHead(b)>> \o b.name
  BY DEF KeyOf, KeyHead
<1>3. QED
  BY <1>1, <1>2, Headed

LEMMA AccountKeyIsHeaded ==
    ASSUME NEW name \in Name, NEW ns \in Name
    PROVE  AccountKey(name, ns)[1] = "sa"
<1> DEFINE S == {Alphabet[i] : i \in DOMAIN Alphabet} \cup {"sa"}
<1>1. name \in Seq(S) /\ ns \in Seq(S) /\ "sa" \in S
  BY DEF Name
<1>2. <<"sa">> \o name \in Seq(S) /\ (<<"sa">> \o name)[1] = "sa"
  BY <1>1, Headed
<1>3. Len(<<"sa">> \o name) = 1 + Len(name) /\ Len(name) \in Nat
  BY <1>1, ConcatProperties
<1>4. ((<<"sa">> \o name) \o ns)[1] = (<<"sa">> \o name)[1]
  BY <1>1, <1>2, <1>3, ConcatProperties
<1>5. QED
  BY <1>2, <1>4 DEF AccountKey

\* What follows one part is all that is left without it.
LEMMA Tailed ==
    ASSUME NEW S, NEW part \in S, NEW s \in Seq(S)
    PROVE  /\ Len(<<part>> \o s) = 1 + Len(s)
           /\ \A i \in 1..Len(s) : (<<part>> \o s)[i + 1] = s[i]
<1> DEFINE one == <<part>>
<1>1. one \in Seq(S) /\ Len(one) = 1
  OBVIOUS
<1> HIDE DEF one
<1>2. /\ Len(one \o s) = Len(one) + Len(s)
      /\ \A i \in 1..(Len(one) + Len(s)) :
             (one \o s)[i] = IF i <= Len(one) THEN one[i] ELSE s[i - Len(one)]
  BY <1>1, ConcatProperties
<1>3. ASSUME NEW i \in 1..Len(s)
      PROVE  (one \o s)[i + 1] = s[i]
  <2>1. Len(s) \in Nat
    OBVIOUS
  <2>2. i + 1 \in 1..(1 + Len(s)) /\ ~(i + 1 <= 1) /\ (i + 1) - 1 = i
    BY <2>1
  <2>3. QED
    BY <1>1, <1>2, <2>2
<1>4. Len(one \o s) = 1 + Len(s)
  BY <1>1, <1>2
<1>5. QED
  BY <1>3, <1>4 DEF one

LEMMA TailsAgree ==
    ASSUME NEW S, NEW part \in S, NEW s \in Seq(S), NEW t \in Seq(S),
           <<part>> \o s = <<part>> \o t
    PROVE  s = t
<1>1. /\ Len(s) \in Nat /\ DOMAIN s = 1..Len(s)
      /\ Len(t) \in Nat /\ DOMAIN t = 1..Len(t)
  OBVIOUS
<1> DEFINE u == <<part>> \o s
           v == <<part>> \o t
<1>2. Len(u) = 1 + Len(s) /\ Len(v) = 1 + Len(t)
  BY Tailed
<1>3. (\A i \in 1..Len(s) : u[i + 1] = s[i]) /\ (\A i \in 1..Len(t) : v[i + 1] = t[i])
  BY Tailed
<1>4. u = v
  OBVIOUS
<1> HIDE DEF u, v
<1>5. Len(s) = Len(t)
  <2>1. 1 + Len(s) = 1 + Len(t)
    BY <1>2, <1>4
  <2>2. Len(s) \in Nat /\ Len(t) \in Nat
    BY <1>1
  <2>3. QED
    BY <2>1, <2>2
<1>6. \A i \in 1..Len(s) : s[i] = t[i]
  BY <1>3, <1>4, <1>5
<1>7. QED
  BY <1>5, <1>6, SeqEqual

\* Two uses of accounts have one key only if their names and namespaces join to one.
LEMMA AccountKeysJoin ==
    ASSUME NEW a \in Name, NEW b \in Name, NEW c \in Name, NEW d \in Name,
           AccountKey(a, b) = AccountKey(c, d)
    PROVE  a \o b = c \o d
<1> DEFINE S == {Alphabet[i] : i \in DOMAIN Alphabet} \cup {"sa"}
           s == a \o b
           t == c \o d
<1>1. a \in Seq(S) /\ b \in Seq(S) /\ c \in Seq(S) /\ d \in Seq(S) /\ "sa" \in S
  BY DEF Name
<1> HIDE DEF S
<1>2. s \in Seq(S) /\ t \in Seq(S) /\ <<"sa">> \in Seq(S)
  BY <1>1, ConcatProperties
<1>3. AccountKey(a, b) = <<"sa">> \o s /\ AccountKey(c, d) = <<"sa">> \o t
  BY <1>1, <1>2, ConcatAssociative DEF AccountKey
<1>4. <<"sa">> \o s = <<"sa">> \o t
  BY <1>3
<1> HIDE DEF s, t
<1>5. s = t
  BY <1>1, <1>2, <1>4, TailsAgree
<1>6. QED
  BY <1>5 DEF s, t

LEMMA KeysAreNames ==
    ASSUME {"namespace", "sa", "pvc"} \cup (KindsOfBlock \ WorkloadKinds)
               \subseteq {Alphabet[i] : i \in DOMAIN Alphabet}
    PROVE  /\ \A b : b.kind \in KindsOfBlock /\ b.name \in Name => KeyOf(b) \in Name
           /\ \A name, ns \in Name : AccountKey(name, ns) \in Name
           /\ \A ns \in Name : <<"namespace">> \o ns \in Name
<1> DEFINE S == {Alphabet[i] : i \in DOMAIN Alphabet}
<1>1. ASSUME NEW b, b.kind \in KindsOfBlock, b.name \in Name
      PROVE  KeyOf(b) \in Name
  <2>1. CASE b.kind \in WorkloadKinds
    BY <1>1, <2>1 DEF KeyOf
  <2>2. CASE b.kind \notin WorkloadKinds
    <3>1. KeyOf(b) = <<KeyHead(b)>> \o b.name
      BY <2>2 DEF KeyOf, KeyHead
    <3>2. KeyHead(b) \in S /\ b.name \in Seq(S)
      BY <1>1, <2>2 DEF KeyHead, Name
    <3>3. QED
      BY <3>1, <3>2, Headed DEF Name
  <2>3. QED
    BY <2>1, <2>2
<1>2. ASSUME NEW name \in Name, NEW ns \in Name
      PROVE  AccountKey(name, ns) \in Name
  <2>1. name \in Seq(S) /\ ns \in Seq(S) /\ "sa" \in S
    BY DEF Name
  <2>2. <<"sa">> \o name \in Seq(S)
    BY <2>1, Headed
  <2>3. QED
    BY <2>1, <2>2, ConcatProperties DEF AccountKey, Name
<1>3. \A ns \in Name : <<"namespace">> \o ns \in Name
  BY Headed DEF Name
<1>4. QED
  BY <1>1, <1>2, <1>3
(***************************************************************************)
(* Generate: what is filed under one key stays or goes together.           *)
(***************************************************************************)
LEMMA GeneratedFrom ==
    ASSUME NEW M, NEW S, NEW mode
    PROVE  GenerateBlocks(M, S, mode) \subseteq M \cup ObjectsOf(S, mode)
BY DEF GenerateBlocks, Assign, ObjectsOf

\* Only a cluster-scoped block takes the place of what has its key.
LEMMA GeneratedUnlessReplaced ==
    ASSUME NEW M, NEW S, NEW mode, NEW m \in M \cup ObjectsOf(S, mode),
           \A c \in S : c.kind \in ClusterKinds => KeyOf(c) # m.key
    PROVE  m \in GenerateBlocks(M, S, mode)
<1> DEFINE cluster == {c \in S : c.kind \in ClusterKinds}
           before  == M \cup ObjectsOf(S \ cluster, mode)
<1>1. GenerateBlocks(M, S, mode)
          = {k \in before : \A n \in ObjectsOf(cluster, mode) : n.key # k.key} \cup ObjectsOf(cluster, mode)
  BY DEF GenerateBlocks, Assign
<1>2. ASSUME NEW n \in ObjectsOf(cluster, mode)
      PROVE  n.key # m.key
  <2>1. PICK c \in cluster : n \in Objects(c, mode)
    BY DEF ObjectsOf
  <2>2. n.key = KeyOf(c)
    BY <2>1, FiledUnderItsKey
  <2>3. QED
    BY <2>2
<1>3. m \in before \cup ObjectsOf(cluster, mode)
  BY DEF ObjectsOf
<1>4. QED
  BY <1>1, <1>2, <1>3

LEMMA ClusterObjectsGenerated ==
    ASSUME NEW M, NEW S, NEW mode, NEW b \in S, b.kind \in ClusterKinds
    PROVE  Objects(b, mode) \subseteq GenerateBlocks(M, S, mode)
BY DEF GenerateBlocks, Assign, ObjectsOf

LEMMA GeneratedBlocksSurvive ==
    ASSUME NEW M, NEW S, NEW mode, NEW b \in S
    PROVE  \/ \E c \in S : c.kind \in ClusterKinds /\ KeyOf(c) = KeyOf(b) /\ c # b
           \/ Objects(b, mode) \subseteq GenerateBlocks(M, S, mode)
<1>1. CASE b.kind \in ClusterKinds
  BY <1>1, ClusterObjectsGenerated
<1>2. CASE b.kind \notin ClusterKinds
  <2> SUFFICES ASSUME ~\E c \in S : c.kind \in ClusterKinds /\ KeyOf(c) = KeyOf(b) /\ c # b,
                      NEW m \in Objects(b, mode)
               PROVE  m \in GenerateBlocks(M, S, mode)
    OBVIOUS
  <2>1. m.key = KeyOf(b) /\ m \in M \cup ObjectsOf(S, mode)
    BY FiledUnderItsKey DEF ObjectsOf
  <2>2. \A c \in S : c.kind \in ClusterKinds => KeyOf(c) # m.key
    BY <1>2, <2>1
  <2>3. QED
    BY <2>1, <2>2, GeneratedUnlessReplaced
<1>3. QED
  BY <1>1, <1>2

\* The objects of a block are generated all or none.
LEMMA GeneratedTogether ==
    ASSUME NEW M, NEW S, OnePerPlace(S), NEW mode, NEW b \in S,
           NEW m \in Objects(b, mode), m \in GenerateBlocks(M, S, mode)
    PROVE  Objects(b, mode) \subseteq GenerateBlocks(M, S, mode)
<1>1. CASE b.kind \in ClusterKinds
  BY <1>1, ClusterObjectsGenerated
<1>2. CASE b.kind \notin ClusterKinds
  <2> DEFINE cluster == {c \in S : c.kind \in ClusterKinds}
             before  == M \cup ObjectsOf(S \ cluster, mode)
  <2>1. GenerateBlocks(M, S, mode)
            = {k \in before : \A n \in ObjectsOf(cluster, mode) : n.key # k.key}
              \cup ObjectsOf(cluster, mode)
    BY DEF GenerateBlocks, Assign
  <2>2. m \notin ObjectsOf(cluster, mode)
    <3> SUFFICES ASSUME NEW c \in cluster, m \in Objects(c, mode) PROVE FALSE
      BY DEF ObjectsOf
    <3>1. c.at = b.at
      BY FiledUnderItsKey
    <3>2. QED
      BY <1>2, <3>1 DEF OnePerPlace
  <2>3. \A n \in ObjectsOf(cluster, mode) : n.key # m.key
    BY <2>1, <2>2
  <2>4. ASSUME NEW k \in Objects(b, mode)
        PROVE  k \in before /\ k.key = m.key
    BY <1>2, FiledUnderItsKey DEF ObjectsOf
  <2>5. QED
    BY <2>1, <2>3, <2>4
<1>3. QED
  BY <1>1, <1>2

\* What is filed under a key that no cluster-scoped block can have stays.
LEMMA HeadKeeps ==
    ASSUME NEW M, NEW S, \A c \in S : c.name \in Name, NEW mode,
           NEW m \in M \cup ObjectsOf(S, mode), m.key[1] \notin ClusterKinds
    PROVE  m \in GenerateBlocks(M, S, mode)
<1>1. ASSUME NEW c \in S, c.kind \in ClusterKinds
      PROVE  KeyOf(c) # m.key
  <2>1. c.kind \notin WorkloadKinds /\ KeyHead(c) = c.kind
    BY <1>1 DEF ClusterKinds, WorkloadKinds, ServedKinds, KeyHead
  <2>2. KeyOf(c)[1] = c.kind
    BY <2>1, KeyIsHeaded
  <2>3. QED
    BY <1>1, <2>2
<1>2. QED
  BY <1>1, GeneratedUnlessReplaced

(***************************************************************************)
(* The volumes of a pod.                                                   *)
(***************************************************************************)
LEMMA OwnVolumesCollect ==
    ASSUME NEW b, BlockOK(b)
    PROVE  /\ OwnVolumes(b) \in Seq(ToSet(OwnVolumes(b)))
           /\ ToSet(OwnVolumes(b)) = UNION {ToSet(b.containers[i].volumes) : i \in DOMAIN b.containers}
<1> DEFINE S == UNION {ToSet(b.containers[i].volumes) : i \in DOMAIN b.containers}
           s == [i \in DOMAIN b.containers |-> b.containers[i].volumes]
<1>1. Len(b.containers) \in Nat /\ DOMAIN b.containers = 1..Len(b.containers)
  BY DEF BlockOK, Lists
<1>2. \A i \in DOMAIN b.containers : b.containers[i].volumes \in Seq(ToSet(b.containers[i].volumes))
  BY DEF BlockOK, Lists, ToSet
<1>3. \A i \in DOMAIN b.containers : b.containers[i].volumes \in Seq(S)
  <2> SUFFICES ASSUME NEW i \in DOMAIN b.containers PROVE b.containers[i].volumes \in Seq(S)
    OBVIOUS
  <2>1. ToSet(b.containers[i].volumes) \subseteq S
    OBVIOUS
  <2>2. QED
    BY <1>2, <2>1
<1>4. s \in Seq(Seq(S)) /\ DOMAIN s = DOMAIN b.containers
  BY <1>1, <1>3
<1> HIDE DEF S
<1>5. /\ FlattenSeq(s) \in Seq(S)
      /\ ToSet(FlattenSeq(s)) = UNION {ToSet(s[i]) : i \in DOMAIN s}
  BY <1>4, FlattenSeqCollects
<1>6. UNION {ToSet(s[i]) : i \in DOMAIN s} = S
  BY <1>4 DEF S
<1>7. OwnVolumes(b) \in Seq(S) /\ ToSet(OwnVolumes(b)) = S
  BY <1>5, <1>6 DEF OwnVolumes
<1>8. QED
  BY <1>7 DEF S
\* The volumes that a pod's volumes are found among.
LEMMA KnownCollect ==
    ASSUME NEW b, BlockOK(b)
    PROVE  Lists(Known(b)) /\ ToSet(Known(b)) = ToSet(b.volumes) \cup ToSet(OwnVolumes(b))
<1> DEFINE S == ToSet(b.volumes) \cup ToSet(OwnVolumes(b))
<1>1. b.volumes \in Seq(ToSet(b.volumes))
  BY DEF BlockOK, Lists, ToSet
<1>2. b.volumes \in Seq(S) /\ OwnVolumes(b) \in Seq(S)
  BY <1>1, OwnVolumesCollect
<1> HIDE DEF S
<1>3. Known(b) \in Seq(S) /\ ToSet(Known(b)) = ToSet(b.volumes) \cup ToSet(OwnVolumes(b))
  BY <1>2, ConcatToSet DEF Known
<1>4. Known(b) \in Seq(ToSet(Known(b)))
  BY <1>3, SeqIsProper DEF ProperSeq
<1>5. QED
  BY <1>3, <1>4 DEF Lists, ToSet

LEMMA FoundVolume ==
    ASSUME NEW b, BlockOK(b), NEW n \in VolumeNames(Known(b))
    PROVE  FindVolume(b, n) \in ToSet(Known(b)) /\ FindVolume(b, n).name = n
<1> DEFINE I == {i \in 1..Len(Known(b)) : Known(b)[i].name = n}
<1>1. Len(Known(b)) \in Nat /\ DOMAIN Known(b) = 1..Len(Known(b))
  BY KnownCollect DEF Lists
<1>2. I # {} /\ I \subseteq Nat
  BY <1>1 DEF VolumeNames
<1>3. Min(I) \in I
  BY <1>2, MinIsLeast
<1>4. SelectInSeq(Known(b), LAMBDA v : v.name = n) = Min(I)
  BY <1>2 DEF SelectInSeq
<1>5. FindVolume(b, n) = Known(b)[Min(I)]
  BY <1>4 DEF FindVolume
<1>6. QED
  BY <1>1, <1>3, <1>5 DEF ToSet

LEMMA PodVolumesAreKnown ==
    ASSUME NEW b, BlockOK(b), NEW u \in PodVolumes(b)
    PROVE  \E v \in ToSet(Known(b)) : u = BuildVolume(v)
<1>1. ToSet(Known(b)) = ToSet(b.volumes) \cup ToSet(OwnVolumes(b))
  BY KnownCollect
<1>2. \A n \in VolumeNames(OwnVolumes(b)) : FindVolume(b, n) \in ToSet(Known(b))
  <2> SUFFICES ASSUME NEW n \in VolumeNames(OwnVolumes(b)) PROVE FindVolume(b, n) \in ToSet(Known(b))
    OBVIOUS
  <2>1. PICK v \in ToSet(OwnVolumes(b)) : v.name = n
    BY DEF VolumeNames, ToSet
  <2>2. n \in VolumeNames(Known(b))
    BY <1>1, <2>1 DEF VolumeNames, ToSet
  <2>3. QED
    BY <2>2, FoundVolume
<1>3. QED
  BY <1>1, <1>2 DEF PodVolumes

\* A volume's source is one that it names.
LEMMA SourceIsNamed ==
    ASSUME NEW v, SourceOf(v) # None
    PROVE  \E k \in DOMAIN v.sources : SourceOf(v) = <<k, v.sources[k]>>
<1> DEFINE I == {i \in 1..Len(Precedence) : Precedence[i] \in DOMAIN v.sources}
<1>1. SelectInSeq(Precedence, LAMBDA kind : kind \in DOMAIN v.sources) = IF I # {} THEN Min(I) ELSE 0
  BY DEF SelectInSeq
<1>2. I # {} /\ I \subseteq Nat
  BY <1>1 DEF SourceOf, Precedence
<1>3. Min(I) \in I
  BY <1>2, MinIsLeast
<1>4. SourceOf(v) = <<Precedence[Min(I)], v.sources[Precedence[Min(I)]]>>
  <2>1. \A i \in I : i # 0
    OBVIOUS
  <2>2. Min(I) # 0
    BY <1>3, <2>1
  <2>3. QED
    BY <1>1, <1>2, <2>2 DEF SourceOf
<1>5. QED
  BY <1>3, <1>4

\* A container of the pod, or an init container, mounts a name.
Mounted(b, n) ==
    \/ \E i \in DOMAIN b.containers : n \in VolumeNames(b.containers[i].volumes)
    \/ \E i \in DOMAIN b.inits : n \in ToSet(b.inits[i].mounts) \cap VolumeNames(Known(b))

\* What the pod mounts is there, from the pod or from a claim template.
LEMMA MountsAreThere ==
    ASSUME NEW b, BlockOK(b), b.kind = "cronjob" => b.inits = <<>>, NEW n, Mounted(b, n)
    PROVE  \/ n \in DOMAIN b.claims
           \/ \E u \in PodVolumes(b) : u.name = n
<1>0. \A v : BuildVolume(v).name = v.name
  BY DEF BuildVolume
<1>1. ToSet(Known(b)) = ToSet(b.volumes) \cup ToSet(OwnVolumes(b))
  BY KnownCollect
<1>2. n \in VolumeNames(OwnVolumes(b)) \/ (b.kind # "cronjob" /\ n \in VolumeNames(Known(b)))
  <2>1. CASE \E i \in DOMAIN b.containers : n \in VolumeNames(b.containers[i].volumes)
    <3>1. PICK i \in DOMAIN b.containers : \E v \in ToSet(b.containers[i].volumes) : v.name = n
      BY <2>1 DEF VolumeNames, ToSet
    <3>2. \E v \in ToSet(OwnVolumes(b)) : v.name = n
      BY <3>1, OwnVolumesCollect
    <3>3. QED
      BY <3>2 DEF VolumeNames, ToSet
  <2>2. CASE \E i \in DOMAIN b.inits : n \in VolumeNames(Known(b))
    <3>1. b.inits # <<>>
      BY <2>2
    <3>2. QED
      BY <2>2, <3>1
  <2>3. \/ \E i \in DOMAIN b.containers : n \in VolumeNames(b.containers[i].volumes)
        \/ \E i \in DOMAIN b.inits : n \in ToSet(b.inits[i].mounts) \cap VolumeNames(Known(b))
    BY DEF Mounted
  <2>4. QED
    BY <2>1, <2>2, <2>3
<1>3. CASE b.kind = "cronjob"
  <2>1. PICK v \in ToSet(OwnVolumes(b)) : v.name = n
    BY <1>2, <1>3 DEF VolumeNames, ToSet
  <2>2. BuildVolume(v) \in PodVolumes(b)
    BY <1>3, <2>1 DEF PodVolumes
  <2>3. QED
    BY <1>0, <2>1, <2>2
<1>4. CASE b.kind # "cronjob" /\ n \in VolumeNames(b.volumes)
  <2>1. PICK v \in ToSet(b.volumes) : v.name = n
    BY <1>4 DEF VolumeNames, ToSet
  <2>2. BuildVolume(v) \in PodVolumes(b)
    BY <1>4, <2>1 DEF PodVolumes
  <2>3. QED
    BY <1>0, <2>1, <2>2
<1>5. CASE b.kind # "cronjob" /\ n \notin VolumeNames(b.volumes) /\ n \notin DOMAIN b.claims
  <2>1. n \in VolumeNames(OwnVolumes(b))
    BY <1>1, <1>2, <1>5 DEF VolumeNames, ToSet
  <2>2. BuildVolume(FindVolume(b, n)) \in PodVolumes(b)
    BY <1>5, <2>1 DEF PodVolumes
  <2>3. n \in VolumeNames(Known(b))
    BY <1>1, <2>1 DEF VolumeNames, ToSet
  <2>4. FindVolume(b, n).name = n
    BY <2>3, FoundVolume
  <2>5. QED
    BY <1>0, <2>2, <2>4
<1>6. QED
  BY <1>3, <1>4, <1>5

\* A name that only containers use is there once, if no claim template has it.
LEMMA MountedOnce ==
    ASSUME NEW b, BlockOK(b), b.kind # "cronjob",
           NEW n, Mounted(b, n), n \notin VolumeNames(b.volumes)
    PROVE  LET named == {u \in PodVolumes(b) : u.name = n}
           IN  Cardinality(named) = 1 <=> n \notin DOMAIN b.claims
<1> DEFINE named == {u \in PodVolumes(b) : u.name = n}
<1>1. \A v : BuildVolume(v).name = v.name
  BY DEF BuildVolume
<1>2. ToSet(Known(b)) = ToSet(b.volumes) \cup ToSet(OwnVolumes(b))
  BY KnownCollect
<1>3. ASSUME NEW u \in named
      PROVE  n \notin DOMAIN b.claims /\ u = BuildVolume(FindVolume(b, n))
  <2>1. ~\E v \in ToSet(b.volumes) : u = BuildVolume(v)
    BY <1>1 DEF VolumeNames, ToSet
  <2>2. PICK k \in VolumeNames(OwnVolumes(b)) \ (DOMAIN b.claims \cup VolumeNames(b.volumes)) :
            u = BuildVolume(FindVolume(b, k))
    BY <2>1 DEF PodVolumes
  <2>3. k \in VolumeNames(Known(b))
    BY <1>2, <2>2 DEF VolumeNames, ToSet
  <2>4. k = n
    BY <1>1, <2>2, <2>3, FoundVolume
  <2>5. QED
    BY <2>2, <2>4
<1>4. CASE n \in DOMAIN b.claims
  <2>1. named = {}
    BY <1>3, <1>4
  <2>2. Cardinality(named) = 0
    BY <2>1, FS_EmptySet
  <2>3. QED
    BY <1>4, <2>2
<1>5. CASE n \notin DOMAIN b.claims
  <2>1. named # {}
    BY <1>5, MountsAreThere
  <2>2. named = {BuildVolume(FindVolume(b, n))}
    BY <1>3, <2>1
  <2>3. Cardinality(named) = 1
    BY <2>2, FS_Singleton
  <2>4. QED
    BY <1>5, <2>3
<1>6. QED
  BY <1>4, <1>5
=============================================================================
