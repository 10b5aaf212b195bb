------------------------ MODULE KdefSequences_proofs ------------------------
(***************************************************************************)
(* Lemmas that have nothing to do with the program: the least element of a *)
(* set of naturals, which stands in for induction, and what SequencesExt   *)
(* computes with a recursive function or a choice.                         *)
(***************************************************************************)
EXTENDS SequencesExt, SequenceTheorems, WellFoundedInduction, TLAPS

Below == {ss \in Nat \X Nat : ss[1] < ss[2]}

LEMMA BelowIsWellFounded == IsWellFoundedOn(Below, Nat)
BY NatLessThanWellFounded DEF OpToRel, Below

\* Whoever wants to show something of all naturals takes the least that it is
\* not true of.
LEMMA LeastNatural ==
    ASSUME NEW T, T \subseteq Nat, T # {}
    PROVE  \E x \in T : \A y \in T : x <= y
<1>1. PICK x \in T : \A y \in T : ~(<<y, x>> \in Below)
  BY BelowIsWellFounded, WFMin
<1>2. \A y, z \in Nat : <<y, z>> \in Below <=> y < z
  BY DEF Below
<1>3. \A y \in T : ~(y < x) /\ x \in Nat /\ y \in Nat
  BY <1>1, <1>2
<1>4. \A y \in T : x <= y
  BY <1>3
<1>5. QED
  BY <1>4

LEMMA MinIsLeast ==
    ASSUME NEW T, T \subseteq Nat, T # {}
    PROVE  Min(T) \in T /\ \A y \in T : Min(T) <= y
BY LeastNatural DEF Min

(***************************************************************************)
(* A sequence, whatever it is a sequence of.                               *)
(***************************************************************************)
ProperSeq(s) == s \in Seq(ToSet(s))

LEMMA SeqIsProper == \A S : \A s \in Seq(S) : ProperSeq(s) /\ ToSet(s) \subseteq S
<1> SUFFICES ASSUME NEW S, NEW s \in Seq(S) PROVE ProperSeq(s) /\ ToSet(s) \subseteq S
  OBVIOUS
<1>1. Len(s) \in Nat /\ DOMAIN s = 1..Len(s)
  OBVIOUS
<1>2. \A i \in 1..Len(s) : s[i] \in ToSet(s) /\ s[i] \in S
  BY <1>1 DEF ToSet
<1>3. s \in [1..Len(s) -> ToSet(s)]
  BY <1>1, <1>2
<1>4. s \in Seq(ToSet(s))
  BY <1>1, <1>3
<1>5. ToSet(s) \subseteq S
  BY <1>1, <1>2 DEF ToSet
<1>6. QED
  BY <1>4, <1>5 DEF ProperSeq

LEMMA ConcatToSet ==
    ASSUME NEW S, NEW s \in Seq(S), NEW t \in Seq(S)
    PROVE  s \o t \in Seq(S) /\ ToSet(s \o t) = ToSet(s) \cup ToSet(t)
<1>1. /\ s \o t \in Seq(S) /\ Len(s \o t) = Len(s) + Len(t)
      /\ \A i \in 1..(Len(s) + Len(t)) :
             (s \o t)[i] = IF i <= Len(s) THEN s[i] ELSE t[i - Len(s)]
  BY ConcatProperties
<1>2. /\ Len(s) \in Nat /\ Len(t) \in Nat /\ DOMAIN s = 1..Len(s) /\ DOMAIN t = 1..Len(t)
      /\ DOMAIN (s \o t) = 1..(Len(s) + Len(t))
  BY <1>1
<1>3. ASSUME NEW i \in DOMAIN (s \o t)
      PROVE  (s \o t)[i] \in ToSet(s) \cup ToSet(t)
  <2>1. CASE i <= Len(s)
    BY <1>1, <1>2, <2>1 DEF ToSet
  <2>2. CASE ~(i <= Len(s))
    <3>1. i - Len(s) \in DOMAIN t /\ (s \o t)[i] = t[i - Len(s)]
      BY <1>1, <1>2, <2>2
    <3>2. QED
      BY <3>1 DEF ToSet
  <2>3. QED
    BY <2>1, <2>2
<1>4. \A i \in DOMAIN s : s[i] \in ToSet(s \o t)
  <2> SUFFICES ASSUME NEW i \in DOMAIN s PROVE s[i] \in ToSet(s \o t)
    OBVIOUS
  <2>1. i \in DOMAIN (s \o t) /\ (s \o t)[i] = s[i]
    BY <1>1, <1>2
  <2>2. QED
    BY <2>1 DEF ToSet
<1>5. \A i \in DOMAIN t : t[i] \in ToSet(s \o t)
  <2> SUFFICES ASSUME NEW i \in DOMAIN t PROVE t[i] \in ToSet(s \o t)
    OBVIOUS
  <2>1. Len(s) + i \in DOMAIN (s \o t) /\ (s \o t)[Len(s) + i] = t[i]
    BY <1>1, <1>2
  <2>2. QED
    BY <2>1 DEF ToSet
<1>6. ToSet(s \o t) \subseteq ToSet(s) \cup ToSet(t)
  BY <1>3 DEF ToSet
<1>7. ToSet(s) \subseteq ToSet(s \o t) /\ ToSet(t) \subseteq ToSet(s \o t)
  BY <1>4, <1>5 DEF ToSet
<1>8. QED
  BY <1>1, <1>6, <1>7

(***************************************************************************)
(* FlattenSeq: the recursive function that it is defined with exists, and  *)
(* its last value has the elements of all the sequences.                   *)
(***************************************************************************)
Flatten(s, f, n) ==
    f = [i \in 1..n |-> IF i = 1 THEN s[i] ELSE f[i - 1] \o s[i]]

LEMMA FlattenExists ==
    ASSUME NEW S, NEW s \in Seq(Seq(S)), NEW n \in 1..Len(s)
    PROVE  \E f : Flatten(s, f, n)
<1> DEFINE T == {k \in 1..Len(s) : ~\E f : Flatten(s, f, k)}
<1>1. SUFFICES ASSUME n \in T PROVE FALSE
  OBVIOUS
<1>2. Len(s) \in Nat /\ T \subseteq Nat
  OBVIOUS
<1>3. PICK k \in T : \A j \in T : k <= j
  BY <1>1, <1>2, LeastNatural
<1>4. k \in 1..Len(s) /\ ~\E f : Flatten(s, f, k)
  OBVIOUS
<1>5. CASE k = 1
  <2>1. Flatten(s, [i \in 1..1 |-> s[i]], 1)
    BY DEF Flatten
  <2>2. QED
    BY <1>4, <1>5, <2>1
<1>6. CASE k # 1
  <2>1. k - 1 \in 1..Len(s) /\ ~(k <= k - 1)
    BY <1>2, <1>4, <1>6
  <2>2. k - 1 \notin T
    BY <1>3, <2>1
  <2>3. PICK f : Flatten(s, f, k - 1)
    BY <2>1, <2>2
  <2> DEFINE g == [i \in 1..k |-> IF i = k THEN f[k - 1] \o s[k] ELSE f[i]]
  <2>4. f = [i \in 1..(k - 1) |-> IF i = 1 THEN s[i] ELSE f[i - 1] \o s[i]]
    BY <2>3 DEF Flatten
  <2>5. \A i \in 1..k : g[i] = IF i = 1 THEN s[i] ELSE g[i - 1] \o s[i]
    <3> SUFFICES ASSUME NEW i \in 1..k PROVE g[i] = IF i = 1 THEN s[i] ELSE g[i - 1] \o s[i]
      OBVIOUS
    <3>1. CASE i = k
      <4>1. k \in 1..k /\ k - 1 \in 1..k /\ k - 1 # k
        BY <1>2, <1>4, <2>1
      <4>2. g[k] = f[k - 1] \o s[k] /\ g[k - 1] = f[k - 1]
        BY <4>1
      <4>3. QED
        BY <1>6, <3>1, <4>2
    <3>2. CASE i # k
      <4>1. i \in 1..(k - 1) /\ g[i] = f[i]
        BY <1>4, <3>2
      <4>2. CASE i = 1
        <5>1. f[1] = s[1]
          BY <2>4, <4>1, <4>2
        <5>2. QED
          BY <4>1, <4>2, <5>1
      <4>3. CASE i # 1
        <5>1. f[i] = f[i - 1] \o s[i]
          BY <2>4, <4>1, <4>3
        <5>2. g[i - 1] = f[i - 1]
          BY <1>4, <4>1, <4>3
        <5>3. QED
          BY <4>1, <4>3, <5>1, <5>2
      <4>4. QED
        BY <4>2, <4>3
    <3>3. QED
      BY <3>1, <3>2
  <2>6. Flatten(s, g, k)
    BY <2>5 DEF Flatten
  <2>7. QED
    BY <1>4, <2>6
<1>7. QED
  BY <1>5, <1>6

LEMMA FlattenCollects ==
    ASSUME NEW S, NEW s \in Seq(Seq(S)), NEW n \in 1..Len(s), NEW f, Flatten(s, f, Len(s))
    PROVE  f[n] \in Seq(S) /\ ToSet(f[n]) = UNION {ToSet(s[i]) : i \in 1..n}
<1> DEFINE Collected(k) == f[k] \in Seq(S) /\ ToSet(f[k]) = UNION {ToSet(s[i]) : i \in 1..k}
           T == {k \in 1..Len(s) : ~Collected(k)}
<1>1. SUFFICES ASSUME n \in T PROVE FALSE
  OBVIOUS
<1>2. Len(s) \in Nat /\ T \subseteq Nat /\ \A i \in 1..Len(s) : s[i] \in Seq(S)
  OBVIOUS
<1>3. PICK k \in T : \A j \in T : k <= j
  BY <1>1, <1>2, LeastNatural
<1>4. k \in 1..Len(s) /\ ~Collected(k)
  OBVIOUS
<1>5. f[k] = IF k = 1 THEN s[k] ELSE f[k - 1] \o s[k]
  BY <1>4 DEF Flatten
<1>6. CASE k = 1
  <2>1. f[1] = s[1] /\ {ToSet(s[i]) : i \in 1..1} = {ToSet(s[1])}
    BY <1>5, <1>6
  <2>2. Collected(1)
    BY <1>2, <1>4, <1>6, <2>1
  <2>3. QED
    BY <1>4, <1>6, <2>2
<1>7. CASE k # 1
  <2>1. k - 1 \in 1..Len(s) /\ ~(k <= k - 1)
    BY <1>2, <1>4, <1>7
  <2>2. Collected(k - 1)
    BY <1>3, <2>1
  <2>3. f[k] = f[k - 1] \o s[k] /\ f[k - 1] \in Seq(S) /\ s[k] \in Seq(S)
    BY <1>2, <1>4, <1>5, <1>7, <2>2
  <2>4. f[k] \in Seq(S) /\ ToSet(f[k]) = ToSet(f[k - 1]) \cup ToSet(s[k])
    BY <2>3, ConcatToSet
  <2>5. 1..k = 1..(k - 1) \cup {k}
    BY <1>2, <1>4, <2>1
  <2>6. UNION {ToSet(s[i]) : i \in 1..k} = (UNION {ToSet(s[i]) : i \in 1..(k - 1)}) \cup ToSet(s[k])
    BY <2>5
  <2>7. QED
    BY <1>4, <2>2, <2>4, <2>6
<1>8. QED
  BY <1>6, <1>7

LEMMA FlattenSeqCollects ==
    ASSUME NEW S, NEW s \in Seq(Seq(S))
    PROVE  /\ FlattenSeq(s) \in Seq(S)
           /\ ToSet(FlattenSeq(s)) = UNION {ToSet(s[i]) : i \in DOMAIN s}
<1>1. Len(s) \in Nat /\ DOMAIN s = 1..Len(s)
  OBVIOUS
<1>2. CASE Len(s) = 0
  <2>1. FlattenSeq(s) = s
    BY <1>2 DEF FlattenSeq
  <2>2. s = <<>> /\ DOMAIN s = {}
    BY <1>1, <1>2, EmptySeq
  <2>3. FlattenSeq(s) \in Seq(S)
    BY <2>1, <2>2
  <2>4. ToSet(FlattenSeq(s)) = {} /\ UNION {ToSet(s[i]) : i \in DOMAIN s} = {}
    BY <2>1, <2>2 DEF ToSet
  <2>5. QED
    BY <2>3, <2>4
<1>3. CASE Len(s) # 0
  <2> DEFINE f == CHOOSE g : Flatten(s, g, Len(s))
  <2>1. Len(s) \in 1..Len(s)
    BY <1>1, <1>3
  <2>2. Flatten(s, f, Len(s))
    BY <2>1, FlattenExists
  <2>3. FlattenSeq(s) = f[Len(s)]
    BY <1>3 DEF FlattenSeq, Flatten
  <2> HIDE DEF f
  <2>4. f[Len(s)] \in Seq(S) /\ ToSet(f[Len(s)]) = UNION {ToSet(s[i]) : i \in 1..Len(s)}
    BY <2>1, <2>2, FlattenCollects
  <2>5. QED
    BY <1>1, <2>3, <2>4
<1>4. QED
  BY <1>2, <1>3
\* It starts with what the first of them starts with.
LEMMA FlattenSeqStarts ==
    ASSUME NEW S, NEW s \in Seq(Seq(S)), s # <<>>, s[1] # <<>>
    PROVE  FlattenSeq(s) # <<>> /\ FlattenSeq(s)[1] = s[1][1]
<1>1. Len(s) \in Nat /\ Len(s) # 0 /\ Len(s) \in 1..Len(s) /\ 1 \in 1..Len(s)
  <2>1. Len(s) \in Nat /\ Len(s) # 0
    BY EmptySeq
  <2>2. QED
    BY <2>1
<1> DEFINE f == CHOOSE g : Flatten(s, g, Len(s))
<1>2. Flatten(s, f, Len(s)) /\ FlattenSeq(s) = f[Len(s)]
  <2>1. Flatten(s, f, Len(s))
    BY <1>1, FlattenExists
  <2>2. FlattenSeq(s) = f[Len(s)]
    BY <1>1 DEF FlattenSeq, Flatten
  <2>3. QED
    BY <2>1, <2>2
<1> HIDE DEF f
<1> DEFINE Starts(k) == Len(f[k]) >= 1 /\ f[k][1] = s[1][1]
           T == {k \in 1..Len(s) : ~Starts(k)}
<1>3. \A k \in 1..Len(s) : f[k] \in Seq(S) /\ s[k] \in Seq(S) /\ f[k] = IF k = 1 THEN s[k] ELSE f[k - 1] \o s[k]
  <2>1. \A k \in 1..Len(s) : f[k] \in Seq(S)
    BY <1>2, FlattenCollects
  <2>2. \A k \in 1..Len(s) : s[k] \in Seq(S)
    OBVIOUS
  <2>3. \A k \in 1..Len(s) : f[k] = IF k = 1 THEN s[k] ELSE f[k - 1] \o s[k]
    BY <1>2 DEF Flatten
  <2>4. QED
    BY <2>1, <2>2, <2>3
<1>4. T = {}
  <2> SUFFICES ASSUME T # {} PROVE FALSE
    OBVIOUS
  <2>1. PICK k \in T : \A j \in T : k <= j
    <3>1. T \subseteq Nat
      BY <1>1
    <3>2. QED
      BY <3>1, LeastNatural
  <2>2. CASE k = 1
    <3>1. Len(s[1]) \in Nat /\ Len(s[1]) # 0 /\ f[1] = s[1]
      BY <1>1, <1>3, EmptySeq
    <3>2. QED
      BY <2>2, <3>1
  <2>3. CASE k # 1
    <3>1. k - 1 \in 1..Len(s) /\ ~(k <= k - 1) /\ k \in 1..Len(s)
      BY <1>1, <2>3
    <3>2. Starts(k - 1)
      BY <2>1, <3>1
    <3>3. f[k] = f[k - 1] \o s[k] /\ f[k - 1] \in Seq(S) /\ s[k] \in Seq(S)
      BY <1>3, <2>3, <3>1
    <3> DEFINE g == f[k - 1]
               h == s[k]
    <3>4. Len(g \o h) = Len(g) + Len(h) /\ Len(g) \in Nat /\ Len(h) \in Nat
          /\ \A i \in 1..Len(g) : (g \o h)[i] = g[i]
      <4> g \in Seq(S) /\ h \in Seq(S)
        BY <3>3
      <4> HIDE DEF g, h
      <4>1. Len(g) \in Nat /\ Len(h) \in Nat
        OBVIOUS
      <4>2. Len(g \o h) = Len(g) + Len(h)
        BY ConcatProperties
      <4>3. \A i \in 1..(Len(g) + Len(h)) : (g \o h)[i] = IF i <= Len(g) THEN g[i] ELSE h[i - Len(g)]
        BY ConcatProperties
      <4>4. QED
        BY <4>1, <4>2, <4>3
    <3>5. Starts(k)
      <4>1. f[k] = g \o h /\ Len(g) >= 1 /\ g[1] = s[1][1]
        BY <3>2, <3>3
      <4> HIDE DEF g, h
      <4>2. QED
        BY <3>4, <4>1
    <3>6. QED
      BY <3>5
  <2>4. QED
    BY <2>2, <2>3
<1>5. Starts(Len(s)) /\ f[Len(s)] \in Seq(S)
  BY <1>1, <1>3, <1>4
<1>6. QED
  BY <1>2, <1>5, EmptySeq

(***************************************************************************)
(* A sequence that has nothing twice.                                      *)
(***************************************************************************)
Once(s) == \A i, j \in DOMAIN s : s[i] = s[j] => i = j

LEMMA ConcatOnce ==
    ASSUME NEW S, NEW s \in Seq(S), NEW t \in Seq(S), Once(s), Once(t), ToSet(s) \cap ToSet(t) = {}
    PROVE  Once(s \o t)
<1> SUFFICES ASSUME NEW i \in DOMAIN (s \o t), NEW j \in DOMAIN (s \o t), (s \o t)[i] = (s \o t)[j]
             PROVE  i = j
  BY DEF Once
<1>1. /\ s \o t \in Seq(S) /\ Len(s \o t) = Len(s) + Len(t)
      /\ \A k \in 1..(Len(s) + Len(t)) :
             (s \o t)[k] = IF k <= Len(s) THEN s[k] ELSE t[k - Len(s)]
  BY ConcatProperties
<1>2. /\ Len(s) \in Nat /\ Len(t) \in Nat /\ DOMAIN s = 1..Len(s) /\ DOMAIN t = 1..Len(t)
      /\ DOMAIN (s \o t) = 1..(Len(s) + Len(t)) /\ i \in Nat /\ j \in Nat
  BY <1>1
<1>3. \A k \in DOMAIN (s \o t) :
          IF k <= Len(s) THEN k \in DOMAIN s /\ (s \o t)[k] = s[k]
          ELSE k - Len(s) \in DOMAIN t /\ (s \o t)[k] = t[k - Len(s)]
  BY <1>1, <1>2
<1>4. \A k \in DOMAIN s, l \in DOMAIN t : s[k] # t[l]
  BY DEF ToSet
<1>5. CASE i <= Len(s) /\ j <= Len(s)
  BY <1>3, <1>5 DEF Once
<1>6. CASE ~(i <= Len(s)) /\ ~(j <= Len(s))
  <2>1. i - Len(s) = j - Len(s)
    BY <1>3, <1>6 DEF Once
  <2>2. QED
    BY <1>2, <2>1
<1>7. CASE (i <= Len(s)) # (j <= Len(s))
  BY <1>3, <1>4, <1>7
<1>8. QED
  BY <1>5, <1>6, <1>7

LEMMA FlattenSeqOnce ==
    ASSUME NEW S, NEW s \in Seq(Seq(S)), \A i \in DOMAIN s : Once(s[i]),
           \A i, j \in DOMAIN s : i # j => ToSet(s[i]) \cap ToSet(s[j]) = {}
    PROVE  Once(FlattenSeq(s))
<1>1. Len(s) \in Nat /\ DOMAIN s = 1..Len(s)
  OBVIOUS
<1>2. CASE Len(s) = 0
  <2>1. FlattenSeq(s) = s /\ DOMAIN s = {}
    BY <1>1, <1>2 DEF FlattenSeq
  <2>2. QED
    BY <2>1 DEF Once
<1>3. CASE Len(s) # 0
  <2>0. Len(s) \in 1..Len(s)
    BY <1>1, <1>3
  <2> DEFINE f == CHOOSE g : Flatten(s, g, Len(s))
  <2>1. Flatten(s, f, Len(s))
    BY <2>0, FlattenExists
  <2>2. FlattenSeq(s) = f[Len(s)]
    BY <1>3 DEF FlattenSeq, Flatten
  <2> HIDE DEF f
  <2>3. \A k \in 1..Len(s) :
          /\ f[k] \in Seq(S) /\ s[k] \in Seq(S) /\ ToSet(f[k]) = UNION {ToSet(s[i]) : i \in 1..k}
          /\ f[k] = IF k = 1 THEN s[k] ELSE f[k - 1] \o s[k]
    <3>1. \A k \in 1..Len(s) : f[k] \in Seq(S) /\ ToSet(f[k]) = UNION {ToSet(s[i]) : i \in 1..k}
      BY <2>1, FlattenCollects
    <3>2. \A k \in 1..Len(s) : s[k] \in Seq(S)
      OBVIOUS
    <3>3. \A k \in 1..Len(s) : f[k] = IF k = 1 THEN s[k] ELSE f[k - 1] \o s[k]
      BY <2>1 DEF Flatten
    <3>4. QED
      BY <3>1, <3>2, <3>3
  <2> DEFINE T == {k \in 1..Len(s) : ~Once(f[k])}
  <2>4. T = {}
    <3> SUFFICES ASSUME T # {} PROVE FALSE
      OBVIOUS
    <3>1. PICK k \in T : \A j \in T : k <= j
      <4>1. T \subseteq Nat
        BY <1>1
      <4>2. QED
        BY <4>1, LeastNatural
    <3>2. CASE k = 1
      BY <1>1, <2>3, <3>2
    <3>3. CASE k # 1
      <4>1. k - 1 \in 1..Len(s) /\ ~(k <= k - 1) /\ k \in 1..Len(s) /\ k \notin 1..(k - 1) /\ 1..(k - 1) \subseteq 1..Len(s)
        BY <1>1, <3>3
      <4>2. Once(f[k - 1]) /\ Once(s[k])
        BY <1>1, <3>1, <4>1
      <4>3. \A i \in 1..(k - 1) : ToSet(s[i]) \cap ToSet(s[k]) = {}
        BY <1>1, <4>1
      <4>4. ToSet(f[k - 1]) \cap ToSet(s[k]) = {}
        <5>1. ToSet(f[k - 1]) = UNION {ToSet(s[i]) : i \in 1..(k - 1)}
          BY <2>3, <4>1
        <5>2. QED
          BY <4>3, <5>1
      <4>5. f[k] = f[k - 1] \o s[k] /\ f[k - 1] \in Seq(S) /\ s[k] \in Seq(S)
        BY <2>3, <3>3, <4>1
      <4>6. Once(f[k])
        BY <4>2, <4>4, <4>5, ConcatOnce
      <4>7. QED
        BY <4>6
    <3>4. QED
      BY <3>2, <3>3
  <2>5. QED
    BY <2>0, <2>2, <2>4
<1>4. QED
  BY <1>2, <1>3
=============================================================================
