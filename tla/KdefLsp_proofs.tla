--------------------------- MODULE KdefLsp_proofs ---------------------------
(***************************************************************************)
(* Proofs about the language server: whatever is on its way, the server    *)
(* comes to have the editor's texts.                                       *)
(***************************************************************************)
EXTENDS KdefLsp, KdefSequences_proofs, FiniteSetTheorems, TLAPS

(***************************************************************************)
(* Messages.                                                               *)
(***************************************************************************)
\* The messages that there are about d.
MessageAbout(d) ==
    [what : {"open"}, doc : {d}, text : Text[d]]
    \cup [what : {"change"}, doc : {d}, texts : Seq(Text[d]) \ {<<>>}]
    \cup [what : {"save"}, doc : {d}, text : Text[d] \cup {Absent}]
    \cup [what : {"close"}, doc : {d}]
    \cup [what : {"complete"}, doc : {d}, line : {c.line : c \in Cursor}, before : {c.before : c \in Cursor}]

Message == UNION {MessageAbout(d) : d \in Doc}

\* m says something of the text of d.
Tells(m, d) ==
    m.doc = d /\ (m.what \in {"open", "change", "close"} \/ (m.what = "save" /\ m.text # Absent))

\* What it says; None, that there is none.
Says(m) ==
    IF m.what = "close" THEN None ELSE IF m.what = "change" THEN m.texts[Len(m.texts)] ELSE m.text

Opens(m, d) == m.doc = d /\ m.what = "open"
Closes(m, d) == m.doc = d /\ m.what = "close"
Alters(m, d) == m.doc = d /\ m.what \in {"change", "save"}

\* The text that the server has of d after m, when it had s.
After(m, s, d) ==
    IF ~Tells(m, d) \/ (Alters(m, d) /\ s = None) THEN s ELSE Says(m)

(***************************************************************************)
(* The inductive invariant, for one document: the messages q on their way, *)
(* the server's text s and the editor's text b.                            *)
(***************************************************************************)
\* The server will have d open when it has handled the messages before the n-th.
OpenAt(q, s, d, n) ==
    \/ s # None /\ \A k \in 1..(n - 1) : ~Closes(q[k], d)
    \/ \E j \in 1..(n - 1) : Opens(q[j], d) /\ \A k \in (j + 1)..(n - 1) : ~Closes(q[k], d)

LastAbout(q, d, i) == Tells(q[i], d) /\ \A j \in (i + 1)..Len(q) : ~Tells(q[j], d)

Follows(q, s, b, d) ==
    /\ b # None => OpenAt(q, s, d, Len(q) + 1)
    /\ \A i \in 1..Len(q) : Alters(q[i], d) => OpenAt(q, s, d, i)
    /\ \A i \in 1..Len(q) : LastAbout(q, d, i) => Says(q[i]) = b
    /\ (\A i \in 1..Len(q) : ~Tells(q[i], d)) => s = b

\* f gives each document one of its texts, or none.
TextsOf(f) == f \in [Doc -> UNION {Texts(d) : d \in Doc}] /\ \A d \in Doc : f[d] \in Texts(d)

Typed ==
    /\ TextsOf(disk) /\ TextsOf(buffer) /\ TextsOf(store)
    /\ toServer \in Seq(Message)

IInv == Typed /\ \A d \in Doc : Follows(toServer, store[d], buffer[d], d)

-----------------------------------------------------------------------------
\* What a message is.
LEMMA MessageIsOK ==
    ASSUME NEW m \in Message
    PROVE  /\ m.doc \in Doc /\ m.what \in {"open", "change", "save", "close", "complete"}
           /\ m.what = "open" => m.text \in Text[m.doc]
           /\ m.what = "change" => m.texts \in Seq(Text[m.doc]) /\ Len(m.texts) > 0
           /\ m.what = "save" => m.text \in Text[m.doc] \cup {Absent}
<1>1. PICK d \in Doc : m \in MessageAbout(d)
  BY DEF Message
<1>2. CASE m \in [what : {"change"}, doc : {d}, texts : Seq(Text[d]) \ {<<>>}]
  <2>1. m.doc = d /\ m.what = "change" /\ m.texts \in Seq(Text[d]) /\ m.texts # <<>>
    BY <1>2
  <2>2. Len(m.texts) > 0
    BY <2>1, EmptySeq, LenProperties
  <2>3. QED
    BY <2>1, <2>2
<1>3. QED
  BY <1>1, <1>2 DEF MessageAbout

LEMMA ShortSequences ==
    ASSUME NEW S, NEW t \in S, NEW u \in S
    PROVE  <<t>> \in Seq(S) /\ <<u, t>> \in Seq(S)
OBVIOUS

LEMMA AboutIsMessage == \A d \in Doc : MessageAbout(d) \subseteq Message
BY DEF Message

\* A message that tells something of a document and does not close it has a text of it.
LEMMA SaysText ==
    ASSUME NEW m \in Message, NEW d \in Doc, Tells(m, d)
    PROVE  IF Closes(m, d) THEN Says(m) = None ELSE Says(m) \in Text[d] /\ Says(m) # None
<1>1. CASE m.what = "change"
  <2>1. m.texts \in Seq(Text[d]) /\ Len(m.texts) > 0
    BY <1>1, MessageIsOK DEF Tells
  <2>2. m.texts[Len(m.texts)] \in Text[d]
    BY <2>1, ElementOfSeq, LenProperties
  <2>3. QED
    BY <1>1, <2>2, LspAssumption DEF Says, Closes
<1>2. QED
  BY <1>1, MessageIsOK, LspAssumption DEF Tells, Says, Closes

-----------------------------------------------------------------------------
\* The editor sends a message that fits its text: a change or a save of an open
\* document, with what the text is from then on.
LEMMA SentFollows ==
    ASSUME NEW q \in Seq(Message), NEW m \in Message, NEW d \in Doc, NEW s, NEW b, NEW c,
           Follows(q, s, b, d),
           Alters(m, d) => b # None,
           IF Tells(m, d) THEN Says(m) = c ELSE c = b
    PROVE  Follows(Append(q, m), s, c, d)
<1> DEFINE p == Append(q, m)
           n == Len(q) + 1
<1>1. /\ n \in Nat /\ Len(p) = n /\ p[n] = m
      /\ \A i \in 1..Len(q) : p[i] = q[i]
  BY AppendProperties, LenProperties
<1>2. \A i \in 1..n : OpenAt(p, s, d, i) <=> OpenAt(q, s, d, i)
  BY <1>1, LenProperties DEF OpenAt
<1> HIDE DEF p
<1>3. ASSUME NEW i \in 1..Len(p), Alters(p[i], d) PROVE OpenAt(p, s, d, i)
  <2>1. CASE i = n
    BY <1>1, <1>2, <1>3, <2>1 DEF Follows
  <2>2. CASE i # n
    BY <1>1, <1>2, <1>3, <2>2, LenProperties DEF Follows
  <2>3. QED
    BY <2>1, <2>2
<1>4. ASSUME c # None PROVE OpenAt(p, s, d, n + 1)
  <2>1. CASE Opens(m, d)
    BY <1>1, <2>1 DEF OpenAt
  <2>2. CASE ~Opens(m, d)
    <3>1. b # None /\ ~Closes(m, d)
      BY <1>4, <2>2, MessageIsOK, SaysText DEF Alters, Tells, Opens, Closes
    <3>2. OpenAt(p, s, d, n)
      BY <3>1, <1>1, <1>2 DEF Follows
    <3>3. QED
      BY <3>1, <3>2, <1>1 DEF OpenAt
  <2>3. QED
    BY <2>1, <2>2
<1>5. ASSUME NEW i \in 1..Len(p), LastAbout(p, d, i) PROVE Says(p[i]) = c
  <2>1. CASE i = n
    BY <1>1, <1>5, <2>1 DEF LastAbout
  <2>2. CASE i # n
    <3>1. i \in 1..Len(q) /\ ~Tells(m, d)
      BY <1>1, <1>5, <2>2, LenProperties DEF LastAbout
    <3>2. LastAbout(q, d, i)
      BY <1>1, <1>5, <3>1, LenProperties DEF LastAbout
    <3>3. QED
      BY <1>1, <3>1, <3>2 DEF Follows
  <2>3. QED
    BY <2>1, <2>2
<1>6. ASSUME \A i \in 1..Len(p) : ~Tells(p[i], d) PROVE s = c
  <2>1. ~Tells(m, d) /\ \A i \in 1..Len(q) : ~Tells(q[i], d)
    BY <1>1, <1>6, LenProperties
  <2>2. QED
    BY <2>1 DEF Follows
<1>7. QED
  BY <1>1, <1>3, <1>4, <1>5, <1>6 DEF Follows, p

\* The server handles the first message.
LEMMA HandledFollows ==
    ASSUME NEW q \in Seq(Message), q # <<>>, NEW d \in Doc, NEW s, NEW b,
           Follows(q, s, b, d)
    PROVE  Follows(Tail(q), After(Head(q), s, d), b, d)
<1> DEFINE p == Tail(q)
           m == Head(q)
           r == After(m, s, d)
<1>1. /\ Len(q) \in Nat /\ Len(q) > 0 /\ Len(p) = Len(q) - 1 /\ m = q[1] /\ m \in Message
      /\ \A i \in 1..Len(p) : p[i] = q[i + 1]
  BY HeadTailProperties, LenProperties, EmptySeq, ElementOfSeq
<1> HIDE DEF p, m
<1>2. ASSUME NEW i \in 1..Len(q), OpenAt(q, s, d, i + 1) PROVE OpenAt(p, r, d, i)
  <2>1. CASE ~Closes(m, d) /\ (s # None \/ Opens(m, d)) /\ \A k \in 1..(i - 1) : ~Closes(p[k], d)
    <3>1. Tells(m, d) => Says(m) # None
      BY <1>1, <2>1, SaysText
    <3>2. Opens(m, d) => Tells(m, d) /\ ~Alters(m, d)
      BY DEF Opens, Tells, Alters
    <3>3. r # None
      BY <2>1, <3>1, <3>2 DEF After
    <3>4. QED
      BY <2>1, <3>3 DEF OpenAt
  <2>2. CASE s # None /\ \A k \in 1..i : ~Closes(q[k], d)
    <3>1. \A k \in 1..(i - 1) : ~Closes(p[k], d)
      BY <1>1, <2>2
    <3>2. QED
      BY <1>1, <2>1, <2>2, <3>1
  <2>3. ASSUME NEW j \in 1..i, Opens(q[j], d), \A k \in (j + 1)..i : ~Closes(q[k], d)
        PROVE  OpenAt(p, r, d, i)
    <3>1. CASE j = 1
      <4>1. \A k \in 1..(i - 1) : ~Closes(p[k], d)
        BY <1>1, <2>3, <3>1
      <4>2. QED
        BY <1>1, <2>1, <2>3, <3>1, <4>1 DEF Opens, Closes
    <3>2. CASE j # 1
      <4>1. j - 1 \in 1..(i - 1) /\ p[j - 1] = q[j]
        BY <1>1, <3>2
      <4>2. ASSUME NEW k \in j..(i - 1) PROVE ~Closes(p[k], d)
        <5>1. k \in 1..Len(p) /\ k + 1 \in (j + 1)..i
          BY <1>1
        <5>2. QED
          BY <1>1, <2>3, <5>1
      <4>3. QED
        BY <4>1, <4>2, <2>3 DEF OpenAt
    <3>3. QED
      BY <3>1, <3>2
  <2>4. QED
    BY <1>2, <2>2, <2>3 DEF OpenAt
<1>3. b # None => OpenAt(p, r, d, Len(p) + 1)
  BY <1>1, <1>2 DEF Follows
<1>4. ASSUME NEW i \in 1..Len(p), Alters(p[i], d) PROVE OpenAt(p, r, d, i)
  <2>1. i + 1 \in 1..Len(q) /\ p[i] = q[i + 1] /\ i \in 1..Len(q)
    BY <1>1
  <2>2. OpenAt(q, s, d, i + 1)
    BY <1>4, <2>1 DEF Follows
  <2>3. QED
    BY <1>2, <2>1, <2>2
<1>5. ASSUME NEW i \in 1..Len(p), LastAbout(p, d, i) PROVE Says(p[i]) = b
  <2>1. i + 1 \in 1..Len(q) /\ p[i] = q[i + 1]
    BY <1>1
  <2>2. LastAbout(q, d, i + 1)
    <3>1. ASSUME NEW j \in (i + 2)..Len(q) PROVE ~Tells(q[j], d)
      <4>1. j - 1 \in (i + 1)..Len(p) /\ j - 1 \in 1..Len(p) /\ p[j - 1] = q[j]
        BY <1>1, <3>1
      <4>2. QED
        BY <1>5, <4>1 DEF LastAbout
    <3>2. QED
      BY <1>5, <2>1, <3>1 DEF LastAbout
  <2>3. QED
    BY <2>1, <2>2 DEF Follows
<1>6. ASSUME \A i \in 1..Len(p) : ~Tells(p[i], d) PROVE r = b
  <2>1. \A j \in 2..Len(q) : ~Tells(q[j], d)
    <3> SUFFICES ASSUME NEW j \in 2..Len(q) PROVE ~Tells(q[j], d)
      OBVIOUS
    <3>1. j - 1 \in 1..Len(p) /\ p[j - 1] = q[j]
      BY <1>1
    <3>2. QED
      BY <1>6, <3>1
  <2>2. CASE ~Tells(m, d)
    <3>1. \A j \in 1..Len(q) : ~Tells(q[j], d)
      BY <1>1, <2>1, <2>2
    <3>2. QED
      BY <2>2, <3>1 DEF After, Follows
  <2>3. CASE Tells(m, d)
    <3>1. LastAbout(q, d, 1) /\ 1 \in 1..Len(q)
      BY <1>1, <2>1, <2>3 DEF LastAbout
    <3>2. Says(m) = b
      BY <1>1, <3>1 DEF Follows
    <3>3. Alters(m, d) => s # None
      BY <1>1, <3>1 DEF Follows, OpenAt
    <3>4. QED
      BY <2>3, <3>2, <3>3 DEF After
  <2>4. QED
    BY <2>2, <2>3
<1>7. QED
  BY <1>3, <1>4, <1>5, <1>6 DEF Follows, p, m

-----------------------------------------------------------------------------
LEMMA InitFollows == Init => IInv
<1> SUFFICES ASSUME Init PROVE IInv
  OBVIOUS
<1>1. Typed
  <2> DEFINE All == UNION {Texts(d) : d \in Doc}
  <2>1. \A d \in Doc : None \in Texts(d) /\ Disk[d] \in Texts(d) /\ Texts(d) \subseteq All
    BY LspAssumption DEF Texts
  <2>2. toServer \in Seq(Message)
    BY EmptySeq DEF Init
  <2> HIDE DEF All
  <2>3. disk \in [Doc -> All] /\ buffer \in [Doc -> All] /\ store \in [Doc -> All]
    BY <2>1, LspAssumption DEF Init
  <2>4. QED
    BY <2>1, <2>2, <2>3 DEF Init, Typed, TextsOf, All
<1>2. \A d \in Doc : Follows(toServer, store[d], buffer[d], d)
  BY EmptySeq DEF Init, Follows
<1>3. QED
  BY <1>1, <1>2 DEF IInv

\* What the editor sends fits the text that it has then.
LEMMA SendFollows ==
    ASSUME IInv, NEW m \in Message,
           toServer' = Append(toServer, m), store' = store,
           \A d \in Doc : Alters(m, d) => buffer[d] # None,
           \A d \in Doc : IF Tells(m, d) THEN Says(m) = buffer'[d] ELSE buffer'[d] = buffer[d]
    PROVE  \A d \in Doc : Follows(toServer', store'[d], buffer'[d], d)
<1> TAKE d \in Doc
<1>1. toServer \in Seq(Message) /\ Follows(toServer, store[d], buffer[d], d)
  BY DEF IInv, Typed, TextsOf
<1>2. QED
  BY <1>1, SentFollows

\* A document gets another text.
LEMMA TextChanges ==
    ASSUME NEW f, TextsOf(f), NEW d \in Doc, NEW t \in Text[d] \cup {None}
    PROVE  TextsOf([f EXCEPT ![d] = t])
<1> DEFINE g == [f EXCEPT ![d] = t]
<1>1. t \in Texts(d)
  BY DEF Texts
<1>2. g = [e \in Doc |-> IF e = d THEN t ELSE f[e]]
  BY DEF TextsOf
<1> HIDE DEF g
<1>3. \A e \in Doc : g[e] \in Texts(e)
  BY <1>1, <1>2 DEF TextsOf
<1>4. g \in [Doc -> UNION {Texts(e) : e \in Doc}]
  BY <1>2, <1>3
<1>5. QED
  BY <1>3, <1>4 DEF TextsOf, g

LEMMA MessageSent ==
    ASSUME NEW q \in Seq(Message), NEW m \in Message
    PROVE  Append(q, m) \in Seq(Message)
BY AppendProperties

LEMMA UserFollows == IInv /\ User => IInv'
<1> SUFFICES ASSUME IInv, User PROVE IInv'
  OBVIOUS
<1> USE DEF IInv, Typed
<1>1. CASE OpenDocument
  <2>1. PICK d \in Editable :
          /\ buffer[d] = None /\ disk[d] # None
          /\ buffer' = [buffer EXCEPT ![d] = disk[d]]
          /\ toServer' = Append(toServer, [what |-> "open", doc |-> d, text |-> disk[d]])
    BY <1>1 DEF OpenDocument
  <2> DEFINE m == [what |-> "open", doc |-> d, text |-> disk[d]]
  <2>2. d \in Doc /\ disk[d] \in Text[d] /\ UNCHANGED <<disk, store>>
    BY <1>1, <2>1, LspAssumption DEF OpenDocument, TextsOf, Texts
  <2>3. m \in Message
    <3>1. m \in MessageAbout(d)
      BY <2>2 DEF MessageAbout
    <3>2. QED
      BY <2>2, <3>1, AboutIsMessage
  <2>4. \A e \in Doc : Follows(toServer', store'[e], buffer'[e], e)
    BY <2>1, <2>2, <2>3, SendFollows DEF Tells, Says, Alters, TextsOf
  <2>5. Typed'
    <3>1. TextsOf(buffer')
      BY <2>1, <2>2, TextChanges
    <3>2. toServer' \in Seq(Message)
      BY <2>1, <2>3, MessageSent
    <3>3. QED
      BY <2>2, <3>1, <3>2
  <2>6. QED
    BY <2>4, <2>5
<1>2. CASE Edit
  <2> DEFINE Edited(d, t, u) ==
                 /\ buffer[d] # None
                 /\ buffer' = [buffer EXCEPT ![d] = t]
                 /\ toServer' = Append(toServer, [what |-> "change", doc |-> d,
                                                  texts |-> IF u = t THEN <<t>> ELSE <<u, t>>])
  <2>0. PICK d \in Editable : \E t, u \in Text[d] : Edited(d, t, u)
    BY <1>2 DEF Edit
  <2>1. PICK t \in Text[d], u \in Text[d] : Edited(d, t, u)
    BY <2>0
  <2> DEFINE s == IF u = t THEN <<t>> ELSE <<u, t>>
             m == [what |-> "change", doc |-> d, texts |-> s]
  <2>2. d \in Doc /\ UNCHANGED <<disk, store>>
    BY <1>2, LspAssumption DEF Edit
  <2>3. s \in Seq(Text[d]) \ {<<>>} /\ s[Len(s)] = t
    <3>1. <<t>> \in Seq(Text[d]) /\ <<u, t>> \in Seq(Text[d])
      BY ShortSequences
    <3>2. Len(<<t>>) = 1 /\ Len(<<u, t>>) = 2 /\ <<t>>[1] = t /\ <<u, t>>[2] = t
      OBVIOUS
    <3>3. s # <<>>
      BY <3>2, EmptySeq
    <3>4. QED
      BY <3>1, <3>2, <3>3
  <2>4. m \in Message
    <3>1. m \in MessageAbout(d)
      BY <2>2, <2>3 DEF MessageAbout
    <3>2. QED
      BY <2>2, <3>1, AboutIsMessage
  <2>5. \A e \in Doc : Follows(toServer', store'[e], buffer'[e], e)
    BY <2>1, <2>2, <2>3, <2>4, SendFollows DEF Tells, Says, Alters, TextsOf
  <2>6. Typed'
    <3>1. TextsOf(buffer')
      BY <2>1, <2>2, TextChanges
    <3>2. toServer' \in Seq(Message)
      BY <2>1, <2>4, MessageSent
    <3>3. QED
      BY <2>2, <3>1, <3>2
  <2>7. QED
    BY <2>5, <2>6
<1>3. CASE Save
  <2>1. PICK d \in Editable, with \in BOOLEAN :
          /\ buffer[d] # None
          /\ disk' = [disk EXCEPT ![d] = buffer[d]]
          /\ toServer' = Append(toServer, [what |-> "save", doc |-> d,
                                           text |-> IF with THEN buffer[d] ELSE Absent])
    BY <1>3 DEF Save
  <2> DEFINE m == [what |-> "save", doc |-> d, text |-> IF with THEN buffer[d] ELSE Absent]
  <2>2. d \in Doc /\ buffer[d] \in Text[d] /\ UNCHANGED <<buffer, store>>
    BY <1>3, <2>1, LspAssumption DEF Save, TextsOf, Texts
  <2>3. m \in Message
    <3>1. m \in MessageAbout(d)
      BY <2>2 DEF MessageAbout
    <3>2. QED
      BY <2>2, <3>1, AboutIsMessage
  <2>4. \A e \in Doc : Follows(toServer', store'[e], buffer'[e], e)
    BY <2>1, <2>2, <2>3, SendFollows DEF Tells, Says, Alters, TextsOf
  <2>5. Typed'
    <3>1. TextsOf(disk')
      BY <2>1, <2>2, TextChanges
    <3>2. toServer' \in Seq(Message)
      BY <2>1, <2>3, MessageSent
    <3>3. QED
      BY <2>2, <3>1, <3>2
  <2>6. QED
    BY <2>4, <2>5
<1>4. CASE Close
  <2>1. PICK d \in Editable :
          /\ buffer[d] # None
          /\ buffer' = [buffer EXCEPT ![d] = None]
          /\ toServer' = Append(toServer, [what |-> "close", doc |-> d])
    BY <1>4 DEF Close
  <2> DEFINE m == [what |-> "close", doc |-> d]
  <2>2. d \in Doc /\ UNCHANGED <<disk, store>>
    BY <1>4, LspAssumption DEF Close
  <2>3. m \in Message
    <3>1. m \in MessageAbout(d)
      BY <2>2 DEF MessageAbout
    <3>2. QED
      BY <2>2, <3>1, AboutIsMessage
  <2>4. \A e \in Doc : Follows(toServer', store'[e], buffer'[e], e)
    BY <2>1, <2>2, <2>3, SendFollows DEF Tells, Says, Alters, TextsOf
  <2>5. Typed'
    <3>1. TextsOf(buffer')
      BY <2>1, <2>2, TextChanges
    <3>2. toServer' \in Seq(Message)
      BY <2>1, <2>3, MessageSent
    <3>3. QED
      BY <2>2, <3>1, <3>2
  <2>6. QED
    BY <2>4, <2>5
<1>5. CASE WriteFile
  <2>0. PICK d \in Doc : \E t \in Text[d] \cup {None} : disk' = [disk EXCEPT ![d] = t]
    BY <1>5 DEF WriteFile
  <2>1. PICK t \in Text[d] \cup {None} : disk' = [disk EXCEPT ![d] = t]
    BY <2>0
  <2>2. UNCHANGED <<buffer, store, toServer>>
    BY <1>5 DEF WriteFile
  <2>3. TextsOf(disk')
    BY <2>1, TextChanges
  <2>4. QED
    BY <2>2, <2>3
<1>6. CASE Ask
  <2>1. PICK d \in Editable, at \in Cursor :
          toServer' = Append(toServer, [what |-> "complete", doc |-> d, line |-> at.line, before |-> at.before])
    BY <1>6 DEF Ask
  <2> DEFINE m == [what |-> "complete", doc |-> d, line |-> at.line, before |-> at.before]
  <2>2. d \in Doc /\ UNCHANGED <<disk, buffer, store>>
    BY <1>6, LspAssumption DEF Ask
  <2>3. m \in Message
    <3>1. m \in MessageAbout(d)
      BY DEF MessageAbout
    <3>2. QED
      BY <2>2, <3>1, AboutIsMessage
  <2>4. \A e \in Doc : Follows(toServer', store'[e], buffer'[e], e)
    BY <2>1, <2>2, <2>3, SendFollows DEF Tells, Says, Alters, TextsOf
  <2>5. Typed'
    BY <2>1, <2>2, <2>3, MessageSent
  <2>6. QED
    BY <2>4, <2>5
<1>7. QED
  BY <1>1, <1>2, <1>3, <1>4, <1>5, <1>6 DEF User

\* Each handler does to the store what After says.
LEMMA HandleStores ==
    ASSUME IInv, Handle
    PROVE  /\ toServer # <<>> /\ toServer' = Tail(toServer) /\ UNCHANGED <<disk, buffer>>
           /\ store' = [d \in Doc |-> After(Head(toServer), store[d], d)]
<1> DEFINE m == Head(toServer)
<1>1. toServer # <<>> /\ toServer' = Tail(toServer) /\ UNCHANGED <<disk, buffer>>
  BY DEF Handle
<1>2. m \in Message /\ m.doc \in Doc /\ store = [d \in Doc |-> store[d]]
  BY <1>1, HeadTailProperties, MessageIsOK DEF IInv, Typed, TextsOf
<1> HIDE DEF m
<1>3. CASE m.what = "open"
  BY <1>1, <1>2, <1>3 DEF Handle, didOpen, After, Tells, Says, Alters, m
<1>4. CASE m.what = "change"
  BY <1>1, <1>2, <1>4 DEF Handle, didChange, Update, After, Tells, Says, Alters, m
<1>5. CASE m.what = "save"
  BY <1>1, <1>2, <1>5 DEF Handle, didSave, Update, After, Tells, Says, Alters, m
<1>6. CASE m.what = "close"
  BY <1>1, <1>2, <1>6 DEF Handle, didClose, After, Tells, Says, Alters, m
<1>7. CASE m.what = "complete"
  BY <1>1, <1>2, <1>7 DEF Handle, complete, After, Tells, Says, Alters, m
<1>8. QED
  BY <1>2, <1>3, <1>4, <1>5, <1>6, <1>7, MessageIsOK

LEMMA HandleFollows == IInv /\ Handle => IInv'
<1> SUFFICES ASSUME IInv, Handle PROVE IInv'
  OBVIOUS
<1>1. /\ toServer # <<>> /\ toServer' = Tail(toServer) /\ UNCHANGED <<disk, buffer>>
      /\ store' = [d \in Doc |-> After(Head(toServer), store[d], d)]
  BY HandleStores
<1>2. toServer \in Seq(Message) /\ Head(toServer) \in Message /\ Tail(toServer) \in Seq(Message)
  BY <1>1, HeadTailProperties DEF IInv, Typed, TextsOf
<1>3. \A d \in Doc : store'[d] \in Texts(d)
  BY <1>1, <1>2, SaysText DEF IInv, Typed, TextsOf, After, Texts
<1>4. Typed'
  BY <1>1, <1>2, <1>3 DEF IInv, Typed, TextsOf
<1>5. \A d \in Doc : Follows(toServer', store'[d], buffer'[d], d)
  BY <1>1, <1>2, HandledFollows DEF IInv
<1>6. QED
  BY <1>4, <1>5 DEF IInv

LEMMA NextFollows == IInv /\ [Next]_vars => IInv'
<1> SUFFICES ASSUME IInv, [Next]_vars PROVE IInv'
  OBVIOUS
<1>1. CASE Receive \/ UNCHANGED vars
  BY <1>1 DEF Receive, vars, IInv, Typed, TextsOf
<1>2. QED
  BY <1>1, UserFollows, HandleFollows DEF Next

\* Of any number of documents, open in any order, and any number of messages on
\* their way, each has what the server needs to come to the editor's text.
THEOREM Inductive == Spec => []IInv
<1>1. IInv /\ [Next]_vars => IInv'
  BY NextFollows
<1>2. QED
  BY <1>1, InitFollows, PTL DEF Spec

\* When no message about a document is on its way, the server has the editor's
\* text of it, whatever the user has done and however far the server was behind.
THEOREM Synchronised == Spec => []StoreFollowsTheEditor
<1>1. IInv => StoreFollowsTheEditor
  <2> SUFFICES ASSUME IInv, NEW d \in Doc, About(d) = {} PROVE store[d] = buffer[d]
    BY DEF StoreFollowsTheEditor
  <2>1. \A i \in 1..Len(toServer) : ~Tells(toServer[i], d)
    BY LenProperties DEF IInv, Typed, TextsOf, About, Tells
  <2>2. QED
    BY <2>1 DEF IInv, Follows
<1>2. QED
  BY <1>1, Inductive, PTL
-----------------------------------------------------------------------------
(***************************************************************************)
(* Types.                                                                  *)
(***************************************************************************)
Shown(d) == {"syntax", "import"} \cup UNION {t.uses : t \in Text[d]}

IsReply(m) ==
    \/ m.what = "diagnostics" /\ m.doc \in Doc /\ m.errors \subseteq Shown(m.doc)
    \/ m.what = "completion"

RepliesTyped == \E S : toClient \in Seq(S) /\ \A m \in S : IsReply(m)

EditorTyped ==
    /\ shown = [d \in Doc |-> shown[d]] /\ \A d \in Doc : shown[d] \subseteq Shown(d)
    /\ fresh \subseteq Editable /\ steps \in 0..MaxSteps
    /\ asked # None => asked \in Question /\ asked.texts[asked.doc] # None

\* A reply more, or one less.
LEMMA ReplySent ==
    ASSUME RepliesTyped, NEW m, IsReply(m), toClient' = Append(toClient, m)
    PROVE  RepliesTyped'
<1>1. PICK S : toClient \in Seq(S) /\ \A n \in S : IsReply(n)
  BY DEF RepliesTyped
<1> DEFINE T == S \cup {m}
<1>2. toClient \in Seq(T) /\ m \in T
  BY <1>1, SeqMonotonic
<1>3. Append(toClient, m) \in Seq(T)
  BY <1>2, AppendProperties
<1>4. \A n \in T : IsReply(n)
  BY <1>1
<1>5. QED
  BY <1>3, <1>4 DEF RepliesTyped, IsReply, Shown

LEMMA ReplyTaken ==
    ASSUME RepliesTyped, toClient # <<>>, toClient' = Tail(toClient)
    PROVE  IsReply(Head(toClient)) /\ RepliesTyped'
<1>1. PICK S : toClient \in Seq(S) /\ \A n \in S : IsReply(n)
  BY DEF RepliesTyped
<1>2. Head(toClient) \in S /\ Tail(toClient) \in Seq(S)
  BY <1>1, HeadTailProperties
<1>3. QED
  BY <1>1, <1>2 DEF RepliesTyped, IsReply, Shown

\* What is said of a text is about it.
LEMMA DiagnosesText ==
    ASSUME NEW d \in Doc, NEW t \in Text[d]
    PROVE  IsReply([what |-> "diagnostics", doc |-> d, errors |-> diagnoseFile(d, t)])
<1>1. diagnoseFile(d, t) \subseteq {"syntax", "import"} \cup t.uses
  BY DEF diagnoseFile
<1>2. QED
  BY <1>1 DEF IsReply, Shown

LEMMA HandleReplies ==
    ASSUME IInv, RepliesTyped, Handle
    PROVE  RepliesTyped'
<1> DEFINE m == Head(toServer)
<1>1. toServer # <<>> /\ m \in Message /\ m.doc \in Doc
  BY HeadTailProperties, MessageIsOK DEF Handle, IInv, Typed, TextsOf
<1>2. ASSUME NEW t \in Text[m.doc], Publish(m.doc, t) PROVE RepliesTyped'
  BY <1>1, <1>2, DiagnosesText, ReplySent DEF Publish
<1>3. ASSUME UNCHANGED toClient PROVE RepliesTyped'
  BY <1>3 DEF RepliesTyped, IsReply, Shown
<1>4. Tells(m, m.doc) /\ m.what # "close" => Says(m) \in Text[m.doc]
  BY <1>1, SaysText DEF Closes
<1> HIDE DEF m
<1>5. CASE m.what = "open" /\ didOpen(m)
  <2>1. m.text \in Text[m.doc]
    BY <1>1, <1>5, MessageIsOK
  <2>2. QED
    BY <1>2, <1>5, <2>1 DEF didOpen
<1>6. CASE m.what = "change" /\ didChange(m)
  <2>1. m.texts[Len(m.texts)] \in Text[m.doc]
    BY <1>4, <1>6 DEF Tells, Says
  <2>2. QED
    BY <1>2, <1>6, <2>1 DEF didChange
<1>7. CASE m.what = "save" /\ didSave(m)
  <2>1. m.text # Absent => m.text \in Text[m.doc]
    BY <1>1, <1>7, MessageIsOK
  <2>2. QED
    BY <1>2, <1>3, <1>7, <2>1 DEF didSave
<1>8. CASE m.what = "close" /\ didClose(m)
  BY <1>3, <1>8 DEF didClose
<1>9. CASE m.what = "complete" /\ complete(m)
  <2> DEFINE r == [what |-> "completion", answer |-> completion(m.doc, m.line, m.before)]
  <2>1. toClient' = Append(toClient, r) /\ IsReply(r)
    BY <1>9 DEF complete, IsReply
  <2>2. QED
    BY <2>1, ReplySent
<1>10. QED
  BY <1>5, <1>6, <1>7, <1>8, <1>9 DEF Handle, m

LEMMA UserTypes ==
    ASSUME IInv, IInv', EditorTyped, User
    PROVE  EditorTyped'
<1>1. /\ UNCHANGED shown
      /\ steps \in 0..MaxSteps /\ steps' \in 0..MaxSteps
      /\ fresh' \subseteq Editable
  <2>1. UNCHANGED shown
    BY DEF User, OpenDocument, Edit, Save, Close, WriteFile, Ask
  <2>2. Step
    BY DEF User, OpenDocument, Edit, Save, Close, WriteFile, Ask
  <2>3. steps \in 0..MaxSteps /\ steps' \in 0..MaxSteps
    BY <2>2, LspAssumption DEF EditorTyped, Step
  <2>4. fresh' \subseteq fresh \cup Editable
    <3>1. CASE OpenDocument
      BY <3>1 DEF OpenDocument
    <3>2. CASE Edit
      BY <3>2 DEF Edit
    <3>3. CASE Save
      BY <3>3 DEF Save
    <3>4. CASE Close \/ WriteFile \/ Ask
      BY <3>4 DEF Close, WriteFile, Ask
    <3>5. QED
      BY <3>1, <3>2, <3>3, <3>4 DEF User
  <2>5. QED
    BY <2>1, <2>3, <2>4 DEF EditorTyped
<1>2. UNCHANGED asked \/ Meanwhile \/ Ask
  BY DEF User, OpenDocument, Edit, Save, Close, WriteFile
<1>3. asked' # None => asked' \in Question /\ asked'.texts[asked'.doc] # None
  <2>1. CASE Ask
    <3>1. PICK d \in Editable, at \in Cursor :
            /\ buffer[d] # None
            /\ asked' = [doc |-> d, line |-> at.line, texts |-> buffer, disks |-> {disk}]
      BY <2>1 DEF Ask
    <3>2. buffer \in AllTexts /\ disk \in AllTexts
      BY DEF IInv, Typed, TextsOf, AllTexts
    <3>3. QED
      BY <3>1, <3>2 DEF Question
  <2>2. CASE UNCHANGED asked
    BY <2>2 DEF EditorTyped
  <2>3. CASE Meanwhile
    <3>1. disk' \in AllTexts
      BY DEF IInv, Typed, TextsOf, AllTexts
    <3>2. QED
      BY <2>3, <3>1 DEF Meanwhile, EditorTyped, Question
  <2>4. QED
    BY <1>2, <2>1, <2>2, <2>3
<1>4. QED
  BY <1>1, <1>3 DEF EditorTyped, Shown

LEMMA ReceiveTypes ==
    ASSUME EditorTyped, RepliesTyped, Receive
    PROVE  EditorTyped' /\ RepliesTyped'
<1>1. IsReply(Head(toClient)) /\ RepliesTyped'
  BY ReplyTaken DEF Receive
<1>2. CASE Head(toClient).what = "diagnostics"
  BY <1>1, <1>2 DEF Receive, EditorTyped, IsReply, Shown
<1>3. CASE Head(toClient).what = "completion"
  BY <1>1, <1>3 DEF Receive, EditorTyped, Shown
<1>4. QED
  BY <1>1, <1>2, <1>3 DEF IsReply

LEMMA InitTypes == Init => EditorTyped /\ RepliesTyped
<1> SUFFICES ASSUME Init PROVE EditorTyped /\ RepliesTyped
  OBVIOUS
<1>1. EditorTyped
  BY LspAssumption DEF Init, EditorTyped
<1>2. toClient \in Seq({})
  BY EmptySeq DEF Init
<1>3. QED
  BY <1>1, <1>2 DEF RepliesTyped

LEMMA NextTypes == IInv /\ IInv' /\ EditorTyped /\ RepliesTyped /\ [Next]_vars => EditorTyped' /\ RepliesTyped'
<1> SUFFICES ASSUME EditorTyped, RepliesTyped, IInv, IInv', [Next]_vars PROVE EditorTyped' /\ RepliesTyped'
  OBVIOUS
<1>1. UNCHANGED toClient => RepliesTyped'
  BY DEF RepliesTyped, IsReply, Shown
<1>2. CASE User
  BY <1>1, <1>2, UserTypes DEF User, OpenDocument, Edit, Save, Close, WriteFile, Ask
<1>3. CASE Receive
  BY <1>3, ReceiveTypes
<1>4. CASE Handle
  BY <1>4, HandleReplies DEF Handle, EditorTyped, Shown
<1>5. CASE UNCHANGED vars
  BY <1>1, <1>5 DEF vars, EditorTyped, Shown
<1>6. QED
  BY <1>2, <1>3, <1>4, <1>5 DEF Next

LEMMA Types == Spec => [](IInv /\ EditorTyped /\ RepliesTyped)
<1>1. IInv /\ [Next]_vars => IInv'
  BY NextFollows
<1>2. QED
  BY <1>1, InitFollows, InitTypes, NextTypes, PTL DEF Spec

\* Every variable keeps its type, in every behaviour: diagnostics speak of
\* variables that some text of the document uses, and whoever is answered asked
\* about an open document.
THEOREM Typing == Spec => []TypeOK
<1>1. IInv /\ EditorTyped /\ RepliesTyped => TypeOK
  <2> SUFFICES ASSUME IInv, EditorTyped, RepliesTyped PROVE TypeOK
    OBVIOUS
  <2>1. \A d \in Doc : {disk[d], buffer[d], store[d]} \subseteq Texts(d)
    BY DEF IInv, Typed, TextsOf
  <2>2. \A i \in DOMAIN toServer : toServer[i].what \in {"open", "change", "save", "close", "complete"}
    <3> SUFFICES ASSUME NEW i \in DOMAIN toServer
                 PROVE  toServer[i].what \in {"open", "change", "save", "close", "complete"}
      OBVIOUS
    <3>1. toServer[i] \in Message
      BY ElementOfSeq, LenProperties DEF IInv, Typed, TextsOf
    <3>2. QED
      BY <3>1, MessageIsOK
  <2>3. \A i \in DOMAIN toClient : toClient[i].what \in {"diagnostics", "completion"}
    <3>1. PICK S : toClient \in Seq(S) /\ \A m \in S : IsReply(m)
      BY DEF RepliesTyped
    <3>2. \A i \in DOMAIN toClient : toClient[i] \in S
      BY <3>1, ElementOfSeq, LenProperties
    <3>3. QED
      BY <3>1, <3>2 DEF IsReply
  <2>4. QED
    BY <2>1, <2>2, <2>3 DEF EditorTyped, Shown, TypeOK
<1>2. QED
  BY <1>1, Types, PTL
-----------------------------------------------------------------------------
(***************************************************************************)
(* Variables: the recursion that loads files and their imports ends, and   *)
(* loads every file that imports lead to, no other, and the directory's    *)
(* own last.                                                               *)
(***************************************************************************)
\* How many files there are left to see; fewer with every call.
Unseen(seen) == Cardinality(Doc \ seen)

LEMMA UnseenShrinks ==
    ASSUME NEW s \in SUBSET Doc, NEW t \in SUBSET Doc, s \subseteq t
    PROVE  /\ Unseen(s) \in Nat /\ Unseen(t) \in Nat
           /\ t # s => Unseen(t) < Unseen(s)
<1>1. IsFiniteSet(Doc \ s) /\ Doc \ t \subseteq Doc \ s
  BY LspAssumption, FS_Subset
<1>2. /\ IsFiniteSet(Doc \ t) /\ Cardinality(Doc \ t) <= Cardinality(Doc \ s)
      /\ Cardinality(Doc \ t) = Cardinality(Doc \ s) => Doc \ t = Doc \ s
  BY <1>1, FS_Subset
<1>3. Unseen(s) \in Nat /\ Unseen(t) \in Nat
  BY <1>1, <1>2, FS_CardinalityType DEF Unseen
<1>4. t # s => Doc \ t # Doc \ s
  OBVIOUS
<1>5. QED
  BY <1>2, <1>3, <1>4 DEF Unseen

\* What the recursion computes from its own values.
Load(L, seen, files) ==
    IF ToSet(files) \subseteq seen THEN <<>>
    ELSE LET f      == NextFile(seen, files)
             loaded == Append(L[seen \cup {f}][Imports(f)], f)
         IN  loaded \o L[seen \cup ToSet(loaded)][files]

\* What L is where less is left to see.
TypedBelow(L, seen) ==
    \A t \in SUBSET Doc : Unseen(t) < Unseen(seen) => \A q \in Seq(Doc) : L[t][q] \in Seq(Doc)

SameBelow(L, M, seen) ==
    \A t \in SUBSET Doc : Unseen(t) < Unseen(seen) => \A q \in Seq(Doc) : M[t][q] = L[t][q]

Loads(L) == L = [seen \in SUBSET Doc |-> [files \in Seq(Doc) |-> Load(L, seen, files)]]

LEMMA NextFileIsUnseen ==
    ASSUME NEW seen \in SUBSET Doc, NEW files \in Seq(Doc), ~(ToSet(files) \subseteq seen)
    PROVE  NextFile(seen, files) \in ToSet(files) \ seen /\ NextFile(seen, files) \in Doc
<1> DEFINE T == {i \in 1..Len(files) : files[i] \notin seen}
<1>1. Len(files) \in Nat /\ DOMAIN files = 1..Len(files) /\ \A i \in 1..Len(files) : files[i] \in Doc
  OBVIOUS
<1>2. T # {} /\ T \subseteq Nat
  BY <1>1 DEF ToSet
<1>3. SelectInSeq(files, LAMBDA g : g \notin seen) = Min(T)
  BY <1>2 DEF SelectInSeq
<1>4. Min(T) \in T
  BY <1>2, MinIsLeast
<1>5. NextFile(seen, files) = files[Min(T)]
  BY <1>3 DEF NextFile
<1>6. QED
  BY <1>1, <1>4, <1>5 DEF ToSet

LEMMA ImportsAreFiles ==
    ASSUME TextsOf(disk), NEW f \in Doc
    PROVE  Imports(f) \in Seq(Doc)
<1>1. CASE Readable(disk, f)
  <2>1. disk[f] \in Text[f]
    BY <1>1 DEF Readable, TextsOf, Texts
  <2>2. disk[f].imports \in Seq(Doc)
    BY <2>1, TextAssumption
  <2>3. QED
    BY <1>1, <2>2 DEF Imports
<1>2. CASE ~Readable(disk, f)
  BY <1>2, EmptySeq DEF Imports
<1>3. QED
  BY <1>1, <1>2

\* One step: f is loaded after its imports, and then the other files.
LoadsNext(L, seen, files, f) ==
    LET before == L[seen \cup {f}][Imports(f)]
        loaded == Append(before, f)
        after  == L[seen \cup ToSet(loaded)][files]
    IN  /\ f \in ToSet(files) \ seen /\ f \in Doc
        /\ seen \cup {f} \in SUBSET Doc /\ Unseen(seen \cup {f}) < Unseen(seen)
        /\ Imports(f) \in Seq(Doc) /\ before \in Seq(Doc)
        /\ loaded \in Seq(Doc) /\ ToSet(loaded) = ToSet(before) \cup {f}
        /\ seen \cup ToSet(loaded) \in SUBSET Doc /\ Unseen(seen \cup ToSet(loaded)) < Unseen(seen)
        /\ after \in Seq(Doc)
        /\ Load(L, seen, files) = loaded \o after /\ Load(L, seen, files) \in Seq(Doc)
        /\ ToSet(Load(L, seen, files)) = ToSet(before) \cup {f} \cup ToSet(after)

LEMMA LoadStep ==
    ASSUME TextsOf(disk), NEW L, NEW seen \in SUBSET Doc, NEW files \in Seq(Doc), ~(ToSet(files) \subseteq seen),
           TypedBelow(L, seen), NEW f, f = NextFile(seen, files)
    PROVE  LoadsNext(L, seen, files, f)
<1> DEFINE before == L[seen \cup {f}][Imports(f)]
           loaded == Append(before, f)
           after == L[seen \cup ToSet(loaded)][files]
<1>1. f \in ToSet(files) \ seen /\ f \in Doc
  BY NextFileIsUnseen
<1>2. Load(L, seen, files) = loaded \o after
  BY DEF Load
<1>3. seen \cup {f} \in SUBSET Doc /\ Unseen(seen \cup {f}) < Unseen(seen)
  <2>1. seen \cup {f} \in SUBSET Doc /\ seen \subseteq seen \cup {f} /\ seen \cup {f} # seen
    BY <1>1
  <2>2. QED
    BY <2>1, UnseenShrinks
<1>4. Imports(f) \in Seq(Doc)
  BY <1>1, ImportsAreFiles
<1>5. before \in Seq(Doc)
  BY <1>3, <1>4 DEF TypedBelow
<1>6. loaded \in Seq(Doc) /\ ToSet(loaded) = ToSet(before) \cup {f}
  <2> HIDE DEF before
  <2> DEFINE one == <<f>>
  <2>1. one \in Seq(Doc) /\ ToSet(one) = {f}
    BY <1>1 DEF ToSet
  <2>2. loaded = before \o one
    BY <1>1, <1>5, AppendIsConcat
  <2> HIDE DEF loaded, one
  <2>3. before \o one \in Seq(Doc) /\ ToSet(before \o one) = ToSet(before) \cup ToSet(one)
    BY <1>5, <2>1, ConcatToSet
  <2>4. QED
    BY <2>1, <2>2, <2>3
<1>7. seen \cup ToSet(loaded) \in SUBSET Doc /\ Unseen(seen \cup ToSet(loaded)) < Unseen(seen)
  <2>1. ToSet(loaded) \subseteq Doc /\ f \in ToSet(loaded)
    <3> HIDE DEF loaded
    <3>1. QED
      BY <1>6, SeqIsProper
  <2> HIDE DEF loaded
  <2>2. /\ seen \cup ToSet(loaded) \in SUBSET Doc /\ seen \subseteq seen \cup ToSet(loaded)
        /\ seen \cup ToSet(loaded) # seen
    BY <1>1, <2>1
  <2>3. QED
    BY <2>2, UnseenShrinks
<1>8. after \in Seq(Doc)
  BY <1>7 DEF TypedBelow
<1>9. loaded \o after \in Seq(Doc) /\ ToSet(loaded \o after) = ToSet(before) \cup {f} \cup ToSet(after)
  <2> HIDE DEF loaded, after, before
  <2>1. QED
    BY <1>6, <1>8, ConcatToSet
<1>10. QED
  BY <1>1, <1>2, <1>3, <1>4, <1>5, <1>6, <1>7, <1>8, <1>9 DEF LoadsNext
LEMMA LoadIsTyped ==
    ASSUME TextsOf(disk), NEW L, NEW seen \in SUBSET Doc, NEW files \in Seq(Doc),
           TypedBelow(L, seen)
    PROVE  Load(L, seen, files) \in Seq(Doc)
<1>1. CASE ToSet(files) \subseteq seen
  BY <1>1, EmptySeq DEF Load
<1>2. CASE ~(ToSet(files) \subseteq seen)
  BY <1>2, LoadStep DEF LoadsNext
<1>3. QED
  BY <1>1, <1>2

\* Values that agree where less is left to see give the same.
LEMMA LoadIsLocal ==
    ASSUME TextsOf(disk), NEW L, NEW M, NEW seen \in SUBSET Doc, NEW files \in Seq(Doc),
           TypedBelow(L, seen), SameBelow(L, M, seen)
    PROVE  Load(M, seen, files) = Load(L, seen, files)
<1>1. CASE ToSet(files) \subseteq seen
  BY <1>1 DEF Load
<1>2. CASE ~(ToSet(files) \subseteq seen)
  <2> DEFINE f == NextFile(seen, files)
             loaded == Append(L[seen \cup {f}][Imports(f)], f)
             other == Append(M[seen \cup {f}][Imports(f)], f)
  <2>1. LoadsNext(L, seen, files, f)
    BY <1>2, LoadStep
  <2>2. /\ seen \cup {f} \in SUBSET Doc /\ Unseen(seen \cup {f}) < Unseen(seen) /\ Imports(f) \in Seq(Doc)
        /\ seen \cup ToSet(loaded) \in SUBSET Doc /\ Unseen(seen \cup ToSet(loaded)) < Unseen(seen)
        /\ Load(L, seen, files) = loaded \o L[seen \cup ToSet(loaded)][files]
    BY <2>1 DEF LoadsNext
  <2>3. Load(M, seen, files) = other \o M[seen \cup ToSet(other)][files]
    BY <1>2 DEF Load
  <2>4. other = loaded
    BY <2>2 DEF SameBelow
  <2>5. M[seen \cup ToSet(loaded)][files] = L[seen \cup ToSet(loaded)][files]
    BY <2>2 DEF SameBelow
  <2> HIDE DEF f, loaded, other
  <2>6. QED
    BY <2>2, <2>3, <2>4, <2>5
<1>3. QED
  BY <1>1, <1>2

Loader == [SUBSET Doc -> [Seq(Doc) -> Seq(Doc)]]

\* Values that are right where fewer than n are left to see.
RightBelow(L, n) ==
    L \in Loader /\ \A s \in SUBSET Doc : Unseen(s) < n => \A q \in Seq(Doc) : L[s][q] = Load(L, s, q)

LEMMA LoaderBelow ==
    ASSUME TextsOf(disk), NEW n \in Nat
    PROVE  \E L : RightBelow(L, n)
<1> DEFINE T == {k \in Nat : ~\E L : RightBelow(L, k)}
<1>1. SUFFICES ASSUME n \in T PROVE FALSE
  OBVIOUS
<1>2. PICK k \in T : \A j \in T : k <= j
  BY <1>1, LeastNatural
<1>3. \A s \in SUBSET Doc : Unseen(s) \in Nat
  BY UnseenShrinks
<1>4. CASE k = 0
  <2> DEFINE L == [s \in SUBSET Doc |-> [q \in Seq(Doc) |-> <<>>]]
  <2>1. L \in Loader
    BY EmptySeq DEF Loader
  <2> HIDE DEF L
  <2>2. RightBelow(L, 0)
    BY <1>3, <2>1 DEF RightBelow
  <2>3. QED
    BY <1>4, <2>2
<1>5. CASE k # 0
  <2>1. k - 1 \in Nat /\ k - 1 \notin T
    BY <1>2, <1>5
  <2>2. PICK L : RightBelow(L, k - 1)
    BY <2>1
  <2> DEFINE M == [s \in SUBSET Doc |-> [q \in Seq(Doc) |-> Load(L, s, q)]]
  <2>3. \A t \in SUBSET Doc : \A q \in Seq(Doc) : L[t][q] \in Seq(Doc)
    BY <2>2 DEF RightBelow, Loader
  <2>4. \A s \in SUBSET Doc : \A q \in Seq(Doc) : Load(L, s, q) \in Seq(Doc)
    BY <2>3, LoadIsTyped DEF TypedBelow
  <2>5. M \in Loader /\ \A s \in SUBSET Doc : \A q \in Seq(Doc) : M[s][q] = Load(L, s, q)
    BY <2>4 DEF Loader
  <2> HIDE DEF M
  <2>6. ASSUME NEW s \in SUBSET Doc, Unseen(s) < k, NEW q \in Seq(Doc)
        PROVE  M[s][q] = Load(M, s, q)
    <3>1. SameBelow(L, M, s)
      <4> SUFFICES ASSUME NEW t \in SUBSET Doc, Unseen(t) < Unseen(s), NEW r \in Seq(Doc)
                   PROVE  M[t][r] = L[t][r]
        BY DEF SameBelow
      <4>1. Unseen(t) < k - 1
        BY <1>3, <2>1, <2>6
      <4>2. L[t][r] = Load(L, t, r)
        BY <2>2, <4>1 DEF RightBelow
      <4>3. QED
        BY <2>5, <4>2
    <3>2. Load(M, s, q) = Load(L, s, q)
      BY <2>3, <3>1, LoadIsLocal DEF TypedBelow
    <3>3. QED
      BY <2>5, <3>2
  <2>7. RightBelow(M, k)
    BY <2>5, <2>6 DEF RightBelow
  <2>8. QED
    BY <1>2, <2>7
<1>6. QED
  BY <1>4, <1>5

\* The function is what its definition says, for all files.
LEMMA VarsAreLoaded ==
    ASSUME TextsOf(disk)
    PROVE  \A seen \in SUBSET Doc : \A files \in Seq(Doc) :
               /\ LoadVarsFrom[seen][files] = Load(LoadVarsFrom, seen, files)
               /\ LoadVarsFrom[seen][files] \in Seq(Doc)
<1>1. Unseen({}) \in Nat /\ \A s \in SUBSET Doc : Unseen(s) \in Nat /\ Unseen(s) < Unseen({}) + 1
  BY UnseenShrinks
<1>2. PICK L : RightBelow(L, Unseen({}) + 1)
  BY <1>1, LoaderBelow
<1>3. L \in Loader /\ \A s \in SUBSET Doc : \A q \in Seq(Doc) : L[s][q] = Load(L, s, q)
  BY <1>1, <1>2 DEF RightBelow
<1>4. Loads(L)
  BY <1>3 DEF Loads, Loader
<1>5. LoadVarsFrom = CHOOSE V : Loads(V)
  BY DEF LoadVarsFrom, Loads, Load
<1>6. Loads(LoadVarsFrom)
  BY <1>4, <1>5
<1> DEFINE V == LoadVarsFrom
<1>7. V = [s \in SUBSET Doc |-> [q \in Seq(Doc) |-> Load(V, s, q)]]
  BY <1>6 DEF Loads
<1> HIDE DEF V
<1>8. \A s \in SUBSET Doc : \A q \in Seq(Doc) : V[s][q] = Load(V, s, q)
  BY <1>7
<1>9. \A s \in SUBSET Doc : \A q \in Seq(Doc) : V[s][q] \in Seq(Doc)
  <2> DEFINE T == {Unseen(s) : s \in {t \in SUBSET Doc : \E q \in Seq(Doc) : V[t][q] \notin Seq(Doc)}}
  <2> SUFFICES ASSUME T # {} PROVE FALSE
    OBVIOUS
  <2>1. T \subseteq Nat
    BY <1>1
  <2>2. PICK k \in T : \A j \in T : k <= j
    BY <2>1, LeastNatural
  <2>3. PICK s \in SUBSET Doc, q \in Seq(Doc) : V[s][q] \notin Seq(Doc) /\ k = Unseen(s)
    OBVIOUS
  <2>4. TypedBelow(V, s)
    <3> SUFFICES ASSUME NEW t \in SUBSET Doc, Unseen(t) < Unseen(s), NEW r \in Seq(Doc), V[t][r] \notin Seq(Doc)
                 PROVE  FALSE
      BY DEF TypedBelow
    <3>1. Unseen(t) \in T
      OBVIOUS
    <3> HIDE DEF T
    <3>2. k <= Unseen(t)
      BY <2>2, <3>1
    <3>3. QED
      BY <1>1, <2>3, <3>2
  <2>5. QED
    BY <1>8, <2>3, <2>4, LoadIsTyped
<1>10. QED
  BY <1>8, <1>9 DEF V

-----------------------------------------------------------------------------
\* No import leads out of S.
Closed(S) == \A f \in S : ToSet(Imports(f)) \subseteq S

\* What loading these files gives, where some have been seen: they and what they
\* import, and nothing that imports do not lead to.
Collects(seen, files, got) ==
    /\ files \subseteq seen \cup got
    /\ \A f \in got : ToSet(Imports(f)) \subseteq seen \cup got
    /\ \A S \in SUBSET Doc : files \subseteq S /\ Closed(S) => got \subseteq S

LEMMA CollectsStep ==
    ASSUME NEW seen, NEW files, NEW f \in files, NEW before, NEW after,
           Collects(seen \cup {f}, ToSet(Imports(f)), before),
           Collects(seen \cup before \cup {f}, files, after)
    PROVE  Collects(seen, files, before \cup {f} \cup after)
<1> DEFINE got == before \cup {f} \cup after
<1>1. files \subseteq seen \cup got
  BY DEF Collects
<1>2. \A g \in got : ToSet(Imports(g)) \subseteq seen \cup got
  BY DEF Collects
<1>3. ASSUME NEW S \in SUBSET Doc, files \subseteq S, Closed(S) PROVE got \subseteq S
  <2>1. f \in S /\ ToSet(Imports(f)) \subseteq S
    BY <1>3 DEF Closed
  <2>2. before \subseteq S /\ after \subseteq S
    BY <1>3, <2>1 DEF Collects
  <2>3. QED
    BY <2>1, <2>2
<1> HIDE DEF got
<1>4. Collects(seen, files, got)
  BY <1>1, <1>2, <1>3 DEF Collects
<1>5. QED
  BY <1>4 DEF got

LEMMA LoadingCollects ==
    ASSUME TextsOf(disk), NEW seen \in SUBSET Doc, NEW files \in Seq(Doc)
    PROVE  LoadVarsFrom[seen][files] \in Seq(Doc) /\ Collects(seen, ToSet(files), ToSet(LoadVarsFrom[seen][files]))
<1> DEFINE V == LoadVarsFrom
           Wrong(s) == \E q \in Seq(Doc) : ~Collects(s, ToSet(q), ToSet(V[s][q]))
           T == {Unseen(s) : s \in {t \in SUBSET Doc : Wrong(t)}}
<1>1. /\ \A s \in SUBSET Doc : \A q \in Seq(Doc) : V[s][q] = Load(V, s, q) /\ V[s][q] \in Seq(Doc)
      /\ \A s \in SUBSET Doc : Unseen(s) \in Nat
  BY VarsAreLoaded, UnseenShrinks
<1> HIDE DEF V
<1>2. T = {}
  <2> SUFFICES ASSUME T # {} PROVE FALSE
    OBVIOUS
  <2>1. T \subseteq Nat
    BY <1>1
  <2>2. PICK k \in T : \A j \in T : k <= j
    BY <2>1, LeastNatural
  <2>3. PICK s \in SUBSET Doc : Wrong(s) /\ k = Unseen(s)
    OBVIOUS
  <2>4. PICK q \in Seq(Doc) : ~Collects(s, ToSet(q), ToSet(V[s][q]))
    BY <2>3
  <2>5. \A t \in SUBSET Doc : Unseen(t) < Unseen(s) => \A r \in Seq(Doc) : Collects(t, ToSet(r), ToSet(V[t][r]))
    <3> SUFFICES ASSUME NEW t \in SUBSET Doc, Unseen(t) < Unseen(s), Wrong(t) PROVE FALSE
      OBVIOUS
    <3>1. Unseen(t) \in T
      OBVIOUS
    <3> HIDE DEF T
    <3>2. k <= Unseen(t)
      BY <2>2, <3>1
    <3>3. QED
      BY <1>1, <2>3, <3>2
  <2>6. TypedBelow(V, s)
    BY <1>1 DEF TypedBelow
  <2>7. CASE ToSet(q) \subseteq s
    <3>1. V[s][q] = <<>>
      BY <1>1, <2>7 DEF Load
    <3>2. Collects(s, ToSet(q), {})
      BY <2>7 DEF Collects
    <3>3. ToSet(<<>>) = {}
      BY DEF ToSet
    <3>4. QED
      BY <2>4, <3>1, <3>2, <3>3
  <2>8. CASE ~(ToSet(q) \subseteq s)
    <3> DEFINE f == NextFile(s, q)
               before == V[s \cup {f}][Imports(f)]
               loaded == Append(before, f)
               after == V[s \cup ToSet(loaded)][q]
    <3>0. LoadsNext(V, s, q, f)
      BY <2>6, <2>8, LoadStep
    <3>1. /\ f \in ToSet(q) \ s /\ f \in Doc
          /\ s \cup {f} \in SUBSET Doc /\ Unseen(s \cup {f}) < Unseen(s)
          /\ Imports(f) \in Seq(Doc) /\ ToSet(loaded) = ToSet(before) \cup {f}
          /\ s \cup ToSet(loaded) \in SUBSET Doc /\ Unseen(s \cup ToSet(loaded)) < Unseen(s)
          /\ ToSet(Load(V, s, q)) = ToSet(before) \cup {f} \cup ToSet(after)
      BY <3>0 DEF LoadsNext
    <3>2. Collects(s \cup {f}, ToSet(Imports(f)), ToSet(before))
      BY <2>5, <3>1
    <3>3. Collects(s \cup ToSet(loaded), ToSet(q), ToSet(after))
      BY <2>5, <3>1
    <3>4. s \cup ToSet(loaded) = s \cup ToSet(before) \cup {f}
      BY <3>1
    <3> HIDE DEF f, before, loaded, after
    <3>5. Collects(s, ToSet(q), ToSet(before) \cup {f} \cup ToSet(after))
      BY <3>1, <3>2, <3>3, <3>4, CollectsStep
    <3>6. QED
      BY <1>1, <2>4, <3>1, <3>5
  <2>9. QED
    BY <2>7, <2>8
<1>3. Collects(seen, ToSet(files), ToSet(V[seen][files]))
  BY <1>2
<1>4. QED
  BY <1>1, <1>3 DEF V

\* So, when nothing has been seen, they are the files that imports lead to.
LEMMA LoadsTheReached ==
    ASSUME TextsOf(disk), NEW files \in Seq(Doc)
    PROVE  ToSet(LoadVarsFrom[{}][files]) = Reached(ToSet(files), disk)
<1> DEFINE got == ToSet(LoadVarsFrom[{}][files])
           closed == {S \in SUBSET Doc :
                         ToSet(files) \subseteq S /\ \A f \in S : Readable(disk, f) => ToSet(disk[f].imports) \subseteq S}
<1>1. got \subseteq Doc /\ Collects({}, ToSet(files), got)
  BY LoadingCollects, SeqIsProper
<1>2. \A S \in SUBSET Doc :
          Closed(S) <=> \A f \in S : Readable(disk, f) => ToSet(disk[f].imports) \subseteq S
  <2>1. \A f : ~Readable(disk, f) => ToSet(Imports(f)) = {}
    BY DEF Imports, ToSet
  <2>2. \A f : Readable(disk, f) => Imports(f) = disk[f].imports
    BY DEF Imports
  <2>3. QED
    BY <2>1, <2>2 DEF Closed
<1> HIDE DEF got
<1>3. \A S \in closed : got \subseteq S
  BY <1>1, <1>2 DEF Collects
<1>4. got \in closed
  <2>1. ToSet(files) \subseteq got /\ Closed(got)
    BY <1>1 DEF Collects, Closed
  <2>2. QED
    BY <1>1, <1>2, <2>1
<1>5. Reached(ToSet(files), disk) = {f \in Doc : \A S \in closed : f \in S}
  BY DEF Reached
<1> HIDE DEF closed
<1>6. QED
  BY <1>1, <1>3, <1>4, <1>5 DEF got

-----------------------------------------------------------------------------
\* The sequence s ends with e.
Ends(s, e) == Len(s) \in Nat /\ Len(s) > 0 /\ DOMAIN s = 1..Len(s) /\ s[Len(s)] = e

LEMMA ConcatEnds ==
    ASSUME NEW S, NEW s \in Seq(S), NEW t \in Seq(S), NEW e, Ends(t, e)
    PROVE  Ends(s \o t, e)
<1>1. /\ s \o t \in Seq(S) /\ Len(s \o t) = Len(s) + Len(t)
      /\ \A i \in 1..(Len(s) + Len(t)) :
             (s \o t)[i] = IF i <= Len(s) THEN s[i] ELSE t[i - Len(s)]
  BY ConcatProperties
<1>2. Len(s) \in Nat /\ Len(t) \in Nat /\ DOMAIN (s \o t) = 1..(Len(s) + Len(t))
  BY <1>1
<1>3. Len(t) > 0 /\ t[Len(t)] = e
  BY DEF Ends
<1>4. Len(s) + Len(t) \in 1..(Len(s) + Len(t)) /\ ~(Len(s) + Len(t) <= Len(s))
      /\ (Len(s) + Len(t)) - Len(s) = Len(t)
  BY <1>2, <1>3
<1>5. (s \o t)[Len(s) + Len(t)] = e
  BY <1>1, <1>3, <1>4
<1>6. QED
  BY <1>1, <1>2, <1>3, <1>5 DEF Ends

LEMMA FirstIsNext ==
    ASSUME NEW files \in Seq(Doc), files # <<>>
    PROVE  NextFile({}, files) = files[1] /\ files[1] \in Doc /\ ~(ToSet(files) \subseteq {})
<1> DEFINE T == {i \in 1..Len(files) : files[i] \notin {}}
           first == Min(T)
<1>1. Len(files) \in Nat /\ Len(files) > 0 /\ DOMAIN files = 1..Len(files)
  BY EmptySeq, LenProperties
<1>2. T = 1..Len(files)
  OBVIOUS
<1>3. T # {} /\ T \subseteq Nat /\ 1 \in T /\ \A i \in T : 1 <= i
  <2>1. 1 \in 1..Len(files) /\ 1..Len(files) \subseteq Nat /\ \A i \in 1..Len(files) : 1 <= i
    BY <1>1
  <2> HIDE DEF T
  <2>2. QED
    BY <1>2, <2>1
<1>4. SelectInSeq(files, LAMBDA g : g \notin {}) = first
  BY <1>3 DEF SelectInSeq
<1>5. first \in T /\ \A i \in T : first <= i
  BY <1>3, MinIsLeast
<1> HIDE DEF T, first
<1>6. first = 1
  <2>1. first \in Nat /\ 1 <= first /\ first <= 1
    BY <1>3, <1>5
  <2>2. QED
    BY <2>1
<1>7. files[1] \in Doc /\ files[1] \in ToSet(files)
  BY <1>1 DEF ToSet
<1>8. QED
  BY <1>4, <1>6, <1>7 DEF NextFile

\* A file that is the only one left to see comes after its imports.
LEMMA OnlyOneLeft ==
    ASSUME TextsOf(disk), NEW seen \in SUBSET Doc, NEW files \in Seq(Doc), NEW f \in Doc, ToSet(files) \ seen = {f}
    PROVE  Ends(LoadVarsFrom[seen][files], f)
<1> DEFINE V == LoadVarsFrom
           before == V[seen \cup {f}][Imports(f)]
           loaded == Append(before, f)
           after == V[seen \cup ToSet(loaded)][files]
<1>1. \A s \in SUBSET Doc : \A q \in Seq(Doc) : V[s][q] = Load(V, s, q) /\ V[s][q] \in Seq(Doc)
  BY VarsAreLoaded
<1> HIDE DEF V
<1>2. ~(ToSet(files) \subseteq seen) /\ TypedBelow(V, seen)
  BY <1>1 DEF TypedBelow
<1>3. NextFile(seen, files) = f
  BY <1>2, NextFileIsUnseen
<1>4. /\ before \in Seq(Doc) /\ loaded \in Seq(Doc) /\ ToSet(loaded) = ToSet(before) \cup {f}
      /\ seen \cup ToSet(loaded) \in SUBSET Doc /\ after \in Seq(Doc)
      /\ Load(V, seen, files) = loaded \o after
  <2>1. LoadsNext(V, seen, files, f)
    BY <1>2, <1>3, LoadStep
  <2>2. QED
    BY <2>1 DEF LoadsNext
<1>5. after = <<>>
  <2>1. ToSet(files) \subseteq seen \cup ToSet(loaded)
    BY <1>4
  <2> HIDE DEF loaded
  <2>2. QED
    BY <1>1, <1>4, <2>1 DEF Load
<1>6. V[seen][files] = loaded
  <2>1. V[seen][files] = loaded \o <<>>
    BY <1>1, <1>4, <1>5
  <2> HIDE DEF loaded
  <2>2. QED
    BY <1>4, <2>1, ConcatEmptySeq
<1>7. Ends(loaded, f)
  <2> HIDE DEF before
  <2>1. Len(loaded) = Len(before) + 1 /\ loaded[Len(before) + 1] = f /\ Len(before) \in Nat
    BY <1>4, AppendProperties, LenProperties
  <2> HIDE DEF loaded
  <2>2. DOMAIN loaded = 1..Len(loaded)
    BY <1>4
  <2>3. QED
    BY <2>1, <2>2 DEF Ends
<1>8. QED
  BY <1>6, <1>7 DEF V

\* The second of two comes last, unless the first leads to it.
LEMMA SecondIsLast ==
    ASSUME TextsOf(disk), NEW files \in Seq(Doc), Len(files) = 2, NEW own \in Doc, files[2] = own,
           own \notin Reached({files[1]}, disk)
    PROVE  Ends(LoadVarsFrom[{}][files], own)
<1> DEFINE V == LoadVarsFrom
           f == files[1]
           before == V[{} \cup {f}][Imports(f)]
           loaded == Append(before, f)
           after == V[{} \cup ToSet(loaded)][files]
<1>1. \A s \in SUBSET Doc : \A q \in Seq(Doc) : V[s][q] = Load(V, s, q) /\ V[s][q] \in Seq(Doc)
  BY VarsAreLoaded
<1>2. /\ NextFile({}, files) = f /\ f \in Doc /\ ~(ToSet(files) \subseteq {})
      /\ TypedBelow(V, {})
  <2>1. files # <<>>
    BY EmptySeq
  <2> HIDE DEF V
  <2>2. QED
    BY <1>1, <2>1, FirstIsNext DEF TypedBelow
<1>3. /\ Imports(f) \in Seq(Doc) /\ before \in Seq(Doc) /\ loaded \in Seq(Doc) /\ ToSet(loaded) = ToSet(before) \cup {f}
      /\ {} \cup ToSet(loaded) \in SUBSET Doc /\ after \in Seq(Doc)
      /\ Load(V, {}, files) = loaded \o after
  <2> HIDE DEF V
  <2>1. LoadsNext(V, {}, files, f)
    <3> HIDE DEF f
    <3>1. QED
      BY <1>2, LoadStep
  <2>2. QED
    BY <2>1 DEF LoadsNext
<1>4. Collects({} \cup {f}, ToSet(Imports(f)), ToSet(before))
  BY <1>2, <1>3, LoadingCollects
<1>5. own \notin ToSet(loaded)
  <2>1. PICK S \in SUBSET Doc :
          /\ f \in S /\ own \notin S
          /\ \A g \in S : Readable(disk, g) => ToSet(disk[g].imports) \subseteq S
    BY DEF Reached
  <2>2. Closed(S)
    <3>1. ASSUME NEW g \in S PROVE ToSet(Imports(g)) \subseteq S
      <4>1. CASE Readable(disk, g)
        BY <2>1, <4>1 DEF Imports
      <4>2. CASE ~Readable(disk, g)
        BY <4>2 DEF Imports, ToSet
      <4>3. QED
        BY <4>1, <4>2
    <3>2. QED
      BY <3>1 DEF Closed
  <2>3. ToSet(Imports(f)) \subseteq S
    BY <2>1, <2>2 DEF Closed
  <2> HIDE DEF before, f
  <2>4. ToSet(before) \subseteq S
    BY <1>4, <2>2, <2>3 DEF Collects
  <2>5. QED
    BY <1>3, <2>1, <2>4
<1>6. ToSet(files) = {f, own}
  <2>1. DOMAIN files = {1, 2}
    OBVIOUS
  <2>2. QED
    BY <2>1 DEF ToSet
<1>7. ToSet(files) \ ({} \cup ToSet(loaded)) = {own}
  <2> HIDE DEF before, f, loaded
  <2>1. QED
    BY <1>3, <1>5, <1>6
<1>8. Ends(after, own)
  BY <1>3, <1>7, OnlyOneLeft
<1>9. V[{}][files] = loaded \o after
  BY <1>1, <1>3
<1> HIDE DEF V, loaded, after
<1>10. Ends(V[{}][files], own)
  BY <1>3, <1>8, <1>9, ConcatEnds
<1>11. QED
  BY <1>10 DEF V

-----------------------------------------------------------------------------
\* With these files on disk, the variables on offer are those of the texts.
OffersVariables(texts, doc, on, offer) ==
    LET dir == DirOf[doc]
        own == VarsFile[dir]
    IN  /\ DOMAIN offer = UNION {DOMAIN Declares(texts, f) \cup DOMAIN Declares(on, f) :
                                   f \in Reached(VarsAbove(dir, on) \cup {own}, on)}
        /\ own \notin Reached(VarsAbove(dir, on), on) =>
              /\ \A x \in DOMAIN Declares(texts, own) : offer[x] = Declares(texts, own)[x]
              /\ \A x \in DOMAIN Declares(on, own) \ DOMAIN Declares(texts, own) :
                    offer[x] = Declares(on, own)[x]

NearFiles(dir) == [i \in DOMAIN NearDirs(dir) |-> VarsFile[NearDirs(dir)[i]]]

LEMMA NearFilesAre ==
    ASSUME NEW dir \in Dir
    PROVE  /\ NearFiles(dir) \in Seq(Doc) /\ VarsFile[dir] \in Doc
           /\ ToSet(NearFiles(dir)) = VarsAbove(dir, disk) \cup {VarsFile[dir]}
           /\ \/ VarsAbove(dir, disk) = {} /\ ToSet(NearFiles(dir)) = {VarsFile[dir]}
              \/ /\ Len(NearFiles(dir)) = 2 /\ NearFiles(dir)[2] = VarsFile[dir]
                 /\ VarsAbove(dir, disk) = {NearFiles(dir)[1]}
<1> DEFINE own == VarsFile[dir]
           files == NearFiles(dir)
<1>1. own \in Doc /\ Ancestors[dir] \in Seq(Dir)
  BY TreeAssumption
<1>2. CASE Len(Ancestors[dir]) > 1 /\ IsRoot(Ancestors[dir][2])
  <2> DEFINE root == Ancestors[dir][2]
             above == VarsFile[root]
  <2>1. root \in Dir
    BY <1>1, <1>2
  <2>2. above \in Doc
    BY <2>1, TreeAssumption
  <2>3. VarsAbove(dir, disk) = {above}
    BY <1>2, <2>1 DEF VarsAbove, IsRoot
  <2>4. files = <<above, own>>
    BY <1>2 DEF NearDirs, NearFiles
  <2> HIDE DEF root, above, own, files
  <2>5. files \in Seq(Doc) /\ Len(files) = 2 /\ files[1] = above /\ files[2] = own /\ DOMAIN files = {1, 2}
    BY <1>1, <2>2, <2>4
  <2>6. ToSet(files) = {above, own}
    BY <2>5 DEF ToSet
  <2>7. QED
    BY <1>1, <2>3, <2>5, <2>6 DEF own, files
<1>3. CASE ~(Len(Ancestors[dir]) > 1 /\ IsRoot(Ancestors[dir][2]))
  <2>1. VarsAbove(dir, disk) = {}
    BY <1>3 DEF VarsAbove, IsRoot
  <2>2. files = <<own>>
    BY <1>3 DEF NearDirs, NearFiles
  <2> HIDE DEF own, files
  <2>3. files \in Seq(Doc) /\ DOMAIN files = {1} /\ files[1] = own
    BY <1>1, <2>2
  <2>4. ToSet(files) = {own}
    BY <2>3 DEF ToSet
  <2>5. QED
    BY <1>1, <2>1, <2>3, <2>4 DEF own, files
<1>4. QED
  BY <1>2, <1>3

\* The own file is loaded last, unless the one above leads to it.
LEMMA OwnIsLast ==
    ASSUME TextsOf(disk), NEW dir \in Dir, VarsFile[dir] \notin Reached(VarsAbove(dir, disk), disk)
    PROVE  Ends(LoadVarsFrom[{}][NearFiles(dir)], VarsFile[dir])
<1> DEFINE files == NearFiles(dir)
           own == VarsFile[dir]
<1>1. /\ files \in Seq(Doc) /\ own \in Doc
      /\ \/ ToSet(files) = {own}
         \/ Len(files) = 2 /\ files[2] = own /\ VarsAbove(dir, disk) = {files[1]}
  BY NearFilesAre
<1> HIDE DEF files, own
<1>2. CASE ToSet(files) = {own}
  <2>1. ToSet(files) \ {} = {own}
    BY <1>2
  <2>2. QED
    BY <1>1, <2>1, OnlyOneLeft DEF files, own
<1>3. CASE Len(files) = 2 /\ files[2] = own /\ VarsAbove(dir, disk) = {files[1]}
  <2>1. own \notin Reached({files[1]}, disk)
    BY <1>3 DEF own
  <2>2. QED
    BY <1>1, <1>3, <2>1, SecondIsLast DEF files, own
<1>4. QED
  BY <1>1, <1>2, <1>3

\* Of the files that declare a variable the last counts.
LEMMA LastDeclares ==
    ASSUME NEW T, T \subseteq Nat, NEW n \in T, \A i \in T : i <= n
    PROVE  Max(T) = n
<1>1. Max(T) \in T /\ \A i \in T : Max(T) >= i
  <2>1. \E m \in T : \A i \in T : m >= i
    BY SMT
  <2>2. QED
    BY <2>1 DEF Max
<1>2. Max(T) >= n /\ Max(T) <= n /\ Max(T) \in Nat
  BY <1>1
<1>3. QED
  BY <1>2

LEMMA VariablesFit ==
    ASSUME TextsOf(disk), NEW doc \in Doc, NEW texts, \A d \in Doc : store[d] = texts[d]
    PROVE  OffersVariables(texts, doc, disk, completeVariables(DirOf[doc]))
<1> DEFINE dir == DirOf[doc]
           own == VarsFile[dir]
           loaded == LoadVarsFrom[{}][NearFiles(dir)]
           naming(x) == {i \in DOMAIN loaded : x \in DOMAIN Declared(loaded[i])}
           offer == completeVariables(dir)
<1>1. dir \in Dir /\ own \in Doc
  BY TreeAssumption
<1>2. /\ NearFiles(dir) \in Seq(Doc) /\ ToSet(NearFiles(dir)) = VarsAbove(dir, disk) \cup {own}
      /\ loaded \in Seq(Doc) /\ ToSet(loaded) = Reached(VarsAbove(dir, disk) \cup {own}, disk)
  <2>1. NearFiles(dir) \in Seq(Doc) /\ ToSet(NearFiles(dir)) = VarsAbove(dir, disk) \cup {own}
    BY <1>1, NearFilesAre
  <2> HIDE DEF dir, own
  <2>2. loaded \in Seq(Doc)
    BY <2>1, LoadingCollects
  <2>3. ToSet(loaded) = Reached(ToSet(NearFiles(dir)), disk)
    BY <2>1, LoadsTheReached
  <2>4. QED
    BY <2>1, <2>2, <2>3
<1>3. offer = [x \in UNION {DOMAIN Declared(f) : f \in ToSet(loaded)} |-> Declared(loaded[Max(naming(x))])[x]]
  BY DEF completeVariables, NearFiles
<1>4. \A d \in Doc : /\ Declares(store, d) = Declares(texts, d)
                     /\ DOMAIN Declared(d) = DOMAIN Declares(texts, d) \cup DOMAIN Declares(disk, d)
                     /\ \A x \in DOMAIN Declared(d) :
                           Declared(d)[x] = IF x \in DOMAIN Declares(texts, d) THEN Declares(texts, d)[x]
                                            ELSE Declares(disk, d)[x]
  <2> TAKE d \in Doc
  <2>1. Declares(store, d) = Declares(texts, d)
    BY DEF Declares, Readable
  <2>2. QED
    BY <2>1 DEF Declared, Over
<1>5. ToSet(loaded) \subseteq Doc
  <2> HIDE DEF loaded
  <2>1. QED
    BY <1>2, SeqIsProper
<1>6. DOMAIN offer = UNION {DOMAIN Declares(texts, f) \cup DOMAIN Declares(disk, f) : f \in ToSet(loaded)}
  <2>1. DOMAIN offer = UNION {DOMAIN Declared(f) : f \in ToSet(loaded)}
    BY <1>3
  <2> HIDE DEF loaded, offer
  <2>2. QED
    BY <1>4, <1>5, <2>1
<1>7. ASSUME own \notin Reached(VarsAbove(dir, disk), disk), NEW x \in DOMAIN Declared(own)
      PROVE  offer[x] = Declared(own)[x]
  <2>1. Ends(loaded, own)
    BY <1>1, <1>7, OwnIsLast
  <2> DEFINE n == Len(loaded)
             T == naming(x)
  <2> HIDE DEF loaded
  <2>2. /\ n \in Nat /\ n > 0 /\ DOMAIN loaded = 1..n /\ loaded[n] = own /\ own \in ToSet(loaded)
    BY <2>1 DEF Ends, ToSet
  <2>3. T \subseteq Nat /\ n \in T /\ \A i \in T : i <= n
    BY <1>7, <2>2
  <2> HIDE DEF T, n
  <2>4. Max(T) = n
    BY <2>3, LastDeclares
  <2>5. x \in UNION {DOMAIN Declared(f) : f \in ToSet(loaded)}
    BY <1>7, <2>2
  <2>6. offer[x] = Declared(loaded[Max(T)])[x]
    BY <1>3, <2>5 DEF T
  <2>7. QED
    BY <2>2, <2>4, <2>6
<1> HIDE DEF offer, loaded
<1>8. own \notin Reached(VarsAbove(dir, disk), disk) =>
          /\ \A x \in DOMAIN Declares(texts, own) : offer[x] = Declares(texts, own)[x]
          /\ \A x \in DOMAIN Declares(disk, own) \ DOMAIN Declares(texts, own) :
                offer[x] = Declares(disk, own)[x]
  BY <1>1, <1>4, <1>7
<1>9. QED
  BY <1>2, <1>6, <1>8 DEF OffersVariables, offer
-----------------------------------------------------------------------------
(***************************************************************************)
(* Questions and answers: a question on its way finds, when the server has *)
(* handled what was sent before it, the texts that the editor had when it  *)
(* asked; an answer on its way is about them.                              *)
(***************************************************************************)
Asks(m, a) == m.what = "complete" /\ m.doc = a.doc /\ m.line = a.line

NamedSecrets(text) == {n[2] : n \in {m \in text.names : m[1] = "secret"}}

\* What the answer got has to say to the question a.
Fits(a, got) ==
    /\ got.about = "secrets" =>
          \A d \in Doc : a.texts[d] # None /\ DirOf[d] = DirOf[a.doc] => NamedSecrets(a.texts[d]) \subseteq got.items
    /\ got.about = "structure" => got.items = Members(findBlockContext(a.texts[a.doc].lines, a.line))
    /\ got.about = "variables" => \E on \in a.disks : OffersVariables(a.texts, a.doc, on, got.items)

NoneAsks(q) == \A i \in 1..Len(q) : q[i].what # "complete"

NoneAnswers(r) == \A i \in 1..Len(r) : r[i].what # "completion"

\* Of the messages q to the server the n-th is the question a, and the only one.
AskedAt(q, s, a, n) ==
    /\ Asks(q[n], a) /\ \A i \in 1..Len(q) : i # n => q[i].what # "complete"
    /\ \A d \in Doc : Follows(SubSeq(q, 1, n - 1), s[d], a.texts[d], d)

\* Of the messages r to the editor the n-th answers a, and it is the only one.
AnsweredAt(r, a, n) ==
    /\ r[n].what = "completion" /\ Fits(a, r[n].answer)
    /\ \A i \in 1..Len(r) : i # n => r[i].what # "completion"

Conversation ==
    /\ asked = None => NoneAsks(toServer) /\ NoneAnswers(toClient)
    /\ asked # None =>
          /\ disk \in asked.disks
          /\ \/ NoneAnswers(toClient) /\ \E n \in 1..Len(toServer) : AskedAt(toServer, store, asked, n)
             \/ NoneAsks(toServer) /\ \E n \in 1..Len(toClient) : AnsweredAt(toClient, asked, n)
    /\ answer # None => Fits(answer.asked, answer.got)

\* A question is sent after everything that the editor has sent before.
LEMMA AskedLast ==
    ASSUME NEW q \in Seq(Message), NEW m \in Message, NEW a, NEW s,
           NoneAsks(q), Asks(m, a), \A d \in Doc : Follows(q, s[d], a.texts[d], d)
    PROVE  AskedAt(Append(q, m), s, a, Len(q) + 1)
<1> DEFINE p == Append(q, m)
           n == Len(q) + 1
<1>1. /\ n \in Nat /\ n >= 1 /\ Len(p) = n /\ p[n] = m
      /\ \A i \in 1..Len(q) : p[i] = q[i]
      /\ p \in Seq(Message)
  BY AppendProperties, LenProperties
<1>2. SubSeq(p, 1, n - 1) = q
  <2>1. \A i \in 1..(n - 1) : p[i] \in Message
    BY <1>1, LenProperties, ElementOfSeq
  <2>2. /\ SubSeq(p, 1, n - 1) \in Seq(Message)
        /\ Len(SubSeq(p, 1, n - 1)) = Len(q)
        /\ \A i \in 1..Len(q) : SubSeq(p, 1, n - 1)[i] = q[i]
    BY <1>1, <2>1, LenProperties, SubSeqProperties
  <2>3. QED
    BY <2>2, SeqEqual, Zenon
<1> HIDE DEF p
<1>3. \A i \in 1..Len(p) : i # n => p[i].what # "complete"
  BY <1>1, LenProperties DEF NoneAsks
<1>4. QED
  BY <1>1, <1>2, <1>3 DEF AskedAt, p

LEMMA AskedBefore ==
    ASSUME NEW q \in Seq(Message), NEW m \in Message, NEW a, NEW s, NEW n \in 1..Len(q),
           AskedAt(q, s, a, n), m.what # "complete"
    PROVE  n \in 1..Len(Append(q, m)) /\ AskedAt(Append(q, m), s, a, n)
<1> DEFINE p == Append(q, m)
<1>1. /\ Len(q) \in Nat /\ Len(p) = Len(q) + 1 /\ p[Len(q) + 1] = m /\ p \in Seq(Message)
      /\ \A i \in 1..Len(q) : p[i] = q[i] /\ q[i] \in Message
  BY AppendProperties, LenProperties, ElementOfSeq
<1>2. SubSeq(p, 1, n - 1) = SubSeq(q, 1, n - 1)
  <2>1. \A i \in 1..(n - 1) : p[i] = q[i] /\ p[i] \in Message /\ q[i] \in Message
    BY <1>1
  <2>2. /\ SubSeq(p, 1, n - 1) \in Seq(Message) /\ SubSeq(q, 1, n - 1) \in Seq(Message)
        /\ Len(SubSeq(p, 1, n - 1)) = n - 1 /\ Len(SubSeq(q, 1, n - 1)) = n - 1
        /\ \A i \in 1..(n - 1) : SubSeq(p, 1, n - 1)[i] = p[i] /\ SubSeq(q, 1, n - 1)[i] = q[i]
    BY <1>1, <2>1, SubSeqProperties
  <2>3. QED
    BY <2>1, <2>2, SeqEqual, Zenon
<1> HIDE DEF p
<1>3. \A i \in 1..Len(p) : i # n => p[i].what # "complete"
  <2> TAKE i \in 1..Len(p)
  <2>1. i \in 1..Len(q) \/ i = Len(q) + 1
    BY <1>1
  <2>2. QED
    BY <1>1, <2>1 DEF AskedAt
<1>4. n \in 1..Len(p) /\ Asks(p[n], a)
  BY <1>1 DEF AskedAt
<1>5. \A d \in Doc : Follows(SubSeq(p, 1, n - 1), s[d], a.texts[d], d)
  BY <1>2 DEF AskedAt, p
<1>6. AskedAt(p, s, a, n)
  BY <1>3, <1>4, <1>5 DEF AskedAt
<1>7. QED
  BY <1>4, <1>6 DEF p

\* What comes before the question is handled.
LEMMA AskedSooner ==
    ASSUME NEW q \in Seq(Message), NEW a, NEW s, NEW n \in 2..Len(q), AskedAt(q, s, a, n)
    PROVE  /\ n - 1 \in 1..Len(Tail(q)) /\ Head(q).what # "complete"
           /\ AskedAt(Tail(q), [d \in Doc |-> After(Head(q), s[d], d)], a, n - 1)
<1> DEFINE p == Tail(q)
           m == Head(q)
           r == [d \in Doc |-> After(m, s[d], d)]
           before == SubSeq(q, 1, n - 1)
<1>1. Len(q) \in Nat /\ Len(q) >= 2 /\ q # <<>>
  BY LenProperties, EmptySeq
<1>2. /\ Len(p) = Len(q) - 1 /\ m = q[1] /\ m \in Message /\ p \in Seq(Message)
      /\ \A i \in 1..Len(p) : p[i] = q[i + 1]
      /\ \A i \in 1..Len(q) : q[i] \in Message
  BY <1>1, HeadTailProperties, ElementOfSeq
<1>3. /\ before \in Seq(Message) /\ Len(before) = n - 1
      /\ \A i \in 1..(n - 1) : before[i] = q[i]
  BY <1>1, <1>2, SubSeqProperties
<1>4. Head(before) = m /\ Tail(before) = SubSeq(p, 1, n - 2)
  <2>1. before # <<>>
    BY <1>3, EmptySeq
  <2>2. /\ Head(before) = before[1] /\ Tail(before) \in Seq(Message) /\ Len(Tail(before)) = n - 2
        /\ \A i \in 1..(n - 2) : Tail(before)[i] = before[i + 1]
    BY <1>3, <2>1, HeadTailProperties
  <2>3. \A i \in 1..(n - 2) : p[i] \in Message
    BY <1>1, <1>2
  <2>4. /\ SubSeq(p, 1, n - 2) \in Seq(Message) /\ Len(SubSeq(p, 1, n - 2)) = n - 2
        /\ \A i \in 1..(n - 2) : SubSeq(p, 1, n - 2)[i] = p[i]
    BY <1>1, <2>3, SubSeqProperties
  <2>5. \A i \in 1..(n - 2) : Tail(before)[i] = SubSeq(p, 1, n - 2)[i]
    BY <1>1, <1>2, <1>3, <2>2, <2>4
  <2>6. Tail(before) = SubSeq(p, 1, n - 2)
    BY <2>2, <2>4, <2>5, SeqEqual, Zenon
  <2>7. QED
    BY <1>2, <1>3, <2>2, <2>6
<1>5. ASSUME NEW d \in Doc PROVE Follows(SubSeq(p, 1, (n - 1) - 1), r[d], a.texts[d], d)
  <2>1. before # <<>>
    BY <1>3, EmptySeq
  <2>2. Follows(before, s[d], a.texts[d], d)
    BY DEF AskedAt
  <2> HIDE DEF before
  <2>3. Follows(Tail(before), After(Head(before), s[d], d), a.texts[d], d)
    BY <1>3, <2>1, <2>2, HandledFollows
  <2>4. (n - 1) - 1 = n - 2 /\ r[d] = After(m, s[d], d)
    BY <1>1
  <2>5. QED
    BY <1>4, <2>3, <2>4
<1> HIDE DEF p, m, r, before
<1>6. Asks(p[n - 1], a) /\ n - 1 \in 1..Len(p) /\ m.what # "complete"
  BY <1>1, <1>2 DEF AskedAt
<1>7. \A i \in 1..Len(p) : i # n - 1 => p[i].what # "complete"
  <2> TAKE i \in 1..Len(p)
  <2>1. i + 1 \in 1..Len(q) /\ p[i] = q[i + 1] /\ (i # n - 1 => i + 1 # n)
    BY <1>1, <1>2
  <2>2. QED
    BY <2>1 DEF AskedAt
<1>8. QED
  BY <1>5, <1>6, <1>7 DEF AskedAt, p, m, r

\* When it is the question's turn, the server has the texts.
LEMMA AskedNow ==
    ASSUME NEW q \in Seq(Message), NEW a, NEW s, 1 \in 1..Len(q), AskedAt(q, s, a, 1)
    PROVE  Asks(Head(q), a) /\ NoneAsks(Tail(q)) /\ \A d \in Doc : s[d] = a.texts[d]
<1>1. Len(q) \in Nat /\ q # <<>>
  BY LenProperties, EmptySeq
<1>2. /\ Len(Tail(q)) = Len(q) - 1 /\ Head(q) = q[1] /\ \A i \in 1..Len(Tail(q)) : Tail(q)[i] = q[i + 1]
  BY <1>1, HeadTailProperties
<1>3. SubSeq(q, 1, 1 - 1) = <<>> /\ Len(<<>>) = 0
  BY SubSeqEmpty
<1>4. \A d \in Doc : Follows(<<>>, s[d], a.texts[d], d)
  BY <1>3 DEF AskedAt
<1>5. \A d \in Doc : s[d] = a.texts[d]
  BY <1>3, <1>4 DEF Follows
<1>6. NoneAsks(Tail(q))
  BY <1>1, <1>2 DEF AskedAt, NoneAsks
<1>7. QED
  BY <1>2, <1>5, <1>6 DEF AskedAt

LEMMA NoneAsksOn ==
    ASSUME NEW q \in Seq(Message), NoneAsks(q)
    PROVE  /\ \A m \in Message : m.what # "complete" => NoneAsks(Append(q, m))
           /\ q # <<>> => NoneAsks(Tail(q)) /\ Head(q).what # "complete"
<1>1. ASSUME NEW m \in Message, m.what # "complete" PROVE NoneAsks(Append(q, m))
  <2>1. /\ Len(q) \in Nat /\ Len(Append(q, m)) = Len(q) + 1 /\ Append(q, m)[Len(q) + 1] = m
        /\ \A i \in 1..Len(q) : Append(q, m)[i] = q[i]
    BY AppendProperties, LenProperties
  <2>2. QED
    BY <1>1, <2>1 DEF NoneAsks
<1>2. ASSUME q # <<>> PROVE NoneAsks(Tail(q)) /\ Head(q).what # "complete"
  <2>1. /\ Len(q) \in Nat /\ Len(q) > 0 /\ Len(Tail(q)) = Len(q) - 1 /\ Head(q) = q[1]
        /\ \A i \in 1..Len(Tail(q)) : Tail(q)[i] = q[i + 1]
    BY <1>2, HeadTailProperties, LenProperties, EmptySeq
  <2>2. QED
    BY <2>1 DEF NoneAsks
<1>3. QED
  BY <1>1, <1>2
-----------------------------------------------------------------------------
LEMMA Answers ==
    ASSUME NEW r, RepliesTyped, r = toClient
    PROVE  /\ Len(r) \in Nat
           /\ \A m : /\ Len(Append(r, m)) = Len(r) + 1 /\ Append(r, m)[Len(r) + 1] = m
                     /\ \A i \in 1..Len(r) : Append(r, m)[i] = r[i]
           /\ r # <<>> => /\ Len(r) > 0 /\ Len(Tail(r)) = Len(r) - 1 /\ Head(r) = r[1]
                          /\ \A i \in 1..Len(Tail(r)) : Tail(r)[i] = r[i + 1]
<1>1. PICK S : r \in Seq(S)
  BY DEF RepliesTyped
<1>2. Len(r) \in Nat
  BY <1>1, LenProperties
<1>3. ASSUME NEW m
      PROVE  /\ Len(Append(r, m)) = Len(r) + 1 /\ Append(r, m)[Len(r) + 1] = m
             /\ \A i \in 1..Len(r) : Append(r, m)[i] = r[i]
  <2>1. r \in Seq(S \cup {m}) /\ m \in S \cup {m}
    BY <1>1, SeqMonotonic
  <2>2. QED
    BY <2>1, AppendProperties
<1>4. ASSUME r # <<>>
      PROVE  /\ Len(r) > 0 /\ Len(Tail(r)) = Len(r) - 1 /\ Head(r) = r[1]
             /\ \A i \in 1..Len(Tail(r)) : Tail(r)[i] = r[i + 1]
  BY <1>1, <1>2, <1>4, EmptySeq, HeadTailProperties
<1>5. QED
  BY <1>2, <1>3, <1>4

\* Diagnostics come after an answer, or where there is none.
LEMMA AnsweredBefore ==
    ASSUME RepliesTyped, NEW m, m.what # "completion"
    PROVE  /\ NoneAnswers(toClient) => NoneAnswers(Append(toClient, m))
           /\ \A a : \A n \in 1..Len(toClient) :
                  AnsweredAt(toClient, a, n) =>
                      n \in 1..Len(Append(toClient, m)) /\ AnsweredAt(Append(toClient, m), a, n)
<1> DEFINE r == toClient
           p == Append(toClient, m)
<1>1. /\ Len(r) \in Nat /\ Len(p) = Len(r) + 1 /\ p[Len(r) + 1] = m
      /\ \A i \in 1..Len(r) : p[i] = r[i]
  BY Answers
<1> HIDE DEF p, r
<1>2. NoneAnswers(r) => NoneAnswers(p)
  BY <1>1 DEF NoneAnswers
<1>3. ASSUME NEW a, NEW n \in 1..Len(r), AnsweredAt(r, a, n)
      PROVE  n \in 1..Len(p) /\ AnsweredAt(p, a, n)
  <2>1. n \in 1..Len(p) /\ p[n].what = "completion" /\ Fits(a, p[n].answer)
    BY <1>1, <1>3 DEF AnsweredAt
  <2>2. \A i \in 1..Len(p) : i # n => p[i].what # "completion"
    BY <1>1, <1>3 DEF AnsweredAt
  <2>3. QED
    BY <2>1, <2>2 DEF AnsweredAt
<1>4. QED
  BY <1>2, <1>3 DEF p, r

LEMMA AnsweredLast ==
    ASSUME RepliesTyped, NoneAnswers(toClient), NEW m, NEW a, m.what = "completion", Fits(a, m.answer)
    PROVE  \E n \in 1..Len(Append(toClient, m)) : AnsweredAt(Append(toClient, m), a, n)
<1> DEFINE r == toClient
           p == Append(toClient, m)
           n == Len(r) + 1
<1>1. /\ Len(r) \in Nat /\ Len(p) = n /\ p[n] = m /\ n \in 1..n
      /\ \A i \in 1..Len(r) : p[i] = r[i]
  BY Answers
<1> HIDE DEF p
<1>2. \A i \in 1..Len(p) : i # n => p[i].what # "completion"
  BY <1>1 DEF NoneAnswers
<1>3. AnsweredAt(p, a, n)
  BY <1>1, <1>2 DEF AnsweredAt
<1>4. QED
  BY <1>1, <1>3 DEF p

\* The editor takes the answer, or what comes before it.
LEMMA AnsweredSooner ==
    ASSUME RepliesTyped, toClient # <<>>
    PROVE  /\ NoneAnswers(toClient) => Head(toClient).what # "completion" /\ NoneAnswers(Tail(toClient))
           /\ \A a : \A n \in 1..Len(toClient) :
                  AnsweredAt(toClient, a, n) =>
                      IF Head(toClient).what = "completion"
                      THEN Fits(a, Head(toClient).answer) /\ NoneAnswers(Tail(toClient))
                      ELSE \E k \in 1..Len(Tail(toClient)) : AnsweredAt(Tail(toClient), a, k)
<1> DEFINE r == toClient
           p == Tail(toClient)
           m == Head(toClient)
<1>1. /\ Len(r) \in Nat /\ Len(r) > 0 /\ Len(p) = Len(r) - 1 /\ m = r[1]
      /\ \A i \in 1..Len(p) : p[i] = r[i + 1]
  BY Answers
<1> HIDE DEF p, m, r
<1>2. NoneAnswers(r) => m.what # "completion" /\ NoneAnswers(p)
  BY <1>1 DEF NoneAnswers
<1>3. ASSUME NEW a, NEW n \in 1..Len(r), AnsweredAt(r, a, n)
      PROVE  IF m.what = "completion" THEN Fits(a, m.answer) /\ NoneAnswers(p)
             ELSE \E k \in 1..Len(p) : AnsweredAt(p, a, k)
  <2>1. CASE m.what = "completion"
    <3>1. n = 1
      BY <1>1, <1>3, <2>1 DEF AnsweredAt
    <3>2. \A i \in 1..Len(p) : p[i].what # "completion"
      BY <1>1, <1>3, <3>1 DEF AnsweredAt
    <3>3. QED
      BY <1>1, <1>3, <2>1, <3>1, <3>2 DEF AnsweredAt, NoneAnswers
  <2>2. CASE m.what # "completion"
    <3>1. n # 1 /\ n - 1 \in 1..Len(p) /\ p[n - 1] = r[n]
      BY <1>1, <1>3, <2>2 DEF AnsweredAt
    <3>2. \A i \in 1..Len(p) : i # n - 1 => p[i].what # "completion"
      <4> TAKE i \in 1..Len(p)
      <4>1. i + 1 \in 1..Len(r) /\ p[i] = r[i + 1] /\ (i # n - 1 => i + 1 # n)
        BY <1>1
      <4>2. QED
        BY <1>3, <4>1 DEF AnsweredAt
    <3>3. AnsweredAt(p, a, n - 1)
      BY <1>3, <3>1, <3>2 DEF AnsweredAt
    <3>4. QED
      BY <2>2, <3>1, <3>3
  <2>3. QED
    BY <2>1, <2>2
<1>4. QED
  BY <1>2, <1>3 DEF p, m, r

\* What the server answers fits the texts that it has.
LEMMA CompletionFits ==
    ASSUME NEW a, a.doc \in Doc, \A d \in Doc : store[d] = a.texts[d], TextsOf(disk), disk \in a.disks,
           NEW before
    PROVE  Fits(a, completion(a.doc, a.line, before))
<1> DEFINE c == completion(a.doc, a.line, before)
           dir == DirOf[a.doc]
           secrets == {n[2] : n \in {m \in scanNames(dir) : m[1] = "secret"}}
<1>1. /\ c.about = "secrets" => c.items = secrets
      /\ c.about = "structure" => c.items = Members(findBlockContext(store[a.doc].lines, a.line))
      /\ c.about = "variables" => c.items = completeVariables(dir)
  BY DEF completion
<1>2. ASSUME NEW d \in Doc, a.texts[d] # None, DirOf[d] = dir
      PROVE  NamedSecrets(a.texts[d]) \subseteq secrets
  <2>1. d \in Beneath[dir]
    BY <1>2, TreeAssumption
  <2>2. Named(store[d]) \subseteq scanNames(dir)
    BY <1>2, <2>1 DEF scanNames
  <2>3. \A m \in a.texts[d].names : m[1] = "secret" => m \in Named(store[d])
    BY DEF Named
  <2>4. QED
    BY <2>2, <2>3 DEF NamedSecrets
<1>3. OffersVariables(a.texts, a.doc, disk, completeVariables(dir))
  BY VariablesFit
<1> HIDE DEF c, secrets
<1>4. QED
  BY <1>1, <1>2, <1>3 DEF Fits, c
-----------------------------------------------------------------------------
\* Of a question, only what has been on disk since can change while it waits.
LEMMA QuestionKept ==
    ASSUME EditorTyped, IInv', UNCHANGED asked \/ Meanwhile
    PROVE  /\ asked = None <=> asked' = None
           /\ asked # None =>
                 /\ asked'.doc = asked.doc /\ asked'.line = asked.line /\ asked'.texts = asked.texts
                 /\ asked.disks \subseteq asked'.disks /\ (Meanwhile => disk' \in asked'.disks)
<1>1. CASE UNCHANGED asked /\ ~Meanwhile
  BY <1>1
<1>2. CASE Meanwhile /\ asked # None
  <2>1. asked \in Question /\ asked' = [asked EXCEPT !.disks = @ \cup {disk'}]
    BY <1>2 DEF EditorTyped, Meanwhile
  <2>2. asked' \in Question
    <3>1. disk' \in AllTexts
      BY DEF IInv, Typed, TextsOf, AllTexts
    <3>2. QED
      BY <2>1, <3>1 DEF Question
  <2>3. QED
    BY <1>2, <2>1, <2>2, NoneAssumption DEF Question
<1>3. CASE Meanwhile /\ asked = None
  BY <1>3 DEF Meanwhile
<1>4. QED
  BY <1>1, <1>2, <1>3

LEMMA AppendedIsMessage ==
    ASSUME NEW q \in Seq(Message), NEW m, Append(q, m) \in Seq(Message)
    PROVE  m \in Message
<1>1. q \in Seq(Message \cup {m}) /\ m \in Message \cup {m}
  BY SeqMonotonic
<1>2. Len(q) \in Nat /\ Len(Append(q, m)) = Len(q) + 1 /\ Append(q, m)[Len(q) + 1] = m
  BY <1>1, AppendProperties, LenProperties
<1>3. Append(q, m)[Len(q) + 1] \in Message
  BY <1>2, ElementOfSeq, LenProperties
<1>4. QED
  BY <1>2, <1>3

LEMMA SendConverses ==
    ASSUME IInv, IInv', EditorTyped, Conversation,
           UNCHANGED toServer \/ \E m \in Message : m.what # "complete" /\ toServer' = Append(toServer, m),
           UNCHANGED <<toClient, store, answer>>,
           UNCHANGED <<asked, disk>> \/ Meanwhile
    PROVE  Conversation'
<1>1. /\ asked = None <=> asked' = None
      /\ asked # None =>
            /\ asked'.doc = asked.doc /\ asked'.line = asked.line /\ asked'.texts = asked.texts
            /\ asked.disks \subseteq asked'.disks /\ (Meanwhile => disk' \in asked'.disks)
  BY QuestionKept
<1>2. toServer \in Seq(Message)
  BY DEF IInv, Typed, TextsOf
<1>3. NoneAsks(toServer) => NoneAsks(toServer')
  BY <1>2, NoneAsksOn
<1>4. ASSUME NEW n \in 1..Len(toServer), AskedAt(toServer, store, asked, n), asked # None
      PROVE  n \in 1..Len(toServer') /\ AskedAt(toServer', store', asked', n)
  <2>1. n \in 1..Len(toServer') /\ AskedAt(toServer', store, asked, n)
    BY <1>2, <1>4, AskedBefore
  <2>2. QED
    BY <1>1, <1>4, <2>1 DEF AskedAt, Asks
<1>5. ASSUME NEW n \in 1..Len(toClient), AnsweredAt(toClient, asked, n), asked # None
      PROVE  AnsweredAt(toClient', asked', n)
  BY <1>1, <1>5 DEF AnsweredAt, Fits
<1>6. asked' # None =>
          /\ disk' \in asked'.disks
          /\ \/ NoneAnswers(toClient') /\ \E n \in 1..Len(toServer') : AskedAt(toServer', store', asked', n)
             \/ NoneAsks(toServer') /\ \E n \in 1..Len(toClient') : AnsweredAt(toClient', asked', n)
  <2>1. asked' # None => disk' \in asked'.disks
    BY <1>1 DEF Conversation
  <2>2. asked' # None =>
            \/ NoneAnswers(toClient') /\ \E n \in 1..Len(toServer') : AskedAt(toServer', store', asked', n)
            \/ NoneAsks(toServer') /\ \E n \in 1..Len(toClient') : AnsweredAt(toClient', asked', n)
    BY <1>1, <1>3, <1>4, <1>5 DEF Conversation
  <2>3. QED
    BY <2>1, <2>2
<1>7. /\ asked' = None => NoneAsks(toServer') /\ NoneAnswers(toClient')
      /\ answer' # None => Fits(answer'.asked, answer'.got)
  BY <1>1, <1>3 DEF Conversation
<1>8. QED
  BY <1>6, <1>7 DEF Conversation

LEMMA AskConverses ==
    ASSUME IInv, EditorTyped, EditorTyped', Conversation, Ask
    PROVE  Conversation'
<1>1. PICK d \in Editable, at \in Cursor :
        /\ toServer' = Append(toServer, [what |-> "complete", doc |-> d, line |-> at.line, before |-> at.before])
        /\ asked' = [doc |-> d, line |-> at.line, texts |-> buffer, disks |-> {disk}]
  BY DEF Ask
<1> DEFINE m == [what |-> "complete", doc |-> d, line |-> at.line, before |-> at.before]
<1>2. asked = None /\ answer' = None /\ UNCHANGED <<toClient, store>>
  BY DEF Ask
<1>3. m \in Message
  <2>1. m \in MessageAbout(d)
    BY DEF MessageAbout
  <2>2. QED
    BY <2>1, AboutIsMessage, LspAssumption
<1>4. toServer \in Seq(Message) /\ \A e \in Doc : Follows(toServer, store[e], buffer[e], e)
  BY DEF IInv, Typed, TextsOf
<1>5. NoneAsks(toServer) /\ NoneAnswers(toClient)
  BY <1>2 DEF Conversation
<1>6. Asks(m, asked') /\ asked'.texts = buffer /\ disk' \in asked'.disks
  BY <1>1 DEF Asks, Ask
<1> HIDE DEF m
<1>7. AskedAt(Append(toServer, m), store, asked', Len(toServer) + 1)
  BY <1>3, <1>4, <1>5, <1>6, AskedLast
<1>8. Len(toServer) + 1 \in 1..Len(Append(toServer, m))
  BY <1>3, <1>4, AppendProperties, LenProperties
<1>9. asked' # None
  <2>1. buffer \in AllTexts /\ disk \in AllTexts
    BY DEF IInv, Typed, TextsOf, AllTexts
  <2>2. asked' \in Question
    BY <1>1, <2>1 DEF Question
  <2>3. QED
    BY <2>2, NoneAssumption
<1>10. toServer' = Append(toServer, m)
  BY <1>1 DEF m
<1>11. QED
  BY <1>2, <1>5, <1>6, <1>7, <1>8, <1>9, <1>10 DEF Conversation, NoneAnswers

LEMMA UserConverses ==
    ASSUME IInv, IInv', EditorTyped, EditorTyped', Conversation, User
    PROVE  Conversation'
<1>1. CASE Ask
  BY <1>1, AskConverses
<1>2. CASE ~Ask
  <2>1. UNCHANGED <<toClient, store, answer>> /\ (UNCHANGED <<asked, disk>> \/ Meanwhile)
    BY <1>2 DEF User, OpenDocument, Edit, Save, Close, WriteFile
  <2>2. UNCHANGED toServer \/ \E m : m.what # "complete" /\ toServer' = Append(toServer, m)
    <3>1. CASE OpenDocument
      BY <3>1 DEF OpenDocument
    <3>2. CASE Edit
      BY <3>2 DEF Edit
    <3>3. CASE Save
      BY <3>3 DEF Save
    <3>4. CASE Close
      BY <3>4 DEF Close
    <3>5. CASE WriteFile
      BY <3>5 DEF WriteFile
    <3>6. QED
      BY <1>2, <3>1, <3>2, <3>3, <3>4, <3>5 DEF User
  <2>3. toServer \in Seq(Message) /\ toServer' \in Seq(Message)
    BY DEF IInv, Typed, TextsOf
  <2>4. UNCHANGED toServer \/ \E m \in Message : m.what # "complete" /\ toServer' = Append(toServer, m)
    BY <2>2, <2>3, AppendedIsMessage
  <2>5. QED
    BY <2>1, <2>4, SendConverses
<1>3. QED
  BY <1>1, <1>2

LEMMA ReceiveConverses ==
    ASSUME RepliesTyped, Conversation, Receive
    PROVE  Conversation'
<1> DEFINE m == Head(toClient)
<1>1. toClient # <<>> /\ toClient' = Tail(toClient) /\ UNCHANGED <<toServer, store, disk>>
  BY DEF Receive
<1>2. CASE m.what = "completion"
  <2>1. asked # None /\ NoneAsks(toServer) /\ \E n \in 1..Len(toClient) : AnsweredAt(toClient, asked, n)
    BY <1>1, <1>2, AnsweredSooner DEF Conversation
  <2>2. Fits(asked, m.answer) /\ NoneAnswers(toClient')
    BY <1>1, <1>2, <2>1, AnsweredSooner
  <2>3. answer' = [asked |-> asked, got |-> m.answer] /\ asked' = None
    BY <1>2 DEF Receive
  <2> HIDE DEF m
  <2>4. Fits(answer'.asked, answer'.got)
    BY <2>2, <2>3
  <2>5. QED
    BY <1>1, <2>1, <2>2, <2>3, <2>4 DEF Conversation, NoneAsks
<1>3. CASE m.what # "completion"
  <2>1. UNCHANGED <<asked, answer>>
    BY <1>3 DEF Receive
  <2>2. NoneAnswers(toClient) => NoneAnswers(toClient')
    BY <1>1, AnsweredSooner
  <2>3. \A n \in 1..Len(toClient) :
            AnsweredAt(toClient, asked, n) => \E k \in 1..Len(toClient') : AnsweredAt(toClient', asked, k)
    BY <1>1, <1>3, AnsweredSooner
  <2>4. QED
    BY <1>1, <2>1, <2>2, <2>3 DEF Conversation
<1>4. QED
  BY <1>2, <1>3

LEMMA HandleConverses ==
    ASSUME IInv, RepliesTyped, EditorTyped, Conversation, Handle
    PROVE  Conversation'
<1> DEFINE m == Head(toServer)
<1>1. /\ toServer # <<>> /\ toServer' = Tail(toServer) /\ UNCHANGED <<asked, answer, disk>>
      /\ store' = [d \in Doc |-> After(m, store[d], d)]
      /\ toServer \in Seq(Message)
  BY HandleStores DEF Handle, IInv, Typed, TextsOf
<1>2. CASE m.what # "complete"
  <2>1. UNCHANGED toClient \/ \E r : r.what # "completion" /\ toClient' = Append(toClient, r)
    BY <1>2 DEF Handle, didOpen, didChange, didSave, didClose, Publish
  <2> HIDE DEF m
  <2>2. NoneAnswers(toClient) => NoneAnswers(toClient')
    BY <2>1, AnsweredBefore
  <2>3. \A n \in 1..Len(toClient) :
            AnsweredAt(toClient, asked, n) => \E k \in 1..Len(toClient') : AnsweredAt(toClient', asked, k)
    BY <2>1, AnsweredBefore
  <2>4. NoneAsks(toServer) => NoneAsks(toServer')
    BY <1>1, NoneAsksOn
  <2>5. ASSUME NEW n \in 1..Len(toServer), AskedAt(toServer, store, asked, n)
        PROVE  \E k \in 1..Len(toServer') : AskedAt(toServer', store', asked, k)
    <3>1. n # 1
      <4>1. toServer[1] = m
        BY <1>1, HeadTailProperties DEF m
      <4>2. QED
        BY <1>2, <2>5, <4>1 DEF AskedAt, Asks
    <3>2. n \in 2..Len(toServer)
      BY <3>1, LenProperties, <1>1
    <3>3. n - 1 \in 1..Len(toServer') /\ AskedAt(toServer', store', asked, n - 1)
      BY <1>1, <2>5, <3>2, AskedSooner DEF m
    <3>4. QED
      BY <3>3
  <2>6. QED
    BY <1>1, <2>2, <2>3, <2>4, <2>5 DEF Conversation
<1>3. CASE m.what = "complete"
  <2>1. /\ UNCHANGED store
        /\ toClient' = Append(toClient, [what |-> "completion", answer |-> completion(m.doc, m.line, m.before)])
    BY <1>3 DEF Handle, complete
  <2>2. ~NoneAsks(toServer)
    BY <1>1, <1>3, NoneAsksOn
  <2>3. asked # None /\ NoneAnswers(toClient)
    BY <2>2 DEF Conversation
  <2>4. PICK n \in 1..Len(toServer) : AskedAt(toServer, store, asked, n)
    BY <2>2, <2>3 DEF Conversation
  <2>5. n = 1
    <3>1. toServer[1] = m /\ 1 \in 1..Len(toServer)
      BY <1>1, HeadTailProperties, LenProperties, EmptySeq
    <3>2. QED
      BY <1>3, <2>4, <3>1 DEF AskedAt
  <2>6. Asks(m, asked) /\ NoneAsks(toServer') /\ \A d \in Doc : store[d] = asked.texts[d]
    BY <1>1, <2>4, <2>5, AskedNow
  <2>7. asked.doc \in Doc /\ TextsOf(disk) /\ disk \in asked.disks
    BY <2>3, LspAssumption DEF EditorTyped, Question, IInv, Typed, Conversation
  <2> DEFINE got == completion(asked.doc, asked.line, m.before)
             r == [what |-> "completion", answer |-> got]
  <2>8. toClient' = Append(toClient, r)
    BY <2>1, <2>6 DEF Asks
  <2> HIDE DEF m
  <2>9. Fits(asked, got)
    BY <2>6, <2>7, CompletionFits
  <2>10. r.what = "completion" /\ r.answer = got
    OBVIOUS
  <2> HIDE DEF got, r
  <2>11. \E k \in 1..Len(Append(toClient, r)) : AnsweredAt(Append(toClient, r), asked, k)
    BY <2>3, <2>9, <2>10, AnsweredLast
  <2>12. QED
    BY <1>1, <2>3, <2>6, <2>8, <2>11 DEF Conversation
<1>4. QED
  BY <1>2, <1>3

LEMMA Converses == Spec => []Conversation
<1>1. Init => Conversation
  BY EmptySeq DEF Init, Conversation, NoneAsks, NoneAnswers
<1>2. /\ IInv /\ EditorTyped /\ RepliesTyped /\ Conversation
      /\ IInv' /\ EditorTyped' /\ RepliesTyped' /\ [Next]_vars
      => Conversation'
  <2>1. ASSUME Conversation, UNCHANGED vars PROVE Conversation'
    BY <2>1 DEF vars, Conversation, NoneAsks, NoneAnswers, AskedAt, AnsweredAt
  <2>2. QED
    BY <2>1, UserConverses, ReceiveConverses, HandleConverses DEF Next
<1>3. QED
  BY <1>1, <1>2, Types, PTL DEF Spec

\* Whatever is on its way, however far the server is behind, and whether the
\* documents are saved, or parse, the answer has the names of the secrets that
\* the open documents of the directory had when the question was asked.
THEOREM SecretsOffered == Spec => []UnsavedNamesAreOffered
<1>1. Conversation => UnsavedNamesAreOffered
  BY DEF Conversation, UnsavedNamesAreOffered, Answered, Fits, NamedSecrets
<1>2. QED
  BY <1>1, Converses, PTL

\* The variables on offer are those that the server's files and the editor's texts
\* declare, whatever the files import, in cycles too, and whatever changes on
\* disk while the question is on its way.
THEOREM VariablesOffered == Spec => []VariablesAreOfTheText
<1>1. Conversation => VariablesAreOfTheText
  BY DEF Conversation, VariablesAreOfTheText, Answered, Fits, OffersVariables
<1>2. QED
  BY <1>1, Converses, PTL
-----------------------------------------------------------------------------
(***************************************************************************)
(* Blocks: reading upwards finds the block that the line is in.            *)
(***************************************************************************)
Lined(lines) == Len(lines) \in Nat /\ \A i \in 1..Len(lines) : lines[i].braces \in Seq({"open", "close"})

Places(lines, i, brace) == {<<i, k>> : k \in {n \in DOMAIN lines[i].braces : lines[i].braces[n] = brace}}

LEMMA LineIsFinite ==
    ASSUME NEW lines, Lined(lines), NEW i \in 1..Len(lines), NEW brace
    PROVE  IsFiniteSet(Places(lines, i, brace))
<1> DEFINE S == {n \in DOMAIN lines[i].braces : lines[i].braces[n] = brace}
           T == Places(lines, i, brace)
           f == [k \in S |-> <<i, k>>]
<1>1. Len(lines[i].braces) \in Nat /\ DOMAIN lines[i].braces = 1..Len(lines[i].braces)
  BY LenProperties DEF Lined
<1>2. IsFiniteSet(S)
  <2>1. IsFiniteSet(1..Len(lines[i].braces))
    <3>1. 1 \in Int /\ Len(lines[i].braces) \in Int
      BY <1>1
    <3>2. QED
      BY <3>1, FS_Interval
  <2>2. S \in SUBSET (1..Len(lines[i].braces))
    BY <1>1
  <2> HIDE DEF S
  <2>3. QED
    BY <2>1, <2>2, FS_Subset
<1> HIDE DEF S
<1>3. f \in Surjection(S, T)
  BY DEF Surjection, Places, S
<1> HIDE DEF f, T
<1>4. IsFiniteSet(T)
  BY <1>2, <1>3, FS_Surjection
<1>5. QED
  BY <1>4 DEF T

LEMMA BracesSplit ==
    ASSUME NEW lines, NEW first \in Int, NEW mid \in Int, NEW last \in Int, NEW brace,
           first <= mid + 1, mid <= last
    PROVE  /\ Braces(lines, first, last, brace)
              = Braces(lines, first, mid, brace) \cup Braces(lines, mid + 1, last, brace)
           /\ Braces(lines, first, mid, brace) \cap Braces(lines, mid + 1, last, brace) = {}
<1>1. Braces(lines, first, last, brace) = UNION {Places(lines, i, brace) : i \in first..last}
  BY DEF Braces, Places
<1>2. Braces(lines, first, mid, brace) = UNION {Places(lines, i, brace) : i \in first..mid}
  BY DEF Braces, Places
<1>3. Braces(lines, mid + 1, last, brace) = UNION {Places(lines, i, brace) : i \in (mid + 1)..last}
  BY DEF Braces, Places
<1>4. first..last = (first..mid) \cup ((mid + 1)..last) /\ (first..mid) \cap ((mid + 1)..last) = {}
  OBVIOUS
<1>5. \A i, j : \A p : p \in Places(lines, i, brace) /\ p \in Places(lines, j, brace) => i = j
  BY DEF Places
<1>6. /\ \A p : p \in Braces(lines, first, last, brace) <=> \E i \in first..last : p \in Places(lines, i, brace)
      /\ \A p : p \in Braces(lines, first, mid, brace) <=> \E i \in first..mid : p \in Places(lines, i, brace)
      /\ \A p : p \in Braces(lines, mid + 1, last, brace)
                 <=> \E i \in (mid + 1)..last : p \in Places(lines, i, brace)
  BY <1>1, <1>2, <1>3
<1>7. \A p : p \in Braces(lines, first, last, brace)
             <=> p \in Braces(lines, first, mid, brace) \/ p \in Braces(lines, mid + 1, last, brace)
  BY <1>4, <1>6, Zenon
<1>8. \A p : ~(p \in Braces(lines, first, mid, brace) /\ p \in Braces(lines, mid + 1, last, brace))
  BY <1>4, <1>5, <1>6
<1>9. QED
  BY <1>7, <1>8

LEMMA BracesOfOneLine ==
    ASSUME NEW lines, NEW i \in Int, NEW brace
    PROVE  Braces(lines, i, i, brace) = Places(lines, i, brace)
<1>1. i..i = {i}
  OBVIOUS
<1>2. QED
  BY <1>1 DEF Braces, Places

LEMMA BracesAreFinite ==
    ASSUME NEW lines, Lined(lines), NEW first \in 1..(Len(lines) + 1), NEW last \in 0..Len(lines), NEW brace
    PROVE  IsFiniteSet(Braces(lines, first, last, brace))
<1> DEFINE B(n) == Braces(lines, first, n, brace)
           T == {n \in (first - 1)..Len(lines) : ~IsFiniteSet(B(n))}
<1>1. Len(lines) \in Nat
  BY DEF Lined
<1>2. CASE last < first
  <2>1. first..last = {}
    BY <1>1, <1>2
  <2>2. Braces(lines, first, last, brace) = {}
    BY <2>1 DEF Braces
  <2>3. QED
    BY <2>2, FS_EmptySet
<1>3. CASE last >= first
  <2>1. SUFFICES ASSUME last \in T PROVE FALSE
    BY <1>1, <1>3
  <2>2. T \subseteq Nat
    BY <1>1
  <2>3. PICK n \in T : \A k \in T : n <= k
    BY <2>1, <2>2, LeastNatural
  <2>4. n # first - 1
    <3>1. first..(first - 1) = {}
      OBVIOUS
    <3>2. Braces(lines, first, first - 1, brace) = {}
      BY <3>1 DEF Braces
    <3>3. QED
      BY <2>3, <3>2, FS_EmptySet
  <2>5. n - 1 \notin T /\ n - 1 \in (first - 1)..Len(lines) /\ n \in 1..Len(lines)
    BY <1>1, <2>3, <2>4
  <2>6. IsFiniteSet(B(n - 1))
    BY <2>5
  <2>7. B(n) = B(n - 1) \cup Braces(lines, n, n, brace)
    <3>1. (n - 1) + 1 = n /\ first <= (n - 1) + 1 /\ n - 1 <= n /\ n - 1 \in Int /\ n \in Int /\ first \in Int
      BY <1>1, <2>5
    <3>2. QED
      BY <3>1, BracesSplit
  <2>8. IsFiniteSet(Braces(lines, n, n, brace))
    BY <2>5, BracesOfOneLine, LineIsFinite
  <2> HIDE DEF B
  <2>9. IsFiniteSet(B(n))
    <3>1. IsFiniteSet(B(n - 1) \cup Braces(lines, n, n, brace))
      BY <2>6, <2>8, FS_Union, Zenon
    <3>2. QED
      BY <2>7, <3>1
  <2>10. QED
    BY <2>3, <2>9
<1>4. QED
  BY <1>1, <1>2, <1>3

\* What two stretches of lines open more than they close adds up.
LEMMA OpenAdds ==
    ASSUME NEW lines, Lined(lines), NEW first \in 1..(Len(lines) + 1), NEW last \in 0..Len(lines),
           NEW mid \in (first - 1)..last
    PROVE  /\ Open(lines, first, mid) \in Int /\ Open(lines, mid + 1, last) \in Int
           /\ Open(lines, first, last) = Open(lines, first, mid) + Open(lines, mid + 1, last)
<1>1. Len(lines) \in Nat /\ mid \in 0..Len(lines) /\ mid + 1 \in 1..(Len(lines) + 1)
  BY DEF Lined
<1>2. ASSUME NEW brace
      PROVE  /\ Cardinality(Braces(lines, first, mid, brace)) \in Nat
             /\ Cardinality(Braces(lines, mid + 1, last, brace)) \in Nat
             /\ Cardinality(Braces(lines, first, last, brace))
                = Cardinality(Braces(lines, first, mid, brace)) + Cardinality(Braces(lines, mid + 1, last, brace))
  <2> DEFINE S == Braces(lines, first, mid, brace)
             T == Braces(lines, mid + 1, last, brace)
  <2>1. IsFiniteSet(S) /\ IsFiniteSet(T)
    BY <1>1, BracesAreFinite
  <2>2. Braces(lines, first, last, brace) = S \cup T /\ S \cap T = {}
    <3>1. first \in Int /\ mid \in Int /\ last \in Int /\ first <= mid + 1 /\ mid <= last
      BY <1>1
    <3>2. QED
      BY <3>1, BracesSplit
  <2> HIDE DEF S, T
  <2>3. Cardinality(S \cup T) = Cardinality(S) + Cardinality(T) - Cardinality(S \cap T)
    BY <2>1, FS_Union
  <2>4. Cardinality(S) \in Nat /\ Cardinality(T) \in Nat /\ Cardinality(S \cap T) = 0
    BY <2>1, <2>2, FS_CardinalityType, FS_EmptySet
  <2>5. Cardinality(S \cup T) = Cardinality(S) + Cardinality(T)
    BY <2>3, <2>4
  <2>6. QED
    BY <2>2, <2>4, <2>5 DEF S, T
<1>3. QED
  BY <1>2 DEF Open

LEMMA OpenNowhere ==
    ASSUME NEW lines, NEW first \in Int, NEW last \in Int, first > last
    PROVE  Open(lines, first, last) = 0
<1>1. first..last = {}
  OBVIOUS
<1>2. \A brace : Braces(lines, first, last, brace) = {}
  BY <1>1 DEF Braces
<1>3. QED
  BY <1>2, FS_EmptySet DEF Open

\* A tidy line opens a block for the lines below exactly if it has more opening
\* braces than closing ones, and then one more.
LEMMA TidyOpens ==
    ASSUME NEW lines, Lined(lines), NEW i \in 1..Len(lines), Tidy(lines[i])
    PROVE  /\ Open(lines, i, i) \in Int /\ Open(lines, i, i) <= 1
           /\ Open(lines, i, i) > 0
              <=> \E k \in DOMAIN lines[i].braces :
                      /\ lines[i].braces[k] = "open"
                      /\ \A n \in (k + 1)..Len(lines[i].braces) : lines[i].braces[n] # "close"
<1> DEFINE b == lines[i].braces
           O == Places(lines, i, "open")
           C == Places(lines, i, "close")
<1>1. Len(b) \in Nat /\ DOMAIN b = 1..Len(b) /\ \A k \in 1..Len(b) : b[k] \in {"open", "close"}
  BY LenProperties, ElementOfSeq DEF Lined
<1>2. IsFiniteSet(O) /\ IsFiniteSet(C) /\ Open(lines, i, i) = Cardinality(O) - Cardinality(C)
  BY LineIsFinite, BracesOfOneLine DEF Open
<1>3. O \subseteq {<<i, 1>>}
  BY DEF Places, Tidy
<1>4. Cardinality(C) \in Nat /\ (Cardinality(C) = 0 <=> C = {})
  BY <1>2, FS_CardinalityType, FS_EmptySet
<1>5. O = {} \/ O = {<<i, 1>>}
  BY <1>3
<1>6. Cardinality(O) = IF O = {} THEN 0 ELSE 1
  BY <1>5, FS_EmptySet, FS_Singleton
<1>7. Open(lines, i, i) \in Int /\ Open(lines, i, i) <= 1 /\ (Open(lines, i, i) > 0 <=> O # {} /\ C = {})
  BY <1>2, <1>4, <1>6
<1>8. O # {} <=> \E k \in 1..Len(b) : b[k] = "open"
  BY <1>1 DEF Places
<1>9. C = {} <=> \A k \in 1..Len(b) : b[k] # "close"
  BY <1>1 DEF Places
<1>10. \A k \in 1..Len(b) : b[k] = "open" => k = 1
  BY <1>1 DEF Tidy
<1> HIDE DEF O, C, b
<1>11. (O # {} /\ C = {}) <=> \E k \in DOMAIN b : b[k] = "open" /\ \A n \in (k + 1)..Len(b) : b[n] # "close"
  <2>1. ASSUME NEW k \in 1..Len(b), b[k] = "open", \A n \in (k + 1)..Len(b) : b[n] # "close"
        PROVE  \A n \in 1..Len(b) : b[n] # "close"
    BY <1>1, <1>10, <2>1
  <2>2. QED
    BY <1>1, <1>8, <1>9, <2>1
<1>12. QED
  BY <1>7, <1>11 DEF b
LEMMA LinesAreLined ==
    ASSUME NEW d \in Doc, NEW t \in Text[d]
    PROVE  Lined(t.lines) /\ DOMAIN t.lines = 1..Len(t.lines)
<1> DEFINE L == [type : {line.type : line \in ToSet(t.lines)}, braces : Seq({"open", "close"})]
<1>1. t.lines \in Seq(L)
  BY TextAssumption
<1>2. \A line \in L : line.braces \in Seq({"open", "close"})
  OBVIOUS
<1> HIDE DEF L
<1>3. Len(t.lines) \in Nat /\ DOMAIN t.lines = 1..Len(t.lines)
  BY <1>1, LenProperties
<1>4. \A i \in 1..Len(t.lines) : t.lines[i] \in L
  BY <1>1, ElementOfSeq
<1>5. QED
  BY <1>2, <1>3, <1>4 DEF Lined

\* The lines from which more is opened than closed, and those whose block is open.
Opening(lines, cursor) == {i \in 1..cursor : Open(lines, i, cursor) > 0}

StillOpen(lines, cursor) ==
    {i \in 1..(cursor - 1) :
        /\ \E k \in DOMAIN lines[i].braces :
              /\ lines[i].braces[k] = "open"
              /\ \A n \in (k + 1)..Len(lines[i].braces) : lines[i].braces[n] # "close"
        /\ \A j \in (i + 1)..(cursor - 1) : Open(lines, i + 1, j) >= 0}

LEMMA CursorLine ==
    ASSUME NEW lines, Lined(lines), NEW cursor \in 1..Len(lines), lines[cursor].braces = <<>>
    PROVE  Open(lines, cursor, cursor) = 0
<1>1. DOMAIN lines[cursor].braces = {}
  BY EmptySeq, LenProperties
<1>2. \A brace : Braces(lines, cursor, cursor, brace) = {}
  <2>1. \A brace : Places(lines, cursor, brace) = {}
    BY <1>1 DEF Places
  <2>2. cursor \in Int
    BY DEF Lined
  <2>3. QED
    BY <2>1, <2>2, BracesOfOneLine
<1>3. Cardinality({}) = 0
  BY FS_EmptySet
<1>4. Open(lines, cursor, cursor) = Cardinality({}) - Cardinality({})
  BY <1>2 DEF Open
<1>5. QED
  BY <1>3, <1>4

\* Of the lines before the cursor, those whose block is open are among those
\* from which more is opened than closed, and the last of these is one of them.
LEMMA LastIsTheSame ==
    ASSUME NEW lines, Lined(lines), NEW cursor \in 1..Len(lines), lines[cursor].braces = <<>>,
           \A i \in 1..(cursor - 1) : Tidy(lines[i])
    PROVE  /\ StillOpen(lines, cursor) \subseteq Opening(lines, cursor)
           /\ \A a \in Opening(lines, cursor) :
                  (\A j \in Opening(lines, cursor) : j <= a) => a \in StillOpen(lines, cursor)
<1>1. Len(lines) \in Nat /\ cursor \in Nat
  BY DEF Lined
<1>2. Open(lines, cursor, cursor) = 0
  BY CursorLine
<1>3. ASSUME NEW i \in 1..cursor
      PROVE  /\ Open(lines, i, i) \in Int /\ Open(lines, i + 1, cursor) \in Int
             /\ Open(lines, i, cursor) = Open(lines, i, i) + Open(lines, i + 1, cursor)
  <2>1. i \in 1..(Len(lines) + 1) /\ cursor \in 0..Len(lines) /\ i \in (i - 1)..cursor
    BY <1>1
  <2>2. QED
    BY <2>1, OpenAdds
<1>4. ASSUME NEW i \in 1..cursor, NEW j \in i..cursor
      PROVE  /\ Open(lines, i + 1, j) \in Int /\ Open(lines, j + 1, cursor) \in Int
             /\ Open(lines, i + 1, cursor) = Open(lines, i + 1, j) + Open(lines, j + 1, cursor)
  <2>1. i + 1 \in 1..(Len(lines) + 1) /\ cursor \in 0..Len(lines) /\ j \in ((i + 1) - 1)..cursor
    BY <1>1
  <2>2. QED
    BY <2>1, OpenAdds
<1>5. Open(lines, cursor + 1, cursor) = 0
  BY <1>1, OpenNowhere
<1>6. ASSUME NEW i \in StillOpen(lines, cursor) PROVE i \in Opening(lines, cursor)
  <2>1. i \in 1..(cursor - 1) /\ i \in 1..cursor /\ i \in 1..Len(lines) /\ Tidy(lines[i])
    BY <1>1 DEF StillOpen
  <2>2. Open(lines, i, i) > 0
    BY <2>1, TidyOpens DEF StillOpen
  <2>3. Open(lines, i + 1, cursor - 1) >= 0
    <3>1. CASE i + 1 <= cursor - 1
      BY <1>1, <2>1, <3>1 DEF StillOpen
    <3>2. CASE i + 1 > cursor - 1
      <4>1. i + 1 \in Int /\ cursor - 1 \in Int
        BY <1>1, <2>1
      <4>2. Open(lines, i + 1, cursor - 1) = 0
        BY <3>2, <4>1, OpenNowhere
      <4>3. QED
        BY <4>2
    <3>3. QED
      BY <1>1, <2>1, <3>1, <3>2
  <2>4. Open(lines, i + 1, cursor) = Open(lines, i + 1, cursor - 1) + Open(lines, cursor, cursor)
    <3>1. cursor - 1 \in i..cursor /\ (cursor - 1) + 1 = cursor
      BY <1>1, <2>1
    <3>2. QED
      BY <1>4, <2>1, <3>1
  <2>5. Open(lines, i, cursor) > 0
    <3>1. Open(lines, i + 1, cursor - 1) \in Int
      <4>1. cursor - 1 \in i..cursor
        BY <1>1, <2>1
      <4>2. QED
        BY <1>4, <2>1, <4>1
    <3>2. Open(lines, i, i) \in Int /\ Open(lines, i, cursor) = Open(lines, i, i) + Open(lines, i + 1, cursor)
      BY <1>3, <2>1
    <3>3. Open(lines, i + 1, cursor) = Open(lines, i + 1, cursor - 1)
      BY <1>2, <2>4, <3>1
    <3>4. QED
      BY <2>2, <2>3, <3>1, <3>2, <3>3
  <2>6. QED
    BY <2>1, <2>5 DEF Opening
<1>7. ASSUME NEW a \in Opening(lines, cursor), \A j \in Opening(lines, cursor) : j <= a
      PROVE  a \in StillOpen(lines, cursor)
  <2>1. a \in 1..cursor /\ Open(lines, a, cursor) > 0
    BY DEF Opening
  <2>2. a # cursor
    BY <1>2, <2>1
  <2>3. a \in 1..(cursor - 1) /\ a \in 1..Len(lines) /\ Tidy(lines[a])
    BY <1>1, <2>1, <2>2
  <2>4. ASSUME NEW j \in (a + 1)..(cursor + 1) PROVE ~(Open(lines, j, cursor) > 0)
    <3>1. CASE j = cursor + 1
      BY <1>5, <3>1
    <3>2. CASE j # cursor + 1
      <4>1. j \in 1..cursor /\ ~(j <= a)
        BY <1>1, <2>1, <3>2
      <4>2. QED
        BY <1>7, <4>1 DEF Opening
    <3>3. QED
      BY <3>1, <3>2
  <2>5. Open(lines, a, a) > 0 /\ Open(lines, a, a) \in Int /\ Open(lines, a, a) <= 1
        /\ Open(lines, a + 1, cursor) \in Int /\ Open(lines, a + 1, cursor) >= 0
    <3>1. a + 1 \in (a + 1)..(cursor + 1)
      BY <1>1, <2>1
    <3>2. ~(Open(lines, a + 1, cursor) > 0)
      BY <2>4, <3>1
    <3>3. Open(lines, a, a) <= 1
      BY <2>3, TidyOpens
    <3>4. QED
      BY <1>3, <2>1, <3>2, <3>3, SMTT(30)
  <2>6. ASSUME NEW j \in (a + 1)..(cursor - 1) PROVE Open(lines, a + 1, j) >= 0
    <3>1. j \in a..cursor /\ j + 1 \in (a + 1)..(cursor + 1)
      BY <1>1, <2>1
    <3>2. ~(Open(lines, j + 1, cursor) > 0)
      BY <2>4, <3>1
    <3>3. /\ Open(lines, a + 1, j) \in Int /\ Open(lines, j + 1, cursor) \in Int
          /\ Open(lines, a + 1, cursor) = Open(lines, a + 1, j) + Open(lines, j + 1, cursor)
      BY <1>4, <2>1, <3>1
    <3>4. QED
      BY <2>5, <3>2, <3>3
  <2>7. \E k \in DOMAIN lines[a].braces :
            /\ lines[a].braces[k] = "open"
            /\ \A n \in (k + 1)..Len(lines[a].braces) : lines[a].braces[n] # "close"
    BY <2>3, <2>5, TidyOpens
  <2>8. QED
    BY <2>3, <2>6, <2>7 DEF StillOpen
<1>8. QED
  BY <1>6, <1>7

LEMMA GreatestNatural ==
    ASSUME NEW n \in Nat, NEW T, T \subseteq 1..n, T # {}
    PROVE  \E x \in T : \A y \in T : y <= x
<1> DEFINE S == {k \in 0..n : n - k \in T}
<1>1. S \subseteq Nat /\ S # {}
  <2>1. PICK x \in T : TRUE
    OBVIOUS
  <2>2. x \in 1..n
    BY <2>1
  <2>3. n - x \in 0..n /\ n - (n - x) = x
    BY <2>2
  <2>4. n - x \in S
    BY <2>1, <2>3
  <2>5. S \subseteq 0..n /\ 0..n \subseteq Nat
    OBVIOUS
  <2> HIDE DEF S
  <2>6. QED
    BY <2>4, <2>5
<1>2. PICK k \in S : \A j \in S : k <= j
  BY <1>1, LeastNatural
<1>3. n - k \in T
  BY <1>2
<1>4. ASSUME NEW y \in T PROVE y <= n - k
  <2>1. n - y \in 0..n /\ n - (n - y) = y
    OBVIOUS
  <2>2. k <= n - y /\ k \in 0..n
    BY <1>2, <2>1
  <2>3. QED
    BY <2>2
<1>5. QED
  BY <1>3, <1>4

LEMMA SameBlock ==
    ASSUME NEW lines, Lined(lines), NEW cursor \in 1..Len(lines), lines[cursor].braces = <<>>,
           \A i \in 1..(cursor - 1) : Tidy(lines[i]),
           Enclosing(lines, cursor) \in BlockTypes
    PROVE  findBlockContext(lines, cursor) = Enclosing(lines, cursor)
<1> DEFINE A == Opening(lines, cursor)
           B == StillOpen(lines, cursor)
           a == CHOOSE k \in A : \A j \in A : j <= k
           b == CHOOSE i \in B : \A j \in B : j <= i
<1>1. cursor \in Nat /\ A \subseteq 1..cursor
  BY DEF Lined, Opening
<1>2. B \subseteq A /\ \A k \in A : (\A j \in A : j <= k) => k \in B
  BY LastIsTheSame
<1>3. Enclosing(lines, cursor) = IF B = {} THEN None ELSE lines[b].type
  BY DEF Enclosing, StillOpen
<1>4. B # {}
  BY <1>3, NoneAssumption
<1>5. findBlockContext(lines, cursor)
      = IF A = {} THEN None ELSE IF lines[a].type \in BlockTypes THEN lines[a].type ELSE None
  BY DEF findBlockContext, Opening
<1> HIDE DEF A, B
<1>6. A # {}
  BY <1>2, <1>4
<1>7. a \in A /\ \A j \in A : j <= a
  <2>1. \E k \in A : \A j \in A : j <= k
    BY <1>1, <1>6, GreatestNatural
  <2>2. QED
    BY <2>1
<1>8. a \in B /\ \A j \in B : j <= a
  BY <1>2, <1>7
<1>9. b \in B /\ \A j \in B : j <= b
  BY <1>8
<1>10. a = b
  <2> HIDE DEF a, b
  <2>1. a \in 1..cursor /\ b \in 1..cursor
    BY <1>1, <1>2, <1>7, <1>9
  <2>2. a <= b /\ b <= a
    BY <1>8, <1>9
  <2>3. QED
    BY <1>1, <2>1, <2>2
<1>11. QED
  BY <1>3, <1>4, <1>5, <1>6, <1>10

LEMMA MembersAreTaken ==
    ASSUME NEW block \in BlockTypes \ {"sidecar"}
    PROVE  Members(block) \ {"sidecar"} \subseteq Taken(block)
<1>1. block # None
  BY NoneAssumption
<1>2. CASE block \in {"deployment", "container", "init", "cronjob", "service"}
  BY <1>1, <1>2 DEF Members, blockSchemaMap, WorkloadMembers, ContainerMembers, OtherMembers, Taken, Takes
<1>3. CASE block \notin {"deployment", "container", "init", "cronjob", "service"}
  BY <1>1, <1>3 DEF Members, blockSchemaMap, WorkloadMembers, ContainerMembers, OtherMembers, BlockTypes
<1>4. QED
  BY <1>2, <1>3

-----------------------------------------------------------------------------
\* The line of a question is one of the document's.
WellAsked(a) == a.doc \in Doc /\ TextsOf(a.texts) /\ a.texts[a.doc] # None /\ a.line \in DOMAIN a.texts[a.doc].lines

Remembered == (asked # None => WellAsked(asked)) /\ (answer # None => WellAsked(answer.asked))

LEMMA AskRemembers ==
    ASSUME IInv, Remembered, Ask
    PROVE  Remembered'
<1>1. PICK d \in Editable :
        buffer[d] # None /\ \E at \in {c \in Cursor : c.line \in DOMAIN buffer[d].lines} :
            asked' = [doc |-> d, line |-> at.line, texts |-> buffer, disks |-> {disk}]
  BY DEF Ask
<1>2. PICK at \in {c \in Cursor : c.line \in DOMAIN buffer[d].lines} :
        asked' = [doc |-> d, line |-> at.line, texts |-> buffer, disks |-> {disk}]
  BY <1>1
<1>3. asked'.doc = d /\ asked'.line = at.line /\ asked'.texts = buffer /\ d \in Doc
  BY <1>2, LspAssumption
<1>4. WellAsked(asked')
  BY <1>1, <1>2, <1>3 DEF WellAsked, IInv, Typed
<1>5. answer' = None
  BY DEF Ask
<1>6. QED
  BY <1>4, <1>5 DEF Remembered, WellAsked, TextsOf

LEMMA NextRemembers ==
    ASSUME IInv, IInv', EditorTyped, RepliesTyped, Conversation, Remembered, [Next]_vars
    PROVE  Remembered'
<1>1. CASE Ask
  BY <1>1, AskRemembers
<1>2. ASSUME UNCHANGED answer, UNCHANGED asked \/ Meanwhile PROVE Remembered'
  <2>1. /\ asked = None <=> asked' = None
        /\ asked # None => asked'.doc = asked.doc /\ asked'.line = asked.line /\ asked'.texts = asked.texts
    BY <1>2, QuestionKept
  <2>2. asked' # None => WellAsked(asked')
    BY <2>1 DEF Remembered, WellAsked
  <2>3. QED
    BY <1>2, <2>2 DEF Remembered, WellAsked, TextsOf
<1>3. CASE Receive
  <2>1. CASE Head(toClient).what = "completion"
    <3>1. toClient # <<>> /\ answer' = [asked |-> asked, got |-> Head(toClient).answer] /\ asked' = None
      BY <1>3, <2>1 DEF Receive
    <3>2. asked # None
      BY <2>1, <3>1, AnsweredSooner DEF Conversation
    <3>3. answer'.asked = asked
      BY <3>1
    <3>4. WellAsked(answer'.asked)
      BY <3>2, <3>3 DEF Remembered
    <3>5. QED
      BY <3>1, <3>4 DEF Remembered, WellAsked, TextsOf
  <2>2. CASE Head(toClient).what # "completion"
    BY <1>2, <1>3, <2>2 DEF Receive
  <2>3. QED
    BY <2>1, <2>2
<1>4. CASE User /\ ~Ask
  BY <1>2, <1>4 DEF User, OpenDocument, Edit, Save, Close, WriteFile
<1>5. CASE Handle \/ UNCHANGED vars
  BY <1>2, <1>5 DEF Handle, vars
<1>6. QED
  BY <1>1, <1>3, <1>4, <1>5 DEF Next, User

LEMMA Remembers == Spec => []Remembered
<1>1. Init => Remembered
  BY DEF Init, Remembered
<1>2. IInv /\ IInv' /\ EditorTyped /\ RepliesTyped /\ Conversation /\ Remembered /\ [Next]_vars => Remembered'
  BY NextRemembers
<1>3. QED
  BY <1>1, <1>2, Types, Converses, PTL DEF Spec

\* In tidy texts, whatever their length and nesting, the blocks that are offered
\* are those that the parser takes where the cursor was in the text that the
\* editor had then.
THEOREM OffersFit == Spec => []OffersFitTheBlock
<1>1. ASSUME Conversation, Remembered, Answered("structure") PROVE OffersFitTheBlock
  <2> DEFINE a == answer.asked
             lines == a.texts[a.doc].lines
  <2>1. WellAsked(a) /\ answer.got.items = Members(findBlockContext(lines, a.line))
    BY <1>1 DEF Conversation, Remembered, Answered, Fits
  <2>2. a.texts[a.doc] \in Text[a.doc] /\ a.doc \in Doc
    BY <2>1 DEF WellAsked, TextsOf, Texts
  <2>3. Lined(lines) /\ a.line \in 1..Len(lines)
    BY <2>1, <2>2, LinesAreLined DEF WellAsked
  <2>4. ASSUME lines[a.line].braces = <<>>, \A i \in 1..(a.line - 1) : Tidy(lines[i]),
               Enclosing(lines, a.line) \in BlockTypes \ {"sidecar"}
        PROVE  answer.got.items \ {"sidecar"} \subseteq Taken(Enclosing(lines, a.line))
    BY <2>1, <2>3, <2>4, SameBlock, MembersAreTaken
  <2>5. QED
    BY <2>4 DEF OffersFitTheBlock
<1>2. ~Answered("structure") => OffersFitTheBlock
  BY DEF OffersFitTheBlock
<1>3. Conversation /\ Remembered => OffersFitTheBlock
  BY <1>1, <1>2
<1>4. QED
  BY <1>3, Converses, Remembers, PTL
-----------------------------------------------------------------------------
(***************************************************************************)
(* Diagnostics: the last that was said of a document is about the text     *)
(* that the server has.                                                    *)
(***************************************************************************)
Diagnoses(m, d) == m.what = "diagnostics" /\ m.doc = d

\* What the editor is going to show of d, with the replies r on their way and
\* with s shown now, is in the set E.
Latest(r, s, d, E) ==
    /\ \A i \in 1..Len(r) : Diagnoses(r[i], d) /\ (\A j \in (i + 1)..Len(r) : ~Diagnoses(r[j], d)) => r[i].errors \in E
    /\ (\A i \in 1..Len(r) : ~Diagnoses(r[i], d)) => s \in E

\* What may be said of a text, whatever is on disk.
OfText(t) == {e \in SUBSET ({"syntax", "import"} \cup t.uses) : "syntax" \in e <=> Broken(t)}

\* The handler of m publishes diagnostics of d.
Publishes(m, d) == Tells(m, d) /\ ~Closes(m, d)

Diagnosis(d) == diagnoseFile(d, store[d])

Diagnosed ==
    /\ \A d \in Doc : store[d] # None => Latest(toClient, shown[d], d, OfText(store[d]))
    /\ \A d \in fresh :
          store[d] # None /\ (\A i \in 1..Len(toServer) : ~Publishes(toServer[i], d)) =>
              Latest(toClient, shown[d], d, {Diagnosis(d)})

LEMMA SaidElsewhere ==
    ASSUME RepliesTyped, NEW m, NEW d, ~Diagnoses(m, d), NEW s, NEW E, Latest(toClient, s, d, E)
    PROVE  Latest(Append(toClient, m), s, d, E)
<1> DEFINE r == toClient
           p == Append(toClient, m)
<1>1. /\ Len(r) \in Nat /\ Len(p) = Len(r) + 1 /\ p[Len(r) + 1] = m
      /\ \A i \in 1..Len(r) : p[i] = r[i]
  BY Answers
<1> HIDE DEF p, r
<1>2. Latest(r, s, d, E)
  BY DEF r
<1>3. ASSUME NEW i \in 1..Len(p), Diagnoses(p[i], d), \A j \in (i + 1)..Len(p) : ~Diagnoses(p[j], d)
      PROVE  p[i].errors \in E
  <2>1. i \in 1..Len(r) /\ p[i] = r[i]
    BY <1>1, <1>3
  <2>2. \A j \in (i + 1)..Len(r) : ~Diagnoses(r[j], d)
    BY <1>1, <1>3, <2>1
  <2>3. QED
    BY <1>2, <1>3, <2>1, <2>2 DEF Latest
<1>4. (\A i \in 1..Len(p) : ~Diagnoses(p[i], d)) => s \in E
  <2>1. (\A i \in 1..Len(p) : ~Diagnoses(p[i], d)) => \A i \in 1..Len(r) : ~Diagnoses(r[i], d)
    BY <1>1
  <2>2. QED
    BY <1>2, <2>1 DEF Latest
<1>5. QED
  BY <1>3, <1>4 DEF Latest, p

LEMMA SaidLast ==
    ASSUME RepliesTyped, NEW m, NEW d, Diagnoses(m, d), NEW s, NEW E, m.errors \in E
    PROVE  Latest(Append(toClient, m), s, d, E)
<1> DEFINE r == toClient
           p == Append(toClient, m)
<1>1. /\ Len(r) \in Nat /\ Len(p) = Len(r) + 1 /\ p[Len(r) + 1] = m
      /\ \A i \in 1..Len(r) : p[i] = r[i]
  BY Answers
<1> HIDE DEF p, r
<1>2. Len(p) \in 1..Len(p) /\ p[Len(p)] = m
  BY <1>1
<1>3. ASSUME NEW i \in 1..Len(p), Diagnoses(p[i], d), \A j \in (i + 1)..Len(p) : ~Diagnoses(p[j], d)
      PROVE  p[i].errors \in E
  <2>1. i = Len(p)
    BY <1>1, <1>2, <1>3
  <2>2. QED
    BY <1>2, <2>1
<1>4. ~\A i \in 1..Len(p) : ~Diagnoses(p[i], d)
  BY <1>2
<1>5. QED
  BY <1>3, <1>4 DEF Latest, p

LEMMA SaidAndShown ==
    ASSUME RepliesTyped, toClient # <<>>, NEW d, NEW s, NEW E, Latest(toClient, s, d, E)
    PROVE  Latest(Tail(toClient), IF Diagnoses(Head(toClient), d) THEN Head(toClient).errors ELSE s, d, E)
<1> DEFINE r == toClient
           p == Tail(toClient)
           m == Head(toClient)
<1>1. /\ Len(r) \in Nat /\ Len(r) > 0 /\ Len(p) = Len(r) - 1 /\ m = r[1]
      /\ \A i \in 1..Len(p) : p[i] = r[i + 1]
  BY Answers
<1> HIDE DEF p, m, r
<1>2. Latest(r, s, d, E)
  BY DEF r
<1>3. \A i \in 2..Len(r) : i - 1 \in 1..Len(p) /\ p[i - 1] = r[i]
  BY <1>1
<1>4. ASSUME NEW i \in 1..Len(p), Diagnoses(p[i], d), \A j \in (i + 1)..Len(p) : ~Diagnoses(p[j], d)
      PROVE  p[i].errors \in E
  <2>1. i + 1 \in 1..Len(r) /\ p[i] = r[i + 1]
    BY <1>1
  <2>2. ASSUME NEW j \in ((i + 1) + 1)..Len(r) PROVE ~Diagnoses(r[j], d)
    <3>1. j - 1 \in (i + 1)..Len(p) /\ p[j - 1] = r[j]
      BY <1>1, <1>3
    <3>2. QED
      BY <1>4, <3>1
  <2>3. QED
    BY <1>2, <1>4, <2>1, <2>2 DEF Latest
<1>5. ASSUME \A i \in 1..Len(p) : ~Diagnoses(p[i], d)
      PROVE  (IF Diagnoses(m, d) THEN m.errors ELSE s) \in E
  <2>1. \A i \in 2..Len(r) : ~Diagnoses(r[i], d)
    BY <1>3, <1>5
  <2>2. CASE Diagnoses(m, d)
    <3>1. 1 \in 1..Len(r) /\ \A j \in (1 + 1)..Len(r) : ~Diagnoses(r[j], d)
      BY <1>1, <2>1
    <3>2. r[1].errors \in E
      BY <1>1, <1>2, <2>2, <3>1 DEF Latest
    <3>3. QED
      BY <1>1, <2>2, <3>2
  <2>3. CASE ~Diagnoses(m, d)
    <3>1. \A i \in 1..Len(r) : ~Diagnoses(r[i], d)
      BY <1>1, <2>1, <2>3
    <3>2. QED
      BY <1>2, <2>3, <3>1 DEF Latest
  <2>4. QED
    BY <2>2, <2>3
<1>6. QED
  BY <1>4, <1>5 DEF Latest, p, m

LEMMA DiagnosesItsText ==
    ASSUME NEW d \in Doc, NEW t \in Text[d]
    PROVE  diagnoseFile(d, t) \in OfText(t)
<1>1. {"syntax", "import"} \cap t.uses = {}
  BY TextAssumption
<1>2. CASE Broken(t)
  BY <1>2 DEF diagnoseFile, OfText
<1>3. CASE ~Broken(t)
  <2>1. diagnoseFile(d, t) \subseteq {"import"} \cup t.uses
    BY <1>3 DEF diagnoseFile
  <2>2. "syntax" \notin diagnoseFile(d, t)
    BY <1>1, <2>1
  <2>3. QED
    BY <1>3, <2>1, <2>2 DEF OfText
<1>4. QED
  BY <1>2, <1>3

\* The handler of m says of the text of m what it says of the store, and of no
\* other document.
LEMMA HandlerSays ==
    ASSUME IInv, Handle, NEW m, m = Head(toServer)
    PROVE  /\ Publishes(m, m.doc) =>
                  toClient' = Append(toClient, [what |-> "diagnostics", doc |-> m.doc,
                                                errors |-> diagnoseFile(m.doc, Says(m))])
           /\ ~Publishes(m, m.doc) =>
                  \/ UNCHANGED toClient
                  \/ \E r : r.what = "completion" /\ toClient' = Append(toClient, r)
<1>1. toServer # <<>> /\ m \in Message /\ m.doc \in Doc
  BY HeadTailProperties, MessageIsOK DEF Handle, IInv, Typed, TextsOf
<1>2. CASE m.what = "open" /\ didOpen(m)
  BY <1>1, <1>2 DEF didOpen, Publish, Publishes, Tells, Closes, Says
<1>3. CASE m.what = "change" /\ didChange(m)
  BY <1>1, <1>3 DEF didChange, Publish, Publishes, Tells, Closes, Says
<1>4. CASE m.what = "save" /\ didSave(m)
  BY <1>1, <1>4 DEF didSave, Publish, Publishes, Tells, Closes, Says
<1>5. CASE m.what = "close" /\ didClose(m)
  BY <1>1, <1>5 DEF didClose, Publishes, Tells, Closes
<1>6. CASE m.what = "complete" /\ complete(m)
  <2> DEFINE r == [what |-> "completion", answer |-> completion(m.doc, m.line, m.before)]
  <2>1. r.what = "completion" /\ toClient' = Append(toClient, r)
    BY <1>6 DEF complete
  <2>2. ~Publishes(m, m.doc)
    BY <1>6 DEF Publishes, Tells
  <2> HIDE DEF r
  <2>3. QED
    BY <2>1, <2>2
<1>7. QED
  BY <1>2, <1>3, <1>4, <1>5, <1>6 DEF Handle
\* The variables that have a value after a walk through the files, with what is
\* known of each: the places that count, those that declare x, and the last one.
Counted(known, files) == {i \in DOMAIN files : files[i].counts /\ \A k \in 1..i : Readable(known, files[k].file)}

DeclaredAt(known, files, i) == known[files[i].file].declares

Naming(known, files, x) == {i \in Counted(known, files) : x \in DOMAIN DeclaredAt(known, files, i)}

Valued(known, files) ==
    {x \in UNION {DOMAIN DeclaredAt(known, files, i) : i \in Counted(known, files)} :
        DeclaredAt(known, files, Max(Naming(known, files, x)))[x] = "default"}

\* What is said of a text depends on nothing but the text and the disk.
LEMMA DiagnosisKept ==
    ASSUME UNCHANGED disk
    PROVE  \A d, t : diagnoseFile(d, t)' = diagnoseFile(d, t)
<1>1. \A dir : IsRoot(dir)' = IsRoot(dir)
  BY DEF IsRoot
<1>2. \A dir : findRootDir(dir)' = findRootDir(dir)
  BY <1>1 DEF findRootDir, SelectInSeq
<1>3. \A dir : WalkedDirs(dir)' = WalkedDirs(dir)
  BY <1>2 DEF WalkedDirs
<1>4. \A dir : WalkedFiles(dir)' = WalkedFiles(dir)
  BY <1>3 DEF WalkedFiles
<1>5. ASSUME NEW dir PROVE ValuedVariables(dir)' = ValuedVariables(dir)
  <2>1. ValuedVariables(dir) = Valued(disk, WalkedFiles(dir))
    BY DEF ValuedVariables, Counted, DeclaredAt, Naming, Valued
  <2>2. ValuedVariables(dir)' = Valued(disk', WalkedFiles(dir)')
    BY DEF ValuedVariables, Counted, DeclaredAt, Naming, Valued
  <2>3. QED
    BY <1>4, <2>1, <2>2
<1>6. \A d, t : IsVariableFile(d, t)' = IsVariableFile(d, t)
  BY DEF IsVariableFile, Broken, Open, Braces
<1>7. \A t : Broken(t)' = Broken(t)
  BY DEF Broken, Open, Braces
<1>8. QED
  BY <1>5, <1>6, <1>7 DEF diagnoseFile
LEMMA SendDiagnoses ==
    ASSUME IInv, Diagnosed, UNCHANGED <<toClient, shown, store>>, NEW m, toServer' = Append(toServer, m),
           \/ \A e \in fresh' : Publishes(m, e)
           \/ UNCHANGED disk /\ \A e \in fresh' : e \in fresh \/ Publishes(m, e)
    PROVE  Diagnosed'
<1>1. /\ Len(toServer) \in Nat /\ Len(toServer') = Len(toServer) + 1 /\ toServer'[Len(toServer) + 1] = m
      /\ \A i \in 1..Len(toServer) : toServer'[i] = toServer[i]
  <2>1. toServer \in Seq(Message \cup {m}) /\ m \in Message \cup {m}
    BY SeqMonotonic DEF IInv, Typed, TextsOf
  <2>2. QED
    BY <2>1, AppendProperties, LenProperties
<1>2. ASSUME NEW e \in fresh', store'[e] # None, \A i \in 1..Len(toServer') : ~Publishes(toServer'[i], e)
      PROVE  Latest(toClient', shown'[e], e, {Diagnosis(e)'})
  <2>1. ~Publishes(m, e)
    BY <1>1, <1>2
  <2>2. UNCHANGED disk /\ e \in fresh
    BY <2>1
  <2>3. \A i \in 1..Len(toServer) : ~Publishes(toServer[i], e)
    BY <1>1, <1>2
  <2>4. Latest(toClient, shown[e], e, {Diagnosis(e)})
    BY <1>2, <2>2, <2>3 DEF Diagnosed
  <2>5. Diagnosis(e)' = Diagnosis(e)
    BY <2>2, DiagnosisKept DEF Diagnosis
  <2>6. QED
    BY <2>4, <2>5
<1>3. \A d \in Doc : store'[d] # None => Latest(toClient', shown'[d], d, OfText(store'[d]))
  BY DEF Diagnosed
<1>4. QED
  BY <1>2, <1>3 DEF Diagnosed, OfText, Broken, Open, Braces

LEMMA UserDiagnoses ==
    ASSUME IInv, Diagnosed, User
    PROVE  Diagnosed'
<1>1. UNCHANGED <<toClient, shown, store>>
  BY DEF User, OpenDocument, Edit, Save, Close, WriteFile, Ask
<1>2. CASE WriteFile
  <2>1. fresh' = {}
    BY <1>2 DEF WriteFile
  <2>2. \A d \in Doc : store'[d] # None => Latest(toClient', shown'[d], d, OfText(store'[d]))
    BY <1>1 DEF Diagnosed
  <2>3. QED
    BY <2>1, <2>2 DEF Diagnosed, OfText, Broken, Open, Braces
<1>3. CASE OpenDocument
  <2>1. PICK d \in Editable :
          /\ toServer' = Append(toServer, [what |-> "open", doc |-> d, text |-> disk[d]])
          /\ fresh' = fresh \cup {d}
    BY <1>3 DEF OpenDocument
  <2>2. UNCHANGED disk
    BY <1>3 DEF OpenDocument
  <2>3. Publishes([what |-> "open", doc |-> d, text |-> disk[d]], d)
    BY DEF Publishes, Tells, Closes
  <2>4. QED
    BY <1>1, <2>1, <2>2, <2>3, SendDiagnoses
<1>4. CASE Edit
  <2>1. \E d \in Editable : \E s :
          /\ toServer' = Append(toServer, [what |-> "change", doc |-> d, texts |-> s])
          /\ fresh' = fresh \cup {d}
    BY <1>4 DEF Edit
  <2>2. PICK d \in Editable : \E s :
          /\ toServer' = Append(toServer, [what |-> "change", doc |-> d, texts |-> s])
          /\ fresh' = fresh \cup {d}
    BY <2>1
  <2>3. PICK s :
          /\ toServer' = Append(toServer, [what |-> "change", doc |-> d, texts |-> s])
          /\ fresh' = fresh \cup {d}
    BY <2>2
  <2>4. UNCHANGED disk
    BY <1>4 DEF Edit
  <2>5. Publishes([what |-> "change", doc |-> d, texts |-> s], d)
    BY DEF Publishes, Tells, Closes
  <2>6. QED
    BY <1>1, <2>3, <2>4, <2>5, SendDiagnoses
<1>5. CASE Save
  <2>1. PICK d \in Editable, with \in BOOLEAN :
          /\ buffer[d] # None
          /\ toServer' = Append(toServer, [what |-> "save", doc |-> d, text |-> IF with THEN buffer[d] ELSE Absent])
          /\ fresh' = (IF disk' = disk THEN fresh ELSE {}) \cup (IF with THEN {d} ELSE {})
    BY <1>5 DEF Save
  <2> DEFINE m == [what |-> "save", doc |-> d, text |-> IF with THEN buffer[d] ELSE Absent]
  <2>2. buffer[d] # Absent
    BY <2>1, LspAssumption DEF IInv, Typed, TextsOf, Texts
  <2>3. with => Publishes(m, d)
    BY <2>2 DEF Publishes, Tells, Closes
  <2>4. toServer' = Append(toServer, m)
    BY <2>1
  <2> HIDE DEF m
  <2>5. \/ \A e \in fresh' : Publishes(m, e)
        \/ UNCHANGED disk /\ \A e \in fresh' : e \in fresh \/ Publishes(m, e)
    BY <2>1, <2>3
  <2>6. QED
    BY <1>1, <2>4, <2>5, SendDiagnoses
<1>6. CASE Close \/ Ask
  <2>1. UNCHANGED <<fresh, disk>> /\ \E m : toServer' = Append(toServer, m)
    BY <1>6 DEF Close, Ask
  <2>2. QED
    BY <1>1, <2>1, SendDiagnoses
<1>7. QED
  BY <1>2, <1>3, <1>4, <1>5, <1>6 DEF User

LEMMA ReceiveDiagnoses ==
    ASSUME EditorTyped, RepliesTyped, Diagnosed, Receive, fresh \subseteq Doc
    PROVE  Diagnosed'
<1> DEFINE m == Head(toClient)
<1>1. toClient # <<>> /\ toClient' = Tail(toClient) /\ UNCHANGED <<disk, toServer, store, fresh>>
  BY DEF Receive
<1>2. IsReply(m)
  BY <1>1, ReplyTaken
<1>3. ASSUME NEW d \in Doc
      PROVE  shown'[d] = IF Diagnoses(m, d) THEN m.errors ELSE shown[d]
  <2>1. CASE m.what = "diagnostics"
    BY <1>2, <2>1 DEF Receive, EditorTyped, Diagnoses
  <2>2. CASE m.what = "completion"
    BY <2>2 DEF Receive, Diagnoses
  <2>3. QED
    BY <1>2, <2>1, <2>2 DEF IsReply
<1> HIDE DEF m
<1>4. ASSUME NEW d \in Doc, NEW E, Latest(toClient, shown[d], d, E)
      PROVE  Latest(toClient', shown'[d], d, E)
  BY <1>1, <1>3, <1>4, SaidAndShown DEF m
<1>5. \A d : Diagnosis(d)' = Diagnosis(d)
  BY <1>1, DiagnosisKept DEF Diagnosis
<1>6. \A d \in Doc : store'[d] # None => Latest(toClient', shown'[d], d, OfText(store'[d]))
  BY <1>1, <1>4 DEF Diagnosed
<1>7. ASSUME NEW d \in fresh', store'[d] # None, \A i \in 1..Len(toServer') : ~Publishes(toServer'[i], d)
      PROVE  Latest(toClient', shown'[d], d, {Diagnosis(d)'})
  <2>1. Latest(toClient, shown[d], d, {Diagnosis(d)}) /\ d \in Doc
    BY <1>1, <1>7 DEF Diagnosed
  <2>2. QED
    BY <1>4, <1>5, <2>1
<1>8. QED
  BY <1>6, <1>7 DEF Diagnosed, OfText, Broken, Open, Braces

LEMMA HandleDiagnoses ==
    ASSUME IInv, RepliesTyped, Diagnosed, Handle, fresh \subseteq Doc
    PROVE  Diagnosed'
<1> DEFINE m == Head(toServer)
<1>1. /\ toServer # <<>> /\ toServer' = Tail(toServer) /\ UNCHANGED <<disk, shown, fresh>>
      /\ store' = [d \in Doc |-> After(m, store[d], d)]
      /\ toServer \in Seq(Message)
  BY HandleStores DEF Handle, IInv, Typed, TextsOf
<1>2. m \in Message /\ m.doc \in Doc
  BY <1>1, HeadTailProperties, MessageIsOK
<1>3. /\ Len(toServer) \in Nat /\ Len(toServer') = Len(toServer) - 1 /\ m = toServer[1]
      /\ \A i \in 1..Len(toServer') : toServer'[i] = toServer[i + 1]
  BY <1>1, HeadTailProperties, LenProperties
<1>4. /\ Publishes(m, m.doc) =>
             toClient' = Append(toClient, [what |-> "diagnostics", doc |-> m.doc,
                                           errors |-> diagnoseFile(m.doc, Says(m))])
      /\ ~Publishes(m, m.doc) =>
             \/ UNCHANGED toClient
             \/ \E r : r.what = "completion" /\ toClient' = Append(toClient, r)
  BY HandlerSays
<1> HIDE DEF m
<1>5. ASSUME NEW d \in Doc, Publishes(m, d), store'[d] # None, NEW E, diagnoseFile(d, store'[d]) \in E
      PROVE  Latest(toClient', shown'[d], d, E)
  <2>1. m.doc = d /\ store'[d] = Says(m)
    BY <1>1, <1>5 DEF Publishes, Tells, After
  <2> DEFINE r == [what |-> "diagnostics", doc |-> d, errors |-> diagnoseFile(d, Says(m))]
  <2>2. toClient' = Append(toClient, r)
    BY <1>4, <1>5, <2>1
  <2>3. Diagnoses(r, d) /\ r.errors \in E
    BY <1>5, <2>1 DEF Diagnoses
  <2> HIDE DEF r
  <2>4. QED
    BY <1>1, <2>2, <2>3, SaidLast
<1>6. ASSUME NEW d \in Doc, ~Publishes(m, d), store'[d] # None
      PROVE  store'[d] = store[d] /\ \A E : Latest(toClient, shown[d], d, E) => Latest(toClient', shown'[d], d, E)
  <2>1. store'[d] = store[d]
    BY <1>1, <1>6 DEF Publishes, Tells, Closes, After, Says
  <2>2. UNCHANGED toClient \/ \E r : ~Diagnoses(r, d) /\ toClient' = Append(toClient, r)
    <3>1. CASE Publishes(m, m.doc)
      <4> DEFINE r == [what |-> "diagnostics", doc |-> m.doc, errors |-> diagnoseFile(m.doc, Says(m))]
      <4>1. toClient' = Append(toClient, r) /\ r.doc = m.doc /\ m.doc # d
        BY <1>4, <1>6, <3>1
      <4> HIDE DEF r
      <4>2. ~Diagnoses(r, d)
        BY <4>1 DEF Diagnoses
      <4>3. QED
        BY <4>1, <4>2
    <3>2. CASE ~Publishes(m, m.doc)
      BY <1>4, <3>2 DEF Diagnoses
    <3>3. QED
      BY <3>1, <3>2
  <2>3. QED
    BY <1>1, <2>1, <2>2, SaidElsewhere
<1>7. ASSUME NEW d \in Doc, store'[d] # None
      PROVE  Latest(toClient', shown'[d], d, OfText(store'[d]))
  <2>1. CASE Publishes(m, d)
    <3>1. store'[d] = Says(m) /\ Says(m) \in Text[d]
      BY <1>1, <1>2, <1>7, <2>1, SaysText DEF Publishes, Tells, After
    <3>2. diagnoseFile(d, store'[d]) \in OfText(store'[d])
      BY <3>1, DiagnosesItsText
    <3>3. QED
      BY <1>5, <1>7, <2>1, <3>2
  <2>2. CASE ~Publishes(m, d)
    BY <1>6, <1>7, <2>2 DEF Diagnosed
  <2>3. QED
    BY <2>1, <2>2
<1>8. ASSUME NEW d \in fresh', store'[d] # None, \A i \in 1..Len(toServer') : ~Publishes(toServer'[i], d)
      PROVE  Latest(toClient', shown'[d], d, {Diagnosis(d)'})
  <2>1. d \in Doc /\ d \in fresh
    BY <1>1
  <2>2. Diagnosis(d)' = diagnoseFile(d, store'[d])
    <3>1. \A t : diagnoseFile(d, t)' = diagnoseFile(d, t)
      BY <1>1, DiagnosisKept
    <3>2. QED
      BY <3>1 DEF Diagnosis
  <2>3. CASE Publishes(m, d)
    BY <1>5, <1>8, <2>1, <2>2, <2>3
  <2>4. CASE ~Publishes(m, d)
    <3>1. \A i \in 1..Len(toServer) : ~Publishes(toServer[i], d)
      <4> TAKE i \in 1..Len(toServer)
      <4>1. CASE i = 1
        BY <1>3, <2>4, <4>1
      <4>2. CASE i # 1
        <5>1. i - 1 \in 1..Len(toServer') /\ toServer'[i - 1] = toServer[i]
          BY <1>3, <4>2
        <5>2. QED
          BY <1>8, <5>1
      <4>3. QED
        BY <4>1, <4>2
    <3>2. store'[d] = store[d]
      BY <1>6, <1>8, <2>1, <2>4
    <3>3. Latest(toClient, shown[d], d, {Diagnosis(d)})
      BY <1>8, <2>1, <3>1, <3>2 DEF Diagnosed
    <3>4. Diagnosis(d)' = Diagnosis(d)
      BY <2>2, <3>2 DEF Diagnosis
    <3>5. QED
      BY <1>6, <1>8, <2>1, <2>4, <3>3, <3>4
  <2>5. QED
    BY <2>3, <2>4
<1>9. QED
  BY <1>7, <1>8 DEF Diagnosed, OfText, Broken, Open, Braces
-----------------------------------------------------------------------------
(***************************************************************************)
(* The walk up to the root, and what it finds declared.                    *)
(***************************************************************************)
LEMMA WalkGoesUp ==
    ASSUME NEW dir \in Dir
    PROVE  WalkedDirs(dir) \in Seq(Dir) /\ ToSet(WalkedDirs(dir)) = DirsAbove(dir)
<1> DEFINE A == Ancestors[dir]
           n == Len(A)
           R == {i \in 1..n : IsRoot(A[i])}
           r == findRootDir(dir)
<1>1. A \in Seq(Dir) /\ n \in Nat /\ n >= 1 /\ DOMAIN A = 1..n /\ A[1] = dir /\ \A i \in 1..n : A[i] \in Dir
  BY TreeAssumption, EmptySeq, LenProperties, ElementOfSeq
<1>2. r = IF R = {} THEN 0 ELSE Min(R)
  BY <1>1 DEF findRootDir, SelectInSeq
<1>3. R # {} => Min(R) \in R /\ \A i \in R : Min(R) <= i
  <2>1. R \subseteq Nat
    BY <1>1
  <2> HIDE DEF R
  <2>2. QED
    BY <2>1, MinIsLeast
<1>4. DirsAbove(dir)
      = {A[k] : k \in {i \in 1..n : i = 1 \/ ((\E j \in i..n : IsRoot(A[j])) /\ \A j \in 1..(i - 1) : ~IsRoot(A[j]))}}
  BY <1>1 DEF DirsAbove
<1>5. CASE R = {}
  <2>1. WalkedDirs(dir) = <<dir>>
    BY <1>2, <1>5 DEF WalkedDirs
  <2>2. \A j \in 1..n : ~IsRoot(A[j])
    BY <1>5
  <2>3. \A i \in 1..n : \A j \in i..n : j \in 1..n
    BY <1>1
  <2> HIDE DEF A, n, R, r
  <2>4. {i \in 1..n : i = 1 \/ ((\E j \in i..n : IsRoot(A[j])) /\ \A j \in 1..(i - 1) : ~IsRoot(A[j]))} = {1}
    BY <1>1, <2>2, <2>3
  <2>5. DirsAbove(dir) = {dir}
    BY <1>1, <1>4, <2>4
  <2>6. <<dir>> \in Seq(Dir) /\ DOMAIN <<dir>> = {1} /\ <<dir>>[1] = dir
    OBVIOUS
  <2>7. QED
    BY <2>1, <2>5, <2>6 DEF ToSet
<1>6. CASE R # {}
  <2>1. r \in 1..n /\ IsRoot(A[r]) /\ \A i \in 1..n : IsRoot(A[i]) => r <= i
    BY <1>2, <1>3, <1>6
  <2> DEFINE u == SubSeq(A, 1, r)
  <2>2. WalkedDirs(dir) = Reverse(u)
    BY <2>1 DEF WalkedDirs
  <2> HIDE DEF R, r
  <2>3. /\ u \in Seq(Dir) /\ Len(u) = r /\ \A i \in 1..r : u[i] = A[i]
    BY <1>1, <2>1, SubSeqProperties
  <2> HIDE DEF A, n, u
  <2>4. /\ Reverse(u) = [i \in 1..r |-> u[(r - i) + 1]]
    BY <2>3 DEF Reverse
  <2>5. \A i \in 1..r : (r - i) + 1 \in 1..r /\ (r - ((r - i) + 1)) + 1 = i
    BY <1>1, <2>1
  <2>6. \A i \in 1..r : Reverse(u)[i] = A[(r - i) + 1] /\ A[(r - i) + 1] \in Dir
    BY <1>1, <2>1, <2>3, <2>4, <2>5
  <2>7. Reverse(u) \in Seq(Dir) /\ DOMAIN Reverse(u) = 1..r
    BY <1>1, <2>1, <2>4, <2>6
  <2>8. ToSet(Reverse(u)) = {A[k] : k \in 1..r}
    BY <2>5, <2>6, <2>7 DEF ToSet
  <2>9. {i \in 1..n : i = 1 \/ ((\E j \in i..n : IsRoot(A[j])) /\ \A j \in 1..(i - 1) : ~IsRoot(A[j]))} = 1..r
    <3>1. ASSUME NEW i \in 1..n, i <= r, i # 1
          PROVE  (\E j \in i..n : IsRoot(A[j])) /\ \A j \in 1..(i - 1) : ~IsRoot(A[j])
      <4>1. r \in i..n
        BY <1>1, <2>1, <3>1
      <4>2. \A j \in 1..(i - 1) : j \in 1..n /\ ~(r <= j)
        BY <1>1, <2>1, <3>1
      <4>3. QED
        BY <2>1, <4>1, <4>2
    <3>2. ASSUME NEW i \in 1..n, ~(i <= r)
          PROVE  i # 1 /\ ~\A j \in 1..(i - 1) : ~IsRoot(A[j])
      <4>1. r \in 1..(i - 1) /\ i # 1
        BY <1>1, <2>1, <3>2
      <4>2. QED
        BY <2>1, <4>1
    <3>3. \A i \in 1..n :
              (i = 1 \/ ((\E j \in i..n : IsRoot(A[j])) /\ \A j \in 1..(i - 1) : ~IsRoot(A[j]))) <=> i <= r
      BY <1>1, <2>1, <3>1, <3>2
    <3>4. 1..r = {i \in 1..n : i <= r}
      BY <1>1, <2>1
    <3>5. QED
      BY <3>3, <3>4
  <2>10. QED
    BY <1>4, <2>2, <2>7, <2>8, <2>9
<1>7. QED
  BY <1>5, <1>6

\* What the walk does with one directory.
Found(f) ==
    IF disk[f] = None THEN <<>>
    ELSE <<[file |-> f, counts |-> FALSE]>>
         \o [k \in DOMAIN disk[f].imports |-> [file |-> disk[f].imports[k], counts |-> TRUE]]
         \o <<[file |-> f, counts |-> TRUE]>>

Place == [file : Doc, counts : BOOLEAN]

LEMMA OfOne ==
    ASSUME NEW S, NEW x \in S
    PROVE  <<x>> \in Seq(S) /\ ToSet(<<x>>) = {x}
<1>1. <<x>> \in Seq(S) /\ DOMAIN <<x>> = {1} /\ <<x>>[1] = x
  OBVIOUS
<1>2. QED
  BY <1>1 DEF ToSet

LEMMA FoundThere ==
    ASSUME Typed, NEW f \in Doc
    PROVE  /\ Found(f) \in Seq(Place)
           /\ ToSet(Found(f))
              = IF disk[f] = None THEN {}
                ELSE {[file |-> f, counts |-> FALSE], [file |-> f, counts |-> TRUE]}
                     \cup {[file |-> g, counts |-> TRUE] : g \in ToSet(disk[f].imports)}
<1>1. CASE disk[f] = None
  <2>1. Found(f) = <<>>
    BY <1>1 DEF Found
  <2>2. <<>> \in Seq(Place) /\ DOMAIN <<>> = {}
    BY EmptySeq
  <2>3. QED
    BY <1>1, <2>1, <2>2 DEF ToSet
<1>2. CASE disk[f] # None
  <2> DEFINE s == disk[f].imports
             a == <<[file |-> f, counts |-> FALSE]>>
             b == [k \in DOMAIN s |-> [file |-> s[k], counts |-> TRUE]]
             c == <<[file |-> f, counts |-> TRUE]>>
  <2>1. s \in Seq(Doc) /\ Len(s) \in Nat /\ DOMAIN s = 1..Len(s) /\ \A k \in 1..Len(s) : s[k] \in Doc
    BY <1>2, TextAssumption, LenProperties, ElementOfSeq DEF Typed, TextsOf, Texts
  <2> HIDE DEF s
  <2>2. a \in Seq(Place) /\ ToSet(a) = {[file |-> f, counts |-> FALSE]}
    <3>1. [file |-> f, counts |-> FALSE] \in Place
      BY DEF Place
    <3>2. QED
      BY <3>1, OfOne
  <2>3. c \in Seq(Place) /\ ToSet(c) = {[file |-> f, counts |-> TRUE]}
    <3>1. [file |-> f, counts |-> TRUE] \in Place
      BY DEF Place
    <3>2. QED
      BY <3>1, OfOne
  <2>4. b \in Seq(Place) /\ ToSet(b) = {[file |-> g, counts |-> TRUE] : g \in ToSet(s)}
    <3>1. \A k \in 1..Len(s) : [file |-> s[k], counts |-> TRUE] \in Place
      BY <2>1 DEF Place
    <3>2. b \in [1..Len(s) -> Place]
      BY <2>1, <3>1
    <3>3. b \in Seq(Place)
      BY <2>1, <3>2
    <3>4. QED
      BY <2>1, <3>3 DEF ToSet
  <2>5. Found(f) = a \o b \o c
    BY <1>2 DEF Found, s
  <2> HIDE DEF a, b, c
  <2>6. (a \o b) \in Seq(Place) /\ ToSet(a \o b) = ToSet(a) \cup ToSet(b)
    BY <2>2, <2>4, ConcatToSet
  <2>7. (a \o b) \o c \in Seq(Place) /\ ToSet((a \o b) \o c) = ToSet(a \o b) \cup ToSet(c)
    <3> DEFINE ab == a \o b
    <3>1. ab \in Seq(Place)
      BY <2>6
    <3> HIDE DEF ab
    <3>2. ab \o c \in Seq(Place) /\ ToSet(ab \o c) = ToSet(ab) \cup ToSet(c)
      BY <2>3, <3>1, ConcatToSet
    <3>3. QED
      BY <3>2 DEF ab
  <2>8. QED
    BY <1>2, <2>2, <2>3, <2>4, <2>5, <2>6, <2>7 DEF s
<1>3. QED
  BY <1>1, <1>2

\* The definition files that count for a directory, and all that they import.
OwnFiles(dir) == {f \in {VarsFile[a] : a \in DirsAbove(dir)} : disk[f] # None}

AllFiles(dir) == OwnFiles(dir) \cup UNION {ToSet(disk[f].imports) : f \in OwnFiles(dir)}

LEMMA WalkFinds ==
    ASSUME Typed, NEW dir \in Dir
    PROVE  LET files == WalkedFiles(dir)
           IN  /\ Len(files) \in Nat /\ DOMAIN files = 1..Len(files)
               /\ \A i \in DOMAIN files : files[i].file \in AllFiles(dir)
               /\ \A f \in AllFiles(dir) : \E i \in DOMAIN files : files[i].file = f /\ files[i].counts
<1> DEFINE w == WalkedDirs(dir)
           s == [i \in DOMAIN w |-> Found(VarsFile[w[i]])]
           files == WalkedFiles(dir)
<1>1. /\ w \in Seq(Dir) /\ Len(w) \in Nat /\ DOMAIN w = 1..Len(w) /\ \A i \in 1..Len(w) : w[i] \in Dir
      /\ {w[i] : i \in DOMAIN w} = DirsAbove(dir)
  BY WalkGoesUp, LenProperties, ElementOfSeq DEF ToSet
<1>2. files = FlattenSeq(s)
  BY DEF WalkedFiles, Found
<1> HIDE DEF w, files
<1>3. \A i \in 1..Len(w) : VarsFile[w[i]] \in Doc
  BY <1>1, TreeAssumption
<1>4. \A i \in 1..Len(w) : Found(VarsFile[w[i]]) \in Seq(Place)
  BY <1>3, FoundThere
<1>5. s \in Seq(Seq(Place)) /\ DOMAIN s = 1..Len(w) /\ \A i \in 1..Len(w) : s[i] = Found(VarsFile[w[i]])
  <2>1. s \in [1..Len(w) -> Seq(Place)]
    BY <1>1, <1>4
  <2>2. QED
    BY <1>1, <2>1
<1> HIDE DEF s
<1>6. files \in Seq(Place) /\ ToSet(files) = UNION {ToSet(s[i]) : i \in 1..Len(w)}
  BY <1>2, <1>5, FlattenSeqCollects
<1>7. Len(files) \in Nat /\ DOMAIN files = 1..Len(files)
  BY <1>6, LenProperties
<1>8. OwnFiles(dir) = {f \in {VarsFile[w[i]] : i \in 1..Len(w)} : disk[f] # None}
  BY <1>1 DEF OwnFiles
<1>9. ASSUME NEW i \in DOMAIN files PROVE files[i].file \in AllFiles(dir)
  <2>1. files[i] \in ToSet(files)
    BY <1>9 DEF ToSet
  <2>2. PICK k \in 1..Len(w) : files[i] \in ToSet(Found(VarsFile[w[k]]))
    BY <1>5, <1>6, <2>1
  <2> DEFINE f == VarsFile[w[k]]
  <2>3. f \in Doc
    BY <1>3
  <2>4. disk[f] # None /\ (files[i].file = f \/ files[i].file \in ToSet(disk[f].imports))
    BY <2>2, <2>3, FoundThere
  <2>5. f \in OwnFiles(dir)
    BY <1>8, <2>4
  <2>6. QED
    BY <2>4, <2>5 DEF AllFiles
<1>10. ASSUME NEW g \in AllFiles(dir) PROVE \E i \in DOMAIN files : files[i].file = g /\ files[i].counts
  <2>1. PICK f \in OwnFiles(dir) : g = f \/ g \in ToSet(disk[f].imports)
    BY DEF AllFiles
  <2>2. PICK k \in 1..Len(w) : f = VarsFile[w[k]]
    BY <1>8
  <2>3. f \in Doc /\ disk[f] # None
    BY <1>3, <1>8, <2>2
  <2>4. [file |-> g, counts |-> TRUE] \in ToSet(Found(f))
    BY <2>1, <2>3, FoundThere
  <2>5. [file |-> g, counts |-> TRUE] \in ToSet(files)
    BY <1>5, <1>6, <2>2, <2>4
  <2>6. PICK i \in DOMAIN files : files[i] = [file |-> g, counts |-> TRUE]
    BY <2>5 DEF ToSet
  <2>7. QED
    BY <2>6
<1>11. QED
  BY <1>7, <1>9, <1>10 DEF files
\* When all can be read, a variable that nothing declares has no value, and one
\* that is declared with a default wherever it is declared has one.
LEMMA ValuedOrNot ==
    ASSUME Typed, NEW dir \in Dir, ReadableAbove(dir), NEW x
    PROVE  /\ Declarations(dir, x) = {} => x \notin ValuedVariables(dir)
           /\ Declarations(dir, x) = {"default"} => x \in ValuedVariables(dir)
<1> DEFINE files == WalkedFiles(dir)
           n == Len(files)
           naming == Naming(disk, files, x)
<1>1. /\ n \in Nat /\ DOMAIN files = 1..n
      /\ \A i \in 1..n : files[i].file \in AllFiles(dir)
      /\ \A f \in AllFiles(dir) : \E i \in 1..n : files[i].file = f /\ files[i].counts
  BY WalkFinds
<1>2. \A i \in 1..n : Readable(disk, files[i].file)
  BY <1>1 DEF ReadableAbove
<1>3. ValuedVariables(dir) = Valued(disk, files)
  BY DEF ValuedVariables, Counted, DeclaredAt, Naming, Valued
<1>4. Declarations(dir, x) = {disk[f].declares[x] : f \in {g \in AllFiles(dir) : x \in DOMAIN disk[g].declares}}
  BY DEF Declarations, AllFiles, OwnFiles
<1> HIDE DEF files
<1>5. Counted(disk, files) = {i \in 1..n : files[i].counts}
  <2>1. \A i \in 1..n : \A k \in 1..i : k \in 1..n
    BY <1>1
  <2>2. QED
    BY <1>1, <1>2, <2>1 DEF Counted
<1>6. naming = {i \in 1..n : files[i].counts /\ x \in DOMAIN disk[files[i].file].declares}
  BY <1>5 DEF Naming, DeclaredAt
<1>7. x \in Valued(disk, files) <=> naming # {} /\ DeclaredAt(disk, files, Max(naming))[x] = "default"
  <2>1. naming # {} <=> x \in UNION {DOMAIN DeclaredAt(disk, files, i) : i \in Counted(disk, files)}
    BY DEF Naming
  <2>2. QED
    BY <2>1 DEF Valued
<1> HIDE DEF n, naming
<1>8. ASSUME Declarations(dir, x) = {} PROVE naming = {}
  <2>1. \A g \in AllFiles(dir) : x \notin DOMAIN disk[g].declares
    BY <1>4, <1>8
  <2>2. QED
    BY <1>1, <1>6, <2>1
<1>9. ASSUME Declarations(dir, x) = {"default"}
      PROVE  naming # {} /\ DeclaredAt(disk, files, Max(naming))[x] = "default"
  <2>1. PICK f \in AllFiles(dir) : x \in DOMAIN disk[f].declares
    BY <1>4, <1>9
  <2>2. naming # {}
    BY <1>1, <1>6, <2>1
  <2>3. Max(naming) \in naming
    <3>1. naming \subseteq 1..n
      BY <1>6
    <3>2. PICK i \in naming : \A j \in naming : j <= i
      BY <1>1, <2>2, <3>1, GreatestNatural
    <3>3. \A j \in naming : i >= j
      BY <1>1, <3>1, <3>2
    <3>4. QED
      BY <3>3 DEF Max
  <2>4. files[Max(naming)].file \in AllFiles(dir) /\ x \in DOMAIN disk[files[Max(naming)].file].declares
    BY <1>1, <1>6, <2>3
  <2>5. disk[files[Max(naming)].file].declares[x] \in Declarations(dir, x)
    BY <1>4, <2>4
  <2>6. QED
    BY <1>9, <2>2, <2>5 DEF DeclaredAt
<1>10. QED
  BY <1>3, <1>7, <1>8, <1>9

LEMMA Diagnosing == Spec => []Diagnosed
<1>1. Init => Diagnosed
  BY DEF Init, Diagnosed
<1>2. IInv /\ EditorTyped /\ RepliesTyped /\ Diagnosed /\ [Next]_vars => Diagnosed'
  <2> SUFFICES ASSUME IInv, EditorTyped, RepliesTyped, Diagnosed, [Next]_vars PROVE Diagnosed'
    OBVIOUS
  <2>1. fresh \subseteq Doc
    BY LspAssumption DEF EditorTyped
  <2>2. CASE UNCHANGED vars
    <3>1. UNCHANGED <<toServer, toClient, shown, store, fresh, disk>>
      BY <2>2 DEF vars
    <3>2. \A d : Diagnosis(d)' = Diagnosis(d)
      BY <3>1, DiagnosisKept DEF Diagnosis
    <3>3. \A d \in Doc : store'[d] # None => Latest(toClient', shown'[d], d, OfText(store'[d]))
      BY <3>1 DEF Diagnosed
    <3>4. ASSUME NEW d \in fresh', store'[d] # None, \A i \in 1..Len(toServer') : ~Publishes(toServer'[i], d)
          PROVE  Latest(toClient', shown'[d], d, {Diagnosis(d)'})
      BY <3>1, <3>2, <3>4 DEF Diagnosed
    <3>5. QED
      BY <3>3, <3>4 DEF Diagnosed, OfText, Broken, Open, Braces
  <2>3. QED
    BY <2>1, <2>2, UserDiagnoses, ReceiveDiagnoses, HandleDiagnoses DEF Next
<1>3. QED
  BY <1>1, <1>2, Types, PTL DEF Spec

LEMMA ShownAtRest ==
    ASSUME IInv, EditorTyped, Diagnosed, toServer = <<>>, toClient = <<>>, NEW d \in Doc, buffer[d] # None
    PROVE  /\ shown[d] \in OfText(buffer[d])
           /\ d \in fresh => shown[d] = diagnoseFile(d, buffer[d])
<1>1. Len(toServer) = 0 /\ Len(toClient) = 0
  OBVIOUS
<1>2. store[d] = buffer[d]
  BY <1>1 DEF IInv, Follows
<1>3. Latest(toClient, shown[d], d, OfText(store[d]))
  BY <1>2 DEF Diagnosed
<1>4. d \in fresh => Latest(toClient, shown[d], d, {Diagnosis(d)})
  BY <1>1, <1>2, SMTT(30) DEF Diagnosed
<1>5. \A E : Latest(toClient, shown[d], d, E) => shown[d] \in E
  BY <1>1 DEF Latest
<1>6. QED
  BY <1>2, <1>3, <1>4, <1>5 DEF Diagnosis

\* What the editor shows when all has arrived is about the text that it shows,
\* for any tree of directories, any imports, and whatever happened on the way.
THEOREM DiagnosticsFollow == Spec => []ShownIsOfTheText
<1>1. ASSUME IInv, EditorTyped, Diagnosed, toServer = <<>>, toClient = <<>>, NEW d \in Doc, buffer[d] # None
      PROVE  /\ "syntax" \in shown[d] <=> Broken(buffer[d])
             /\ shown[d] \subseteq {"syntax", "import"} \cup buffer[d].uses
             /\ /\ d \in fresh /\ ~Broken(buffer[d]) /\ ReadableAbove(DirOf[d])
                /\ ~IsVariableFile(d, buffer[d]) /\ \A dir \in Dir : d # RootFile[dir]
                => \A x \in buffer[d].uses :
                      /\ Declarations(DirOf[d], x) = {} => x \in shown[d]
                      /\ Declarations(DirOf[d], x) = {"default"} => x \notin shown[d]
  <2>1. shown[d] \in OfText(buffer[d])
    BY <1>1, ShownAtRest
  <2>2. ASSUME d \in fresh, ~Broken(buffer[d]), ReadableAbove(DirOf[d]), ~IsVariableFile(d, buffer[d]),
               \A dir \in Dir : d # RootFile[dir], NEW x \in buffer[d].uses
        PROVE  /\ Declarations(DirOf[d], x) = {} => x \in shown[d]
               /\ Declarations(DirOf[d], x) = {"default"} => x \notin shown[d]
    <3>1. shown[d] = diagnoseFile(d, buffer[d])
      BY <1>1, <2>2, ShownAtRest
    <3>2. shown[d] = (buffer[d].uses \ ValuedVariables(DirOf[d]))
                     \cup (IF buffer[d].imports = <<>> THEN {} ELSE {"import"})
      BY <2>2, <3>1 DEF diagnoseFile
    <3>3. x # "import"
      BY <1>1, TextAssumption DEF IInv, Typed, TextsOf, Texts
    <3>4. x \in shown[d] <=> x \notin ValuedVariables(DirOf[d])
      BY <3>2, <3>3
    <3>5. /\ Declarations(DirOf[d], x) = {} => x \notin ValuedVariables(DirOf[d])
          /\ Declarations(DirOf[d], x) = {"default"} => x \in ValuedVariables(DirOf[d])
      <4>1. Typed /\ DirOf[d] \in Dir
        BY <1>1, TreeAssumption DEF IInv
      <4>2. QED
        BY <2>2, <4>1, ValuedOrNot
    <3>6. QED
      BY <3>4, <3>5
  <2>3. QED
    BY <2>1, <2>2 DEF OfText
<1>2. IInv /\ EditorTyped /\ Diagnosed => ShownIsOfTheText
  BY <1>1 DEF ShownIsOfTheText
<1>3. IInv /\ EditorTyped /\ RepliesTyped => IInv /\ EditorTyped
  OBVIOUS
<1>4. QED
  BY <1>2, <1>3, Types, Diagnosing, PTL
=============================================================================
