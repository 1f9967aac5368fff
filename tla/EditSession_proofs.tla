------------------------- MODULE EditSession_proofs -------------------------
(***************************************************************************)
(* The edit session, for every file it may open on, every key, value,      *)
(* label, chord, option and layer name, and every length of session.  keyd *)
(* reads from the document what was asked for (EditsTakeEffect) and        *)
(* nothing that was not (NothingElseChanges); a chord edit replaces the    *)
(* chord, whatever order its keys were written in, and leaves the other    *)
(* chords as they were (ChordEditReplaces); and the preview tells the      *)
(* bindings keyd reads (PreviewTellsKeyd).                                 *)
(*                                                                         *)
(* keyd takes the last line of a key over all the sections that feed a     *)
(* board.  So each operation is shown to write the line that ends that     *)
(* list, in whichever section it had to look for it, and every line of the *)
(* file that is not of the key is shown to stay, in its order.  That takes *)
(* what a session keeps of its document (SessionSound, SessionWhole): its  *)
(* lines are entries, those before the first header too, and its sections  *)
(* have the kind their name gives them.                                    *)
(*                                                                         *)
(* For the preview, every [main] line is shown to land in the list of the  *)
(* Config its kind gives it and a layer's line in the layer's, and each    *)
(* way a cap is drawn to leave the binding on it, under a label too.       *)
(*                                                                         *)
(* Last, the forms of the panel (FormsShowTheKey): two of its callbacks    *)
(* show the value they were given, so that it has to be the one the editor *)
(* reads back.                                                             *)
(***************************************************************************)
EXTENDS EditPanel_proofs

-----------------------------------------------------------------------------
(* The last line of a kind: in a list, and in the sections of a board.     *)

\* t is the last of a.
Final(a, t) == a # <<>> /\ a[Len(a)] = t

\* What is selected from a list ends with the last line that is in the selection.
LEMMA LastAt ==
  ASSUME NEW L, NEW S, NEW s \in Seq(L), NEW i \in 1 .. Len(s), s[i] \in S,
         \A j \in 1 .. Len(s) : j > i => s[j] \notin S
  PROVE  Final(Among(s, S), s[i])
<1> DEFINE a == Among(s, S)
<1>1. LastIs(s, S, a)
  BY LastAmong
<1> HIDE DEF a
<1>2. PICK k \in 1 .. Len(s) : /\ s[k] \in S /\ \A j \in 1 .. Len(s) : j > k => s[j] \notin S
                               /\ a # <<>> /\ a[Len(a)] = s[k]
  BY <1>1 DEF LastIs
<1>3. Len(s) \in Nat /\ ~(k > i) /\ ~(i > k)
  BY <1>2
<1>4. k = i
  BY <1>3
<1> QED BY <1>2, <1>4 DEF Final, a

\* The last of two lists put together.
LEMMA ConcatLast ==
  ASSUME NEW L, NEW x \in Seq(L), NEW y \in Seq(L), NEW t
  PROVE  /\ Final(y, t) => Final(x \o y, t)
         /\ Final(x, t) /\ y = <<>> => Final(x \o y, t)
         /\ x = <<>> /\ y = <<>> => x \o y = <<>>
<1>1. ASSUME Final(y, t) PROVE Final(x \o y, t)
  <2>1. Len(x) \in Nat /\ Len(y) \in Nat /\ Len(y) > 0 /\ Len(x \o y) = Len(x) + Len(y)
        /\ (x \o y)[Len(x) + Len(y)] = y[Len(y)]
    BY <1>1 DEF Final
  <2>2. x \o y # <<>>
    BY <2>1
  <2> QED BY <1>1, <2>1, <2>2 DEF Final
<1>2. ASSUME Final(x, t), y = <<>> PROVE Final(x \o y, t)
  <2>1. x \o y = x
    BY <1>2
  <2> QED BY <1>2, <2>1
<1>3. ASSUME x = <<>>, y = <<>> PROVE x \o y = <<>>
  BY <1>3
<1> QED BY <1>1, <1>2, <1>3

\* A selection from two lists put together, of two selections.
LEMMA AmongJoin ==
  ASSUME NEW L, NEW C
  PROVE  \A x \in Seq(L), y \in Seq(L) : Among(x \o y, C) = Among(x, C) \o Among(y, C)
<1> SUFFICES ASSUME NEW x \in Seq(L), NEW y \in Seq(L)
             PROVE  Among(x \o y, C) = Among(x, C) \o Among(y, C)
  OBVIOUS
<1> QED BY AmongConcat

\* Of lists put one after the other, the last that has such an element.
LEMMA FlattenLast ==
  ASSUME NEW L, NEW ss \in Seq(Seq(L)), NEW C, NEW i \in 1 .. Len(ss), NEW t,
         Final(Among(ss[i], C), t),
         \A j \in 1 .. Len(ss) : j > i => Among(ss[j], C) = <<>>
  PROVE  Final(Among(FlattenSeq(ss), C), t)
<1> DEFINE n == Len(ss)
<1>0. n \in Nat /\ (\A k \in 1 .. n : ss[k] \in Seq(L)) /\ i \in 1 .. n
  OBVIOUS
<1>1. PICK h : /\ h[0] = <<>>
               /\ \A k \in 1 .. n : h[k] = h[k - 1] \o ss[k] /\ h[k] \in Seq(L)
               /\ FlattenSeq(ss) = h[n]
  BY FlattenSteps
<1>2. \A j \in 1 .. n : j > i => Among(ss[j], C) = <<>>
  OBVIOUS
<1> HIDE DEF n
<1>3. \A k \in 0 .. n : h[k] \in Seq(L)
  <2>1. <<>> \in Seq(L)
    OBVIOUS
  <2>2. \A k \in 0 .. n : k = 0 \/ k \in 1 .. n
    BY <1>0
  <2> QED BY <1>1, <2>1, <2>2
<1>8. \A x \in Seq(L), y \in Seq(L) : Among(x \o y, C) = Among(x, C) \o Among(y, C)
  BY AmongJoin
<1> DEFINE D == {k \in Nat : k \in i .. n => Final(Among(h[k], C), t)}
<1>4. 0 \in D
  BY <1>0
<1>5. \A k \in Nat : k \in D => k + 1 \in D
  <2> SUFFICES ASSUME NEW k \in Nat, k \in D, k + 1 \in i .. n
               PROVE  Final(Among(h[k + 1], C), t)
    OBVIOUS
  <2> DEFINE x == h[k]
             y == ss[k + 1]
  <2>1. k + 1 \in 1 .. n /\ k \in 0 .. n /\ (k + 1) - 1 = k
    BY <1>0
  <2>2. x \in Seq(L) /\ y \in Seq(L) /\ h[k + 1] = x \o y
    BY <1>0, <1>1, <1>3, <2>1
  <2>3. k + 1 = i => Final(Among(y, C), t)
    BY <1>0
  <2>4. k + 1 # i => k \in i .. n /\ k + 1 > i
    BY <1>0
  <2>5. k + 1 # i => Final(Among(x, C), t) /\ Among(y, C) = <<>>
    BY <1>2, <2>1, <2>4
  <2> HIDE DEF x, y
  <2>8. x \in Seq(L) /\ y \in Seq(L)
    BY <2>2
  <2>9. Among(x \o y, C) = Among(x, C) \o Among(y, C)
    BY <1>8, <2>8
  <2>6. Among(x \o y, C) = Among(x, C) \o Among(y, C) /\ Among(x, C) \in Seq(L) /\ Among(y, C) \in Seq(L)
    BY <2>8, <2>9, AmongIs
  <2>7. Final(Among(x \o y, C), t)
    BY <2>3, <2>5, <2>6, ConcatLast
  <2> QED BY <2>2, <2>7
<1> HIDE DEF D
<1>6. n \in D
  BY <1>0, <1>4, <1>5, NatInSet
<1>7. n \in i .. n
  BY <1>0
<1> QED BY <1>1, <1>6, <1>7 DEF D

\* Nothing is selected from lists of which nothing is.
LEMMA FlattenNone ==
  ASSUME NEW L, NEW ss \in Seq(Seq(L)), NEW C,
         \A j \in 1 .. Len(ss) : Among(ss[j], C) = <<>>
  PROVE  Among(FlattenSeq(ss), C) = <<>>
<1> DEFINE x == FlattenSeq(ss)
           a == Among(x, C)
<1>1. x \in Seq(L) /\ ToSet(x) = UNION {ToSet(ss[i]) : i \in 1 .. Len(ss)}
  BY FlattenHas
<1>2. a \in Seq(L) /\ ToSet(a) = ToSet(x) \intersect C
  BY <1>1, AmongIs
<1>3. \A j \in 1 .. Len(ss) : ToSet(ss[j]) \intersect C = {}
  <2> SUFFICES ASSUME NEW j \in 1 .. Len(ss) PROVE ToSet(ss[j]) \intersect C = {}
    OBVIOUS
  <2>1. ToSet(Among(ss[j], C)) = ToSet(ss[j]) \intersect C
    BY AmongIs
  <2>2. ToSet(<<>>) = {}
    BY DEF ToSet
  <2> QED BY <2>1, <2>2
<1>4. ToSet(a) = {}
  BY <1>1, <1>2, <1>3
<1> HIDE DEF a
<1>5. a # <<>> => a[1] \in ToSet(a)
  BY <1>2 DEF ToSet
<1> QED BY <1>4, <1>5 DEF a

\* Selecting twice is selecting the less.
LEMMA AmongTwice ==
  ASSUME NEW L, NEW V, NEW C, C \subseteq V, NEW x \in Seq(L)
  PROVE  Among(Among(x, V), C) = Among(x, C)
<1> DEFINE T == {s \in Seq(L) : Among(Among(s, V), C) = Among(s, C)}
<1>1. <<>> \in T
  <2> DEFINE z == <<>>
  <2>1. z \in Seq(L) /\ Among(z, V) = z /\ Among(z, C) = z
    BY AmongEmpty
  <2> HIDE DEF z
  <2> QED BY <2>1 DEF z
<1>2. ASSUME NEW s \in Seq(L), NEW e \in L, s \in T PROVE Append(s, e) \in T
  <2> DEFINE a == Among(s, V)
             v == Append(s, e)
  <2>1. a \in Seq(L) /\ Among(a, C) = Among(s, C)
    BY <1>2, AmongIs
  <2>2. Among(v, V) = IF e \in V THEN Append(a, e) ELSE a
    BY AmongAppend
  <2>3. Among(v, C) = IF e \in C THEN Append(Among(s, C), e) ELSE Among(s, C)
    BY AmongAppend
  <2> HIDE DEF a
  <2>4. Among(Append(a, e), C) = IF e \in C THEN Append(Among(a, C), e) ELSE Among(a, C)
    BY <2>1, AmongAppend
  <2>5. v \in Seq(L)
    OBVIOUS
  <2> HIDE DEF v
  <2>6. Among(Among(v, V), C) = Among(v, C)
    BY <2>1, <2>2, <2>3, <2>4
  <2> QED BY <2>5, <2>6 DEF v
<1> HIDE DEF T
<1>3. x \in T
  BY <1>1, <1>2, SeqInSet
<1> QED BY <1>3 DEF T

\* The value of the last at the positions I.
ValueAt(I, s) == LET k == IF I # {} THEN Max(I) ELSE 0 IN IF k = 0 THEN NoVal ELSE s[k].val

\* What is picked by the last index is the last that is selected.
LEMMA PickIndex ==
  ASSUME NEW L, NEW s \in Seq(L), NEW C, NEW I, I = {i \in 1 .. Len(s) : s[i] \in C}
  PROVE  LET k == IF I # {} THEN Max(I) ELSE 0
         IN  /\ Among(s, C) = <<>> => k = 0
             /\ \A t : Final(Among(s, C), t) => k # 0 /\ s[k] = t
<1> DEFINE a == Among(s, C)
           k == IF I # {} THEN Max(I) ELSE 0
<1>1. LastIs(s, C, a)
  BY LastAmong
<1>2. Len(s) \in Nat /\ I \in SUBSET (1 .. Len(s))
  OBVIOUS
<1>3. I # {} => Max(I) \in I /\ \A j \in I : j <= Max(I)
  BY <1>2, MaxIs
<1> HIDE DEF a
<1>4. ASSUME a = <<>> PROVE k = 0
  <2>1. \A i \in 1 .. Len(s) : s[i] \notin C
    BY <1>1, <1>4 DEF LastIs
  <2>2. I = {}
    BY <2>1
  <2> QED BY <2>2
<1>5. ASSUME NEW t, Final(a, t) PROVE k # 0 /\ s[k] = t
  <2>1. PICK i \in 1 .. Len(s) : /\ s[i] \in C /\ \A j \in 1 .. Len(s) : j > i => s[j] \notin C
                                 /\ a # <<>> /\ a[Len(a)] = s[i]
    BY <1>1, <1>5 DEF LastIs, Final
  <2>2. i \in I /\ \A j \in I : ~(j > i)
    BY <2>1
  <2>3. Max(I) = i
    BY <1>2, <1>3, <2>2
  <2>4. k = i /\ k # 0
    BY <1>2, <2>2, <2>3
  <2> QED BY <1>5, <2>1, <2>4 DEF Final
<1> HIDE DEF k
<1>6. (a = <<>> => k = 0) /\ \A t : Final(a, t) => k # 0 /\ s[k] = t
  BY <1>4, <1>5
<1> QED BY <1>6 DEF a, k

\* The value picked by that index is that of the last line selected.
LEMMA PickLast ==
  ASSUME NEW L, NEW s \in Seq(L), NEW C, NEW I, I = {i \in 1 .. Len(s) : s[i] \in C}
  PROVE  /\ Among(s, C) = <<>> => ValueAt(I, s) = NoVal
         /\ \A t : Final(Among(s, C), t) => ValueAt(I, s) = t.val
<1> DEFINE k == IF I # {} THEN Max(I) ELSE 0
<1>1. /\ Among(s, C) = <<>> => k = 0
      /\ \A t : Final(Among(s, C), t) => k # 0 /\ s[k] = t
  BY PickIndex
<1>2. ValueAt(I, s) = IF k = 0 THEN NoVal ELSE s[k].val
  BY DEF ValueAt
<1> HIDE DEF k
<1> QED BY <1>1, <1>2

\* Those of a selection.
LEMMA PickAmong ==
  ASSUME NEW L, NEW x \in Seq(L), NEW V, NEW C, C \subseteq V, NEW s, s = Among(x, V),
         NEW I, I = {i \in 1 .. Len(s) : s[i] \in C}
  PROVE  /\ Among(x, C) = <<>> => ValueAt(I, s) = NoVal
         /\ \A t : Final(Among(x, C), t) => ValueAt(I, s) = t.val
<1>1. s \in Seq(L) /\ Among(s, C) = Among(x, C)
  BY AmongTwice, AmongIs
<1> QED BY <1>1, PickLast

\* The lines in force among those of some sections.
LEMMA InForce ==
  ASSUME NEW d, IsDocument(d), NEW P, NEW C, NEW i \in DOMAIN d.secs, i \in P, NEW t,
         Final(Among(Texts(d.secs[i].ents), C), t),
         \A j \in DOMAIN d.secs : j > i /\ j \in P => Among(Texts(d.secs[j].ents), C) = <<>>
  PROVE  Final(Among(FlattenSeq(Rows(d, P)), C), t)
<1> DEFINE L == TextsOf(d)
           r == Rows(d, P)
<1>1. r \in Seq(Seq(L)) /\ Len(r) = Len(d.secs) /\ DOMAIN r = DOMAIN d.secs
  BY RowsAre
<1>2. \A j \in DOMAIN d.secs : r[j] = IF j \in P THEN Texts(d.secs[j].ents) ELSE <<>>
  BY DEF Rows
<1> HIDE DEF r, L
<1>3. DOMAIN d.secs = 1 .. Len(r)
  BY <1>1
<1>4. Final(Among(r[i], C), t)
  BY <1>2
<1>5. \A j \in 1 .. Len(r) : j > i => Among(r[j], C) = <<>>
  BY <1>2, <1>3, AmongEmpty
<1> QED BY <1>1, <1>3, <1>4, <1>5, FlattenLast DEF r

\* ... and there is none in force when no section that counts has one.
LEMMA NoneInForce ==
  ASSUME NEW d, IsDocument(d), NEW P, NEW C,
         \A j \in DOMAIN d.secs : j \in P => Among(Texts(d.secs[j].ents), C) = <<>>
  PROVE  Among(FlattenSeq(Rows(d, P)), C) = <<>>
<1> DEFINE L == TextsOf(d)
           r == Rows(d, P)
<1>1. r \in Seq(Seq(L)) /\ Len(r) = Len(d.secs) /\ DOMAIN r = DOMAIN d.secs
  BY RowsAre
<1>2. \A j \in DOMAIN d.secs : r[j] = IF j \in P THEN Texts(d.secs[j].ents) ELSE <<>>
  BY DEF Rows
<1> HIDE DEF r, L
<1>3. \A j \in 1 .. Len(r) : Among(r[j], C) = <<>>
  BY <1>1, <1>2, AmongEmpty
<1> QED BY <1>1, <1>3, FlattenNone DEF r

ChordsOf(L, c) == {t \in Valued(L) : is_chord_key(t.key) /\ canonical_chord(t.key) = canonical_chord(c)}

\* What keyd does for a key, a chord and an option is the value of the last line of it.
LEMMA KeydIs ==
  ASSUME NEW d, IsDocument(d), NEW L, TextsOf(d) \subseteq L, NEW b, NEW c
  PROVE  /\ Among(FlattenSeq(Rows(d, Boards(d, b))), ValuesOf(L, c)) = <<>> => KeydValue(d, b, c) = NoVal
         /\ Among(FlattenSeq(Rows(d, Boards(d, b))), ChordsOf(L, c)) = <<>> => KeydChord(d, b, c) = NoVal
         /\ Among(FlattenSeq(Rows(d, Globals(d))), ValuesOf(L, c)) = <<>> => KeydOption(d, c) = NoVal
         /\ \A t : /\ Final(Among(FlattenSeq(Rows(d, Boards(d, b))), ValuesOf(L, c)), t) => KeydValue(d, b, c) = t.val
                   /\ Final(Among(FlattenSeq(Rows(d, Boards(d, b))), ChordsOf(L, c)), t) => KeydChord(d, b, c) = t.val
                   /\ Final(Among(FlattenSeq(Rows(d, Globals(d))), ValuesOf(L, c)), t) => KeydOption(d, c) = t.val
<1> DEFINE x == FlattenSeq(Rows(d, Boards(d, b)))
           y == FlattenSeq(Rows(d, Globals(d)))
           V == Valued(L)
           s == bindings(x)
           g == bindings(y)
<1>1. TextsIn(d, LAMBDA u : feeds_board(u, b)) = x
  <2>1. [i \in DOMAIN d.secs |->
            IF feeds_board(d.secs[i], b)
            THEN [j \in DOMAIN d.secs[i].ents |-> d.secs[i].ents[j].text] ELSE <<>>]
          = Rows(d, Boards(d, b))
    BY DEF Rows, Boards, Texts
  <2> QED BY <2>1 DEF TextsIn
<1>2. TextsIn(d, LAMBDA u : u.kind = "global") = y
  <2>1. [i \in DOMAIN d.secs |->
            IF d.secs[i].kind = "global"
            THEN [j \in DOMAIN d.secs[i].ents |-> d.secs[i].ents[j].text] ELSE <<>>]
          = Rows(d, Globals(d))
    BY DEF Rows, Globals, Texts
  <2> QED BY <2>1 DEF TextsIn
<1>3. x \in Seq(L) /\ y \in Seq(L)
  <2>1. Rows(d, Boards(d, b)) \in Seq(Seq(L)) /\ Rows(d, Globals(d)) \in Seq(Seq(L))
    BY RowsAre
  <2> QED BY <2>1, FlattenHas
<1> HIDE DEF x, y
<1>4. s = Among(x, V) /\ g = Among(y, V)
  BY <1>3, SelectionsAre
<1>5. /\ ToSet(s) \subseteq V /\ ToSet(g) \subseteq V /\ s \in Seq(L) /\ g \in Seq(L)
  BY <1>3, <1>4, AmongIs
<1> HIDE DEF s, g
<1>6. (\A i \in 1 .. Len(s) : s[i] \in V) /\ \A i \in 1 .. Len(g) : g[i] \in V
  BY <1>5 DEF ToSet
<1>7. (\A t \in V : t \in ValuesOf(L, c) <=> t.key = c) /\ ValuesOf(L, c) \subseteq V
      /\ (\A t \in V : t \in ChordsOf(L, c) <=> is_chord_key(t.key) /\ canonical_chord(t.key) = canonical_chord(c))
      /\ ChordsOf(L, c) \subseteq V
  BY DEF ValuesOf, Valued, ChordsOf
<1> HIDE DEF V
<1> DEFINE IV == {i \in 1 .. Len(s) : s[i].key = c}
           IC == {i \in 1 .. Len(s) : is_chord_key(s[i].key) /\ canonical_chord(s[i].key) = canonical_chord(c)}
           IG == {i \in 1 .. Len(g) : g[i].key = c}
<1>8. KeydValue(d, b, c) = ValueAt(IV, s) /\ KeydChord(d, b, c) = ValueAt(IC, s) /\ KeydOption(d, c) = ValueAt(IG, g)
  BY <1>1, <1>2 DEF KeydValue, KeydChord, KeydOption, LastOf, BoardLines, SelectLastInSeq, s, g, ValueAt
<1>9. /\ IV = {i \in 1 .. Len(s) : s[i] \in ValuesOf(L, c)}
      /\ IC = {i \in 1 .. Len(s) : s[i] \in ChordsOf(L, c)}
      /\ IG = {i \in 1 .. Len(g) : g[i] \in ValuesOf(L, c)}
  BY <1>6, <1>7
<1> HIDE DEF IV, IC, IG
<1>10. /\ Among(x, ValuesOf(L, c)) = <<>> => ValueAt(IV, s) = NoVal
       /\ \A t : Final(Among(x, ValuesOf(L, c)), t) => ValueAt(IV, s) = t.val
  BY <1>3, <1>4, <1>7, <1>9, PickAmong
<1>11. /\ Among(x, ChordsOf(L, c)) = <<>> => ValueAt(IC, s) = NoVal
       /\ \A t : Final(Among(x, ChordsOf(L, c)), t) => ValueAt(IC, s) = t.val
  BY <1>3, <1>4, <1>7, <1>9, PickAmong
<1>12. /\ Among(y, ValuesOf(L, c)) = <<>> => ValueAt(IG, g) = NoVal
       /\ \A t : Final(Among(y, ValuesOf(L, c)), t) => ValueAt(IG, g) = t.val
  BY <1>3, <1>4, <1>7, <1>9, PickAmong
<1> QED BY <1>8, <1>10, <1>11, <1>12 DEF x, y

-----------------------------------------------------------------------------
(* What an operation on a section makes of its lines, one by one.          *)

\* Two lists put together, and a line put into one, position by position.
LEMMA ConcatIs ==
  ASSUME NEW E, NEW p \in Seq(E), NEW q \in Seq(E)
  PROVE  /\ p \o q \in Seq(E) /\ Len(p \o q) = Len(p) + Len(q) /\ Len(p) \in Nat /\ Len(q) \in Nat
         /\ \A j \in 1 .. Len(p) + Len(q) : (p \o q)[j] = IF j <= Len(p) THEN p[j] ELSE q[j - Len(p)]
  BY ConcatProperties, LenProperties

LEMMA InsertIs ==
  ASSUME NEW E, NEW x \in Seq(E), NEW at \in 1 .. Len(x) + 1, NEW e \in E
  PROVE  /\ InsertAt(x, at, e) \in Seq(E) /\ Len(InsertAt(x, at, e)) = Len(x) + 1
         /\ \A j \in 1 .. Len(x) + 1 :
              InsertAt(x, at, e)[j] = IF j < at THEN x[j] ELSE IF j = at THEN e ELSE x[j - 1]
<1> DEFINE p == SubSeq(x, 1, at - 1)
           q == SubSeq(x, at, Len(x))
           m == <<e>>
           n == Len(x)
<1>1. n \in Nat /\ \A i \in 1 .. n : x[i] \in E
  OBVIOUS
<1>2. /\ p \in Seq(E) /\ Len(p) = at - 1 /\ \A j \in 1 .. at - 1 : p[j] = x[j]
  <2>1. /\ at - 1 \in Int /\ 1 \in Int
        /\ \A i \in 1 .. at - 1 : x[i] \in E
    BY <1>1
  <2> QED BY <1>1, <2>1, SubSeqProperties
<1>3. q \in Seq(E) /\ Len(q) = (n + 1) - at /\ \A j \in 1 .. (n + 1) - at : q[j] = x[(at + j) - 1]
  <2>1. /\ at \in Int /\ n \in Int
        /\ \A i \in at .. n : x[i] \in E
    BY <1>1
  <2>2. q \in Seq(E) /\ Len(q) = (IF at <= n THEN n - at + 1 ELSE 0)
        /\ \A j \in 1 .. (n - at) + 1 : q[j] = x[(at + j) - 1]
    BY <1>1, <2>1, SubSeqProperties
  <2> QED BY <1>1, <2>2
<1>4. m \in Seq(E) /\ Len(m) = 1 /\ m[1] = e
  OBVIOUS
<1>5. InsertAt(x, at, e) = (p \o m) \o q
  BY DEF InsertAt
<1> HIDE DEF p, q, m, n
<1> DEFINE r == p \o m
<1>6. r \in Seq(E) /\ Len(r) = at /\ \A j \in 1 .. at : r[j] = IF j < at THEN x[j] ELSE e
  <2>6. p \in Seq(E) /\ m \in Seq(E)
    BY <1>2, <1>4
  <2>7. /\ r \in Seq(E) /\ Len(r) = Len(p) + Len(m)
        /\ \A j \in 1 .. Len(p) + Len(m) : r[j] = IF j <= Len(p) THEN p[j] ELSE m[j - Len(p)]
    BY <2>6, ConcatIs
  <2>1. r \in Seq(E) /\ Len(r) = Len(p) + 1 /\ Len(p) + Len(m) = at
    BY <1>1, <1>2, <1>4, <2>7
  <2>2. \A j \in 1 .. at : r[j] = IF j <= Len(p) THEN p[j] ELSE m[j - Len(p)]
    BY <2>1, <2>7
  <2>3. \A j \in 1 .. at : j <= at - 1 <=> j < at
    BY <1>1
  <2>4. \A j \in 1 .. at : ~(j < at) => j - Len(p) = 1
    BY <1>1, <1>2
  <2>5. \A j \in 1 .. at : j < at => j \in 1 .. at - 1
    BY <1>1
  <2> QED BY <1>1, <1>2, <1>4, <2>1, <2>2, <2>3, <2>4, <2>5
<1> HIDE DEF r
<1> DEFINE y == r \o q
<1>12. r \in Seq(E) /\ q \in Seq(E)
  BY <1>3, <1>6
<1>13. /\ y \in Seq(E) /\ Len(y) = Len(r) + Len(q)
       /\ \A j \in 1 .. Len(r) + Len(q) : y[j] = IF j <= Len(r) THEN r[j] ELSE q[j - Len(r)]
  BY <1>12, ConcatIs
<1>14. Len(r) + Len(q) = n + 1
  BY <1>1, <1>3, <1>6
<1>7. y \in Seq(E) /\ Len(y) = n + 1
  BY <1>13, <1>14
<1>8. \A j \in 1 .. n + 1 : y[j] = IF j <= at THEN r[j] ELSE q[j - at]
  BY <1>6, <1>13, <1>14
<1>9. \A j \in 1 .. n + 1 : ~(j <= at) => j - at \in 1 .. (n + 1) - at /\ (at + (j - at)) - 1 = j - 1
  BY <1>1
<1>10. \A j \in 1 .. n + 1 : j <= at => j \in 1 .. at /\ (j < at \/ j = at)
  BY <1>1
<1>11. \A j \in 1 .. n + 1 : y[j] = IF j < at THEN x[j] ELSE IF j = at THEN e ELSE x[j - 1]
  <2> HIDE DEF y
  <2> SUFFICES ASSUME NEW j \in 1 .. n + 1
               PROVE  y[j] = IF j < at THEN x[j] ELSE IF j = at THEN e ELSE x[j - 1]
    OBVIOUS
  <2>1. CASE j <= at
    BY <1>6, <1>8, <1>10, <2>1
  <2>2. CASE ~(j <= at)
    <3>1. ~(j < at) /\ j # at
      BY <1>1, <2>2
    <3>2. q[j - at] = x[j - 1]
      BY <1>3, <1>9, <2>2
    <3> QED BY <1>8, <2>2, <3>1, <3>2
  <2> QED BY <2>1, <2>2
<1> QED BY <1>5, <1>7, <1>11 DEF y, r, n

\* Entries, at what positions the last line of some kind leaves.
LEMMA LastIndex ==
  ASSUME NEW x, IsEntries(x), NEW I \in SUBSET (1 .. Len(x))
  PROVE  LET k == IF I # {} THEN Max(I) ELSE 0
         IN  /\ k \in 0 .. Len(x) /\ Len(x) \in Nat /\ DOMAIN x = 1 .. Len(x)
             /\ k # 0 => k \in I
             /\ \A j \in DOMAIN x : j > k => j \notin I
<1>1. Len(x) \in Nat /\ DOMAIN x = 1 .. Len(x)
  BY ListLen DEF IsEntries
<1>2. I # {} => Max(I) \in I /\ \A j \in I : j <= Max(I)
  BY <1>1, MaxIs
<1> DEFINE k == IF I # {} THEN Max(I) ELSE 0
<1>3. CASE I # {}
  <2>1. k \in I /\ \A j \in I : j <= k
    BY <1>2, <1>3
  <2> HIDE DEF k
  <2>2. k \in 0 .. Len(x) /\ \A j \in DOMAIN x : j > k => j \notin I
    BY <1>1, <2>1
  <2> QED BY <1>1, <2>1, <2>2 DEF k
<1>4. CASE I = {}
  <2>1. k = 0
    BY <1>4
  <2> HIDE DEF k
  <2>2. k \in 0 .. Len(x)
    BY <1>1, <2>1
  <2> QED BY <1>1, <1>4, <2>1, <2>2 DEF k
<1> QED BY <1>3, <1>4

\* The last binding, the last label and the last line of a section that is not blank.
LEMMA LastsAre ==
  ASSUME NEW s, IsEntries(s.ents), NEW c
  PROVE  /\ Len(s.ents) \in Nat /\ DOMAIN s.ents = 1 .. Len(s.ents)
         /\ BindingAt(s, c) \in 0 .. Len(s.ents)
         /\ BindingAt(s, c) # 0 => Binds(s.ents[BindingAt(s, c)], c)
         /\ \A j \in DOMAIN s.ents : j > BindingAt(s, c) => ~Binds(s.ents[j], c)
         /\ label_index(s, c) \in 0 .. Len(s.ents)
         /\ label_index(s, c) # 0 => Labels(s.ents[label_index(s, c)], c)
         /\ \A j \in DOMAIN s.ents : j > label_index(s, c) => ~Labels(s.ents[j], c)
         /\ SelectLastInSeq(s.ents, NotBlank) \in 0 .. Len(s.ents)
         /\ \A j \in DOMAIN s.ents : j > SelectLastInSeq(s.ents, NotBlank) => s.ents[j].text.k = "blank"
<1> DEFINE x == s.ents
           B == {i \in 1 .. Len(x) : Binds(x[i], c)}
           L == {i \in 1 .. Len(x) : Labels(x[i], c)}
           N == {i \in 1 .. Len(x) : NotBlank(x[i])}
           kb == IF B # {} THEN Max(B) ELSE 0
           kl == IF L # {} THEN Max(L) ELSE 0
           kn == IF N # {} THEN Max(N) ELSE 0
<1>1. BindingAt(s, c) = kb /\ label_index(s, c) = kl /\ SelectLastInSeq(s.ents, NotBlank) = kn
  BY DEF BindingAt, label_index, SelectLastInSeq
<1>2. B \in SUBSET (1 .. Len(x)) /\ L \in SUBSET (1 .. Len(x)) /\ N \in SUBSET (1 .. Len(x))
  OBVIOUS
<1>3. (\A j \in 1 .. Len(x) : j \in B <=> Binds(x[j], c)) /\ (\A j \in 1 .. Len(x) : j \in L <=> Labels(x[j], c))
      /\ \A j \in 1 .. Len(x) : j \in N <=> x[j].text.k # "blank"
  BY DEF NotBlank
<1>4. IsEntries(x)
  OBVIOUS
<1> HIDE DEF x, B, L, N
<1>5. /\ kb \in 0 .. Len(x) /\ Len(x) \in Nat /\ DOMAIN x = 1 .. Len(x)
      /\ kb # 0 => kb \in B
      /\ \A j \in DOMAIN x : j > kb => j \notin B
  BY <1>2, <1>4, LastIndex
<1>6. /\ kl \in 0 .. Len(x)
      /\ kl # 0 => kl \in L
      /\ \A j \in DOMAIN x : j > kl => j \notin L
  BY <1>2, <1>4, LastIndex
<1>7. /\ kn \in 0 .. Len(x)
      /\ \A j \in DOMAIN x : j > kn => j \notin N
  BY <1>2, <1>4, LastIndex
<1> HIDE DEF kb, kl, kn
<1>8. (kb # 0 => Binds(x[kb], c)) /\ (kl # 0 => Labels(x[kl], c))
  BY <1>2, <1>3, <1>5, <1>6
<1>9. \A j \in DOMAIN x : /\ j > kb => ~Binds(x[j], c)
                          /\ j > kl => ~Labels(x[j], c)
                          /\ j > kn => x[j].text.k = "blank"
  BY <1>3, <1>5, <1>6, <1>7
<1> QED BY <1>1, <1>5, <1>6, <1>7, <1>8, <1>9 DEF x

\* One line of x became text, or came between its lines, at i.
Replaced(x, y, i, text) ==
  /\ IsEntries(y) /\ Len(y) = Len(x) /\ i \in DOMAIN x /\ y[i].text = text
  /\ \A j \in DOMAIN x : j # i => y[j] = x[j]
Inserted(x, y, i, text) ==
  /\ IsEntries(y) /\ Len(y) = Len(x) + 1 /\ i \in 1 .. Len(x) + 1 /\ y[i].text = text
  /\ \A j \in DOMAIN x : /\ j < i => y[j].text = x[j].text /\ y[j].dirty = x[j].dirty
                         /\ j >= i => y[j + 1] = x[j]

\* A field of an entry, and of a section, changed: the others are as they were.
LEMMA EntryFields ==
  ASSUME NEW e, IsEntry(e), NEW x
  PROVE  /\ [e EXCEPT !.text = x].eol = e.eol /\ [e EXCEPT !.text = x].dirty = e.dirty
         /\ [e EXCEPT !.eol = x].eol = x /\ [e EXCEPT !.eol = x].dirty = e.dirty
         /\ [e EXCEPT !.dirty = x].eol = e.eol /\ [e EXCEPT !.dirty = x].dirty = x
<1>1. \A t, o, y : LET f == [text |-> t, eol |-> o, dirty |-> y]
                   IN  /\ [f EXCEPT !.text = x].eol = o /\ [f EXCEPT !.text = x].dirty = y
                       /\ [f EXCEPT !.eol = x].eol = x /\ [f EXCEPT !.eol = x].dirty = y
                       /\ [f EXCEPT !.dirty = x].eol = o /\ [f EXCEPT !.dirty = x].dirty = x
  OBVIOUS
<1>2. e = [text |-> e.text, eol |-> e.eol, dirty |-> e.dirty]
  BY DEF IsEntry
<1> QED BY <1>1, <1>2, Zenon

\* An entry and a section with one field changed.
WithText(e, x)  == [e EXCEPT !.text = x]
WithEol(e, x)   == [e EXCEPT !.eol = x]
WithDirty(e, x) == [e EXCEPT !.dirty = x]
WithEnts(s, x)  == [s EXCEPT !.ents = x]
WithHead(s, x)  == [s EXCEPT !.head = x]

LEMMA EntryWith ==
  ASSUME NEW e, IsEntry(e), NEW x
  PROVE  /\ LET f == WithText(e, x)  IN IsEntry(f) /\ f.text = x /\ f.eol = e.eol /\ f.dirty = e.dirty
         /\ LET f == WithEol(e, x)   IN IsEntry(f) /\ f.text = e.text /\ f.eol = x /\ f.dirty = e.dirty
         /\ LET f == WithDirty(e, x) IN IsEntry(f) /\ f.text = e.text /\ f.eol = e.eol /\ f.dirty = x
<1>1. /\ IsEntry([e EXCEPT !.text = x]) /\ [e EXCEPT !.text = x].text = x
      /\ IsEntry([e EXCEPT !.eol = x]) /\ [e EXCEPT !.eol = x].text = e.text
      /\ IsEntry([e EXCEPT !.dirty = x]) /\ [e EXCEPT !.dirty = x].text = e.text
  BY EntryExcept, Zenon
<1>2. /\ [e EXCEPT !.text = x].eol = e.eol /\ [e EXCEPT !.text = x].dirty = e.dirty
      /\ [e EXCEPT !.eol = x].eol = x /\ [e EXCEPT !.eol = x].dirty = e.dirty
      /\ [e EXCEPT !.dirty = x].eol = e.eol /\ [e EXCEPT !.dirty = x].dirty = x
  BY EntryFields, Zenon
<1> QED BY <1>1, <1>2, Zenon DEF WithText, WithEol, WithDirty

LEMMA SectionWith ==
  ASSUME NEW s, IsSection(s), NEW x
  PROVE  /\ LET u == WithEnts(s, x) IN SameHead(s, u) /\ u.ents = x /\ u.head = s.head /\ u.dirty = s.dirty
         /\ LET u == WithHead(s, x) IN SameHead(s, u) /\ u.ents = s.ents /\ u.head = x /\ u.dirty = s.dirty
<1> QED BY SectionExcept, Zenon DEF WithEnts, WithHead

\* Entries with one changed.
LEMMA OneChanged ==
  ASSUME NEW x, IsEntries(x), NEW i \in DOMAIN x, NEW e, IsEntry(e)
  PROVE  LET y == [x EXCEPT ![i] = e]
         IN  IsEntries(y) /\ Len(y) = Len(x) /\ DOMAIN y = DOMAIN x /\ y[i] = e
             /\ \A j \in DOMAIN x : j # i => y[j] = x[j]
<1> DEFINE y == [x EXCEPT ![i] = e]
<1>1. /\ DOMAIN y = DOMAIN x /\ y = [j \in DOMAIN x |-> y[j]] /\ y[i] = e
      /\ \A j \in DOMAIN x : j # i => y[j] = x[j]
  OBVIOUS
<1> HIDE DEF y
<1>2. IsList(y) /\ Len(y) = Len(x)
  BY <1>1, ListMap DEF IsEntries
<1>3. IsEntries(y)
  BY <1>1, <1>2 DEF IsEntries
<1> QED BY <1>1, <1>2, <1>3 DEF y

LEMMA SetLineIs ==
  ASSUME NEW s, IsSection(s), IsEntries(s.ents), NEW i \in DOMAIN s.ents, NEW text
  PROVE  LET t == SetLine(s, i, text)
             u == [s EXCEPT !.ents[i].text = text]
         IN  /\ SameHead(s, t) /\ t.head = s.head /\ t.dirty = s.dirty
             /\ Replaced(s.ents, t.ents, i, text) /\ t.ents[i].eol = s.ents[i].eol /\ t.ents[i].dirty
             /\ SameHead(s, u) /\ u.head = s.head /\ u.dirty = s.dirty
             /\ Replaced(s.ents, u.ents, i, text)
             /\ u.ents[i].eol = s.ents[i].eol /\ u.ents[i].dirty = s.ents[i].dirty
<1> DEFINE e == WithText(s.ents[i], text)
           x == [s.ents EXCEPT ![i] = e]
           t == WithEnts(s, x)
           f == WithDirty(e, TRUE)
           y == [x EXCEPT ![i] = f]
           z == WithEnts(t, y)
<1>1. IsEntry(e) /\ e.text = text /\ e.eol = s.ents[i].eol /\ e.dirty = s.ents[i].dirty
  <2>1. IsEntry(s.ents[i])
    BY DEF IsEntries
  <2> QED BY <2>1, EntryWith
<1>2. IsEntry(f) /\ f.text = text /\ f.eol = e.eol /\ f.dirty = TRUE
  <2> HIDE DEF e
  <2> QED BY <1>1, EntryWith
<1>3. IsEntries(x) /\ Len(x) = Len(s.ents) /\ DOMAIN x = DOMAIN s.ents /\ x[i] = e
      /\ \A j \in DOMAIN s.ents : j # i => x[j] = s.ents[j]
  <2> DEFINE w == s.ents
  <2>1. IsEntries(w) /\ i \in DOMAIN w
    OBVIOUS
  <2> HIDE DEF e, w
  <2>2. LET v == [w EXCEPT ![i] = e]
        IN  IsEntries(v) /\ Len(v) = Len(w) /\ DOMAIN v = DOMAIN w /\ v[i] = e
            /\ \A j \in DOMAIN w : j # i => v[j] = w[j]
    BY <1>1, <2>1, OneChanged
  <2> QED BY <2>2 DEF w
<1>4. IsEntries(y) /\ Len(y) = Len(x) /\ DOMAIN y = DOMAIN x /\ y[i] = f
      /\ \A j \in DOMAIN x : j # i => y[j] = x[j]
  <2> HIDE DEF f, x
  <2>1. i \in DOMAIN x
    BY <1>3
  <2> QED BY <1>2, <1>3, <2>1, OneChanged
<1>5. t.ents = x /\ SameHead(s, t) /\ t.head = s.head /\ t.dirty = s.dirty
  <2> HIDE DEF x
  <2> QED BY SectionWith
<1>6. z.ents = y /\ SameHead(s, z) /\ z.head = s.head /\ z.dirty = s.dirty
  <2>1. IsSection(t)
    BY <1>5 DEF SameHead
  <2> HIDE DEF t, y
  <2>2. SameHead(t, z) /\ z.ents = y /\ z.head = t.head /\ z.dirty = t.dirty
    BY <2>1, SectionWith
  <2> HIDE DEF z
  <2> QED BY <1>5, <2>2, SameHeadTrans
<1>7. [s EXCEPT !.ents[i].text = text] = t
  BY DEF WithText, WithEnts
<1>8. SetLine(s, i, text) = [t EXCEPT !.ents = [t.ents EXCEPT ![i] = [t.ents[i] EXCEPT !.dirty = TRUE]]]
  BY DEF SetLine, WithText, WithEnts
<1>9. [t.ents EXCEPT ![i] = [t.ents[i] EXCEPT !.dirty = TRUE]] = y
  <2>1. t.ents[i] = e /\ t.ents = x
    BY <1>3, <1>5
  <2> HIDE DEF t, e, x
  <2>2. [t.ents[i] EXCEPT !.dirty = TRUE] = f
    BY <2>1 DEF WithDirty
  <2> HIDE DEF f
  <2> QED BY <2>1, <2>2
<1> HIDE DEF t, y, e, x, f
<1>10. SetLine(s, i, text) = z
  BY <1>8, <1>9 DEF WithEnts
<1> HIDE DEF z
<1>11. Replaced(s.ents, x, i, text) /\ x[i] = e
  BY <1>1, <1>3 DEF Replaced
<1>12. Replaced(s.ents, y, i, text) /\ y[i] = f
  <2>1. \A j \in DOMAIN s.ents : j # i => y[j] = s.ents[j]
    BY <1>3, <1>4
  <2> QED BY <1>2, <1>3, <1>4, <2>1 DEF Replaced
<1> QED BY <1>1, <1>2, <1>5, <1>6, <1>7, <1>10, <1>11, <1>12

LEMMA EndEolIs ==
  ASSUME NEW s, IsSection(s), IsEntries(s.ents), NEW eol
  PROVE  LET w == WithEndEol(s, eol)
         IN  /\ SameHead(s, w) /\ w.dirty = s.dirty /\ IsEntries(w.ents) /\ Len(w.ents) = Len(s.ents)
             /\ \A j \in DOMAIN s.ents : /\ w.ents[j].text = s.ents[j].text /\ w.ents[j].dirty = s.ents[j].dirty
                                         /\ j # Len(s.ents) => w.ents[j] = s.ents[j]
             /\ EndEol(w) = eol /\ (s.ents # <<>> => w.head = s.head)
<1> DEFINE w == WithEndEol(s, eol)
<1>1. CASE s.ents = <<>>
  <2>1. w = WithHead(s, eol)
    BY <1>1 DEF WithEndEol, WithHead
  <2> HIDE DEF w
  <2>2. w.ents = s.ents /\ SameHead(s, w) /\ w.dirty = s.dirty /\ w.head = eol
    BY <2>1, SectionWith
  <2>3. EndEol(w) = eol
    BY <1>1, <2>2 DEF EndEol
  <2>4. Len(s.ents) = 0 /\ DOMAIN s.ents = {}
    BY <1>1
  <2> QED BY <1>1, <2>2, <2>3, <2>4 DEF w
<1>2. CASE s.ents # <<>>
  <2> DEFINE n == Len(s.ents)
             e == WithEol(s.ents[n], eol)
             x == [s.ents EXCEPT ![n] = e]
  <2>1. n \in DOMAIN s.ents
    BY <1>2, ListLen DEF IsEntries
  <2>2. IsEntry(s.ents[n])
    BY <2>1 DEF IsEntries
  <2>3. IsEntry(e) /\ e.text = s.ents[n].text /\ e.dirty = s.ents[n].dirty /\ e.eol = eol
    BY <2>2, EntryWith
  <2>4. w = WithEnts(s, x)
    BY <1>2 DEF WithEndEol, WithEnts, WithEol
  <2> HIDE DEF e
  <2>5. IsEntries(x) /\ Len(x) = Len(s.ents) /\ DOMAIN x = DOMAIN s.ents /\ x[n] = e
        /\ \A j \in DOMAIN s.ents : j # n => x[j] = s.ents[j]
    <3> DEFINE v == s.ents
    <3>1. IsEntries(v) /\ n \in DOMAIN v
      BY <2>1
    <3> HIDE DEF v, n
    <3>2. LET y == [v EXCEPT ![n] = e]
          IN  IsEntries(y) /\ Len(y) = Len(v) /\ DOMAIN y = DOMAIN v /\ y[n] = e
              /\ \A j \in DOMAIN v : j # n => y[j] = v[j]
      BY <2>3, <3>1, OneChanged
    <3> QED BY <3>2 DEF v
  <2> HIDE DEF x, w
  <2>8. w.ents = x /\ SameHead(s, w) /\ w.dirty = s.dirty /\ w.head = s.head
    BY <2>4, SectionWith
  <2>9. x # <<>>
    BY <2>1, <2>5
  <2>10. EndEol(w) = eol
    BY <2>3, <2>5, <2>8, <2>9 DEF EndEol
  <2>11. \A j \in DOMAIN s.ents : x[j].text = s.ents[j].text /\ x[j].dirty = s.ents[j].dirty
    BY <2>3, <2>5
  <2> QED BY <2>5, <2>8, <2>10, <2>11 DEF w
<1> QED BY <1>1, <1>2

Puts(x, y, i, text) == Replaced(x, y, i, text) \/ Inserted(x, y, i, text)

\* An entry put before others, the terminator of the line before it added or not.
LEMMA InsertEntry ==
  ASSUME NEW x, IsEntries(x), NEW y, IsEntries(y), Len(y) = Len(x),
         NEW i \in 1 .. Len(x) + 1, NEW e, IsEntry(e),
         \A j \in DOMAIN x : /\ j < i => y[j].text = x[j].text /\ y[j].dirty = x[j].dirty
                             /\ j >= i => y[j] = x[j]
  PROVE  Inserted(x, InsertAt(y, i, e), i, e.text) /\ InsertAt(y, i, e)[i] = e
<1> DEFINE z == InsertAt(y, i, e)
<1>1. Len(x) \in Nat /\ DOMAIN x = 1 .. Len(x) /\ DOMAIN y = 1 .. Len(x)
  BY ListLen DEF IsEntries
<1>2. PICK E : y \in Seq(E) /\ e \in E /\ \A w \in E : IsEntry(w)
  <2> DEFINE F == {y[j] : j \in DOMAIN y} \union {e}
  <2>1. y \in Seq(F)
    <3>1. y \in Seq({y[j] : j \in DOMAIN y})
      BY EntriesSeq
    <3> QED BY <3>1
  <2>2. e \in F /\ \A w \in F : IsEntry(w)
    BY DEF IsEntries
  <2> HIDE DEF F
  <2> QED BY <2>1, <2>2
<1>3. \A w \in E : IsEntry(w)
  BY <1>2
<1>4. i \in 1 .. Len(y) + 1 /\ y \in Seq(E) /\ e \in E
  BY <1>2
<1>5. /\ z \in Seq(E) /\ Len(z) = Len(y) + 1
      /\ \A j \in 1 .. Len(y) + 1 : z[j] = IF j < i THEN y[j] ELSE IF j = i THEN e ELSE y[j - 1]
  BY ONLY <1>4, InsertIs
<1> HIDE DEF z
<1>6. IsEntries(z)
  BY <1>3, <1>5, SeqEntries
<1>7. Len(z) = Len(x) + 1 /\ z[i] = e
  BY <1>1, <1>5
<1>8. \A j \in DOMAIN x : /\ j < i => z[j] = y[j]
                          /\ j >= i => z[j + 1] = y[j]
  <2> SUFFICES ASSUME NEW j \in DOMAIN x PROVE (j < i => z[j] = y[j]) /\ (j >= i => z[j + 1] = y[j])
    OBVIOUS
  <2>1. j \in 1 .. Len(y) + 1 /\ j + 1 \in 1 .. Len(y) + 1
    BY <1>1
  <2>2. j >= i => ~(j + 1 < i) /\ j + 1 # i /\ (j + 1) - 1 = j
    BY <1>1
  <2> QED BY <1>5, <2>1, <2>2
<1>9. \A j \in DOMAIN x : /\ j < i => z[j].text = x[j].text /\ z[j].dirty = x[j].dirty
                          /\ j >= i => z[j + 1] = x[j]
  BY <1>8
<1> QED BY <1>6, <1>7, <1>9 DEF Inserted, z

\* A line pushed goes after the last that is not blank; a key set is rewritten in place, or pushed.
LEMMA PushIs ==
  ASSUME NEW s, IsSection(s), IsEntries(s.ents), NEW text, NEW style
  PROVE  LET t == PushLine(s, text, style)
         IN  /\ SameHead(s, t)
             /\ \E i : /\ Inserted(s.ents, t.ents, i, text)
                       /\ \A j \in DOMAIN t.ents : j > i => t.ents[j].text.k = "blank"
<1> DEFINE m    == SelectLastInSeq(s.ents, NotBlank)
           at   == 1 + m
           open == at = Len(s.ents) + 1 /\ EndEol(s) = "none"
           base == IF open THEN WithEndEol(s, style) ELSE s
           new  == [text |-> text, eol |-> IF open THEN "none" ELSE style, dirty |-> text.k = "bind"]
           x    == s.ents
           y    == base.ents
           z    == InsertAt(y, at, new)
           t    == PushLine(s, text, style)
<1>1. Len(x) \in Nat /\ DOMAIN x = 1 .. Len(x) /\ m \in 0 .. Len(x)
      /\ \A j \in DOMAIN x : j > m => x[j].text.k = "blank"
  BY LastsAre
<1>2. t = WithEnts(base, z)
  BY DEF PushLine, WithEnts
<1>3. IsEntry(new) /\ new.text = text
  BY DEF IsEntry
<1>4. SameHead(s, base) /\ IsEntries(y) /\ Len(y) = Len(x)
      /\ \A j \in DOMAIN x : /\ y[j].text = x[j].text /\ y[j].dirty = x[j].dirty
                             /\ j >= at => y[j] = x[j]
  <2>1. CASE open
    <3> DEFINE w == WithEndEol(s, style)
    <3>1. SameHead(s, w) /\ IsEntries(w.ents) /\ Len(w.ents) = Len(s.ents)
          /\ \A j \in DOMAIN s.ents : w.ents[j].text = s.ents[j].text /\ w.ents[j].dirty = s.ents[j].dirty
      BY EndEolIs
    <3>2. base = w
      BY <2>1
    <3>3. \A j \in DOMAIN x : ~(j >= at)
      BY <1>1, <2>1
    <3> HIDE DEF w, base, at
    <3> QED BY <3>1, <3>2, <3>3
  <2>2. CASE ~open
    <3>1. base = s
      BY <2>2
    <3>2. SameHead(s, s)
      BY DEF SameHead
    <3> HIDE DEF base
    <3> QED BY <3>1, <3>2
  <2> QED BY <2>1, <2>2
<1>5. at \in 1 .. Len(x) + 1 /\ IsEntries(x)
  BY <1>1
<1> HIDE DEF m, base, new, x, y
<1>6. Inserted(x, z, at, text)
  <2> HIDE DEF at
  <2>1. Inserted(x, InsertAt(y, at, new), at, new.text)
    BY <1>3, <1>4, <1>5, InsertEntry
  <2> QED BY <1>3, <2>1
<1>7. \A j \in DOMAIN z : j > at => z[j].text.k = "blank"
  <2> SUFFICES ASSUME NEW j \in DOMAIN z, j > at PROVE z[j].text.k = "blank"
    OBVIOUS
  <2> HIDE DEF z
  <2>1. DOMAIN z = 1 .. Len(x) + 1
    BY <1>1, <1>6, ListLen DEF Inserted, IsEntries
  <2>2. j - 1 \in DOMAIN x /\ j - 1 >= at /\ (j - 1) + 1 = j /\ j - 1 > m
    BY <1>1, <2>1
  <2>3. z[j] = x[j - 1]
    BY <1>6, <2>2 DEF Inserted
  <2> QED BY <1>1, <2>2, <2>3
<1> HIDE DEF z, at
<1>8. IsSection(base)
  BY <1>4 DEF SameHead
<1>9. SameHead(base, t) /\ t.ents = z
  BY <1>2, <1>8, SectionWith
<1> HIDE DEF t
<1>10. SameHead(s, t)
  BY <1>4, <1>9, SameHeadTrans
<1>11. Inserted(s.ents, t.ents, at, text) /\ \A j \in DOMAIN t.ents : j > at => t.ents[j].text.k = "blank"
  BY <1>6, <1>7, <1>9 DEF x
<1> QED BY <1>10, <1>11 DEF t

LEMMA SetIs ==
  ASSUME NEW s, IsSection(s), IsEntries(s.ents), NEW c, NEW v, NEW style
  PROVE  LET t == set_or_add_binding(s, c, v, style)
             k == BindingAt(s, c)
         IN  /\ SameHead(s, t)
             /\ k # 0 => Replaced(s.ents, t.ents, k, BindText(c, v))
             /\ k = 0 => \E i : /\ Inserted(s.ents, t.ents, i, BindText(c, v))
                                /\ \A j \in DOMAIN t.ents : j > i => t.ents[j].text.k = "blank"
<1> DEFINE t == set_or_add_binding(s, c, v, style)
           k == BindingAt(s, c)
           text == BindText(c, v)
<1>1. CASE k # 0
  <2>1. t = SetLine(s, k, text)
    BY <1>1 DEF set_or_add_binding
  <2>2. k \in DOMAIN s.ents
    BY <1>1, LinesFound
  <2> HIDE DEF t, k, text
  <2>3. SameHead(s, t) /\ Replaced(s.ents, t.ents, k, text)
    BY <2>1, <2>2, SetLineIs
  <2> QED BY <1>1, <2>3 DEF t, k, text
<1>2. CASE k = 0
  <2>1. t = PushLine(s, text, style)
    BY <1>2 DEF set_or_add_binding
  <2> HIDE DEF t, k, text
  <2>2. /\ SameHead(s, t)
        /\ \E i : /\ Inserted(s.ents, t.ents, i, text)
                  /\ \A j \in DOMAIN t.ents : j > i => t.ents[j].text.k = "blank"
    BY <2>1, PushIs
  <2> QED BY <1>2, <2>2 DEF t, k, text
<1> QED BY <1>1, <1>2

\* Section::set_label leaves its line the last label of the key.
LEMMA LabelIs ==
  ASSUME NEW s, IsSection(s), IsEntries(s.ents), NEW c, NEW text, NEW style
  PROVE  LET t == SectionSetLabel(s, c, text, style)
         IN  /\ SameHead(s, t)
             /\ \E i : /\ Puts(s.ents, t.ents, i, LabelText(c, text))
                       /\ Replaced(s.ents, t.ents, i, LabelText(c, text)) => Labels(s.ents[i], c)
                       /\ \A j \in DOMAIN t.ents : j > i => ~Labels(t.ents[j], c)
<1> DEFINE x == s.ents
           t == SectionSetLabel(s, c, text, style)
           l == LabelText(c, text)
           k == label_index(s, c)
           at == BindingAt(s, c)
           goal == /\ SameHead(s, t)
                   /\ \E i : /\ Puts(x, t.ents, i, l)
                             /\ Replaced(x, t.ents, i, l) => Labels(x[i], c)
                             /\ \A j \in DOMAIN t.ents : j > i => ~Labels(t.ents[j], c)
<1>0. SUFFICES goal
  OBVIOUS
<1>1. /\ Len(x) \in Nat /\ DOMAIN x = 1 .. Len(x)
      /\ at \in 0 .. Len(x)
      /\ k \in 0 .. Len(x)
      /\ k # 0 => Labels(x[k], c)
      /\ \A j \in DOMAIN x : j > k => ~Labels(x[j], c)
  BY LastsAre
<1>2. l.k = "label"
  BY DEF LabelText
<1>3. IsEntries(x)
  OBVIOUS
<1>4. CASE k # 0 /\ x[k].text = l
  <2>1. t = s
    BY <1>4 DEF SectionSetLabel
  <2> HIDE DEF t, k, l, x
  <2>2. SameHead(s, t)
    BY <2>1 DEF SameHead
  <2>3. Replaced(x, x, k, l)
    BY <1>1, <1>3, <1>4 DEF Replaced
  <2>4. Labels(x[k], c) /\ \A j \in DOMAIN x : j > k => ~Labels(x[j], c)
    BY <1>1, <1>4
  <2>5. t.ents = x
    BY <2>1 DEF x
  <2> QED BY <2>2, <2>3, <2>4, <2>5 DEF Puts, t, l, x
<1>5. CASE ~(k # 0 /\ x[k].text = l)
  <2> DEFINE u == IF k # 0 THEN [s EXCEPT !.ents[k].text = l]
                  ELSE IF at # 0
                  THEN [s EXCEPT !.ents = InsertAt(@, at, Entry(l, s.ents[at].eol))]
                  ELSE PushLine(s, l, style)
  <2>1. t = [u EXCEPT !.dirty = TRUE]
    BY <1>5 DEF SectionSetLabel
  <2>2. ASSUME SameHead(s, u),
               \E i : /\ Puts(x, u.ents, i, l)
                      /\ Replaced(x, u.ents, i, l) => Labels(x[i], c)
                      /\ \A j \in DOMAIN u.ents : j > i => ~Labels(u.ents[j], c)
        PROVE  goal
    <3> HIDE DEF u, t, x, l
    <3>1. IsSection(u)
      BY <2>2 DEF SameHead
    <3>2. SameHead(u, t) /\ t.ents = u.ents
      BY <2>1, <3>1, SectionExcept
    <3>3. SameHead(s, t)
      BY <2>2, <3>2, SameHeadTrans
    <3> QED BY <2>2, <3>2, <3>3
  <2>3. CASE k # 0
    <3>1. u = [s EXCEPT !.ents[k].text = l]
      BY <2>3
    <3>2. k \in DOMAIN s.ents
      BY <1>1, <2>3
    <3> HIDE DEF u, l, k, at, t
    <3>3. SameHead(s, u) /\ Replaced(s.ents, u.ents, k, l)
      BY <3>1, <3>2, SetLineIs
    <3> HIDE DEF x, goal
    <3>7. Replaced(x, u.ents, k, l)
      BY <3>3 DEF x
    <3>4. \A j \in DOMAIN u.ents : j > k => ~Labels(u.ents[j], c)
      <4>1. DOMAIN u.ents = DOMAIN x
        BY <1>1, <3>7, ListLen DEF Replaced, IsEntries
      <4>2. \A j \in DOMAIN x : j > k => u.ents[j] = x[j]
        BY <1>1, <3>7 DEF Replaced
      <4> QED BY <1>1, <4>1, <4>2
    <3>5. Labels(x[k], c)
      BY <1>1, <2>3
    <3>6. Puts(x, u.ents, k, l)
      BY <3>7 DEF Puts
    <3> QED BY <2>2, <3>3, <3>4, <3>5, <3>6
  <2>4. CASE k = 0 /\ at # 0
    <3> DEFINE e == Entry(l, s.ents[at].eol)
               z == InsertAt(x, at, e)
    <3>1. u = WithEnts(s, z)
      BY <2>4 DEF WithEnts
    <3>2. IsEntry(e) /\ e.text = l
      BY DEF Entry, IsEntry
    <3>3. at \in 1 .. Len(x) + 1
      BY <1>1, <2>4
    <3> HIDE DEF u, l, k, at, t, e, goal
    <3>4. Inserted(x, InsertAt(x, at, e), at, e.text)
      <4> HIDE DEF x
      <4>1. Len(x) = Len(x) /\ \A j \in DOMAIN x : /\ j < at => x[j].text = x[j].text /\ x[j].dirty = x[j].dirty
                                                   /\ j >= at => x[j] = x[j]
        OBVIOUS
      <4> QED BY <1>3, <3>2, <3>3, <4>1, InsertEntry
    <3>5. Inserted(x, z, at, l)
      BY <3>2, <3>4
    <3> HIDE DEF z
    <3>6. SameHead(s, u) /\ u.ents = z
      BY <3>1, SectionWith
    <3> HIDE DEF x
    <3>7. DOMAIN z = 1 .. Len(x) + 1
      BY <1>1, <3>5, ListLen DEF Inserted, IsEntries
    <3>8. \A j \in DOMAIN z : j > at => ~Labels(z[j], c)
      <4> SUFFICES ASSUME NEW j \in DOMAIN z, j > at PROVE ~Labels(z[j], c)
        OBVIOUS
      <4>1. j - 1 \in DOMAIN x /\ j - 1 >= at /\ (j - 1) + 1 = j /\ j - 1 > k
        BY <1>1, <2>4, <3>7
      <4>2. z[j] = x[j - 1]
        BY <3>5, <4>1 DEF Inserted
      <4> QED BY <1>1, <4>1, <4>2
    <3>9. ~Replaced(x, z, at, l)
      <4>1. Len(z) = Len(x) + 1
        BY <3>5 DEF Inserted
      <4>2. Len(z) # Len(x)
        <5> DEFINE n == Len(x)
                   m == Len(z)
        <5>1. n \in Nat /\ m = n + 1
          BY <1>1, <4>1
        <5> HIDE DEF n, m
        <5>2. m # n
          BY <5>1
        <5> QED BY <5>2 DEF n, m
      <4> QED BY <4>2 DEF Replaced
    <3> QED BY <2>2, <3>5, <3>6, <3>8, <3>9 DEF Puts
  <2>5. CASE k = 0 /\ at = 0
    <3>1. u = PushLine(s, l, style)
      BY <2>5
    <3> HIDE DEF u, k, at, t, goal
    <3>2. PICK i : /\ SameHead(s, u) /\ Inserted(s.ents, u.ents, i, l)
                   /\ \A j \in DOMAIN u.ents : j > i => u.ents[j].text.k = "blank"
      <4> HIDE DEF l
      <4> QED BY <3>1, PushIs
    <3> HIDE DEF l, x
    <3>3. \A j \in DOMAIN u.ents : j > i => ~Labels(u.ents[j], c)
      BY <3>2 DEF Labels
    <3>4. Inserted(x, u.ents, i, l)
      BY <3>2 DEF x
    <3>5. ~Replaced(x, u.ents, i, l)
      <4>1. Len(u.ents) = Len(x) + 1
        BY <3>4 DEF Inserted
      <4>2. Len(u.ents) # Len(x)
        <5> DEFINE n == Len(x)
                   m == Len(u.ents)
        <5>1. n \in Nat /\ m = n + 1
          BY <1>1, <4>1
        <5> HIDE DEF n, m
        <5>2. m # n
          BY <5>1
        <5> QED BY <5>2 DEF n, m
      <4> QED BY <4>2 DEF Replaced
    <3> QED BY <2>2, <3>2, <3>3, <3>4, <3>5 DEF Puts
  <2> QED BY <2>3, <2>4, <2>5
<1> QED BY <1>4, <1>5

\* Nothing is selected when no line is in the selection.
LEMMA NoneAmong ==
  ASSUME NEW x, IsEntries(x), NEW C, \A j \in DOMAIN x : x[j].text \notin C
  PROVE  Among(Texts(x), C) = <<>>
<1> DEFINE t == Texts(x)
           L == {x[i].text : i \in DOMAIN x}
<1>1. t \in Seq(L) /\ Len(t) = Len(x) /\ DOMAIN t = DOMAIN x /\ \A j \in DOMAIN x : t[j] = x[j].text
  BY EntriesSeq, TextsList DEF Texts
<1> HIDE DEF t, L
<1>2. LastIs(t, C, Among(t, C))
  BY <1>1, LastAmong
<1>3. \A j \in 1 .. Len(t) : t[j] \notin C
  BY <1>1
<1>4. Among(t, C) = <<>>
  BY <1>2, <1>3 DEF LastIs
<1> QED BY <1>4 DEF t

\* Put there with none of C after it, the line is the last of C.
LEMMA PutFinal ==
  ASSUME NEW x, IsEntries(x), NEW y, NEW i, NEW text, Puts(x, y, i, text), NEW C, text \in C,
         \A j \in DOMAIN y : j > i => y[j].text \notin C
  PROVE  IsEntries(y) /\ i \in DOMAIN y /\ Final(Among(Texts(y), C), text)
<1> DEFINE t == Texts(y)
           L == {y[j].text : j \in DOMAIN y}
<1>1. IsEntries(y) /\ i \in DOMAIN y /\ y[i].text = text
  <2>1. IsList(x) /\ IsEntries(y) /\ IsList(y) /\ y[i].text = text
    BY DEF Puts, Replaced, Inserted, IsEntries
  <2>2. Len(x) \in Nat /\ DOMAIN x = 1 .. Len(x) /\ DOMAIN y = 1 .. Len(y)
    BY <2>1, ListLen
  <2>3. i \in DOMAIN y
    BY <2>2 DEF Puts, Replaced, Inserted
  <2> QED BY <2>1, <2>3
<1>2. t \in Seq(L) /\ DOMAIN t = DOMAIN y /\ \A j \in DOMAIN y : t[j] = y[j].text
  BY <1>1, EntriesSeq, TextsList DEF Texts
<1> HIDE DEF t, L
<1>3. DOMAIN t = 1 .. Len(t)
  BY <1>2
<1>4. i \in 1 .. Len(t) /\ t[i] \in C /\ \A j \in 1 .. Len(t) : j > i => t[j] \notin C
  BY <1>1, <1>2, <1>3
<1>5. Final(Among(t, C), t[i])
  BY <1>2, <1>4, LastAt
<1> QED BY <1>1, <1>2, <1>5 DEF t

\* Lines it is not one of, and does not replace, stay.
LEMMA PutKeeps ==
  ASSUME NEW x, IsEntries(x), NEW y, NEW i, NEW text, Puts(x, y, i, text), NEW B, text \notin B,
         Replaced(x, y, i, text) => x[i].text \notin B
  PROVE  Keeps(x, y, B)
<1>1. CASE Replaced(x, y, i, text)
  <2>1. IsEntries(y) /\ Len(x) = Len(y)
    BY <1>1 DEF Replaced
  <2>2. \A j \in DOMAIN x : y[j].text = x[j].text \/ (x[j].text \notin B /\ y[j].text \notin B)
    BY <1>1 DEF Replaced
  <2> QED BY <2>1, <2>2, SameTexts
<1>2. CASE Inserted(x, y, i, text)
  <2> DEFINE e == y[i]
             z == InsertAt(x, i, e)
  <2>1. Len(x) \in Nat /\ DOMAIN x = 1 .. Len(x) /\ DOMAIN y = 1 .. Len(y) /\ IsEntries(y)
        /\ Len(y) = Len(x) + 1 /\ i \in 1 .. Len(x) + 1 /\ e.text = text
    BY <1>2, ListLen DEF Inserted, IsEntries
  <2>2. IsEntry(e) /\ e.text \notin B
    BY <2>1 DEF IsEntries
  <2>3. Keeps(x, z, B)
    <3> HIDE DEF e
    <3> QED BY <2>1, <2>2, InsertKeeps
  <2>4. Inserted(x, z, i, text)
    <3>1. Len(x) = Len(x) /\ \A j \in DOMAIN x : /\ j < i => x[j].text = x[j].text /\ x[j].dirty = x[j].dirty
                                                 /\ j >= i => x[j] = x[j]
      OBVIOUS
    <3> HIDE DEF e
    <3>2. Inserted(x, InsertAt(x, i, e), i, e.text)
      BY <2>1, <2>2, <3>1, InsertEntry
    <3> QED BY <2>1, <3>2
  <2> HIDE DEF z
  <2>5. IsEntries(z) /\ Len(z) = Len(x) + 1 /\ DOMAIN z = 1 .. Len(x) + 1
    BY <2>4, ListLen DEF Inserted, IsEntries
  <2>6. \A j \in DOMAIN z : y[j].text = z[j].text
    <3> SUFFICES ASSUME NEW j \in DOMAIN z PROVE y[j].text = z[j].text
      OBVIOUS
    <3>1. CASE j = i
      BY <1>2, <2>4, <3>1 DEF Inserted
    <3>2. CASE j < i
      <4>1. j \in DOMAIN x
        BY <2>1, <2>5, <3>2
      <4> QED BY <1>2, <2>4, <3>2, <4>1 DEF Inserted
    <3>3. CASE j > i
      <4>1. j - 1 \in DOMAIN x /\ j - 1 >= i /\ (j - 1) + 1 = j
        BY <2>1, <2>5, <3>3
      <4> QED BY <1>2, <2>4, <4>1 DEF Inserted
    <3> QED BY <2>1, <2>5, <3>1, <3>2, <3>3
  <2>7. Keeps(z, y, B)
    <3>1. \A j \in DOMAIN z : \/ y[j].text = z[j].text
                              \/ z[j].text \notin B /\ y[j].text \notin B
      BY <2>6
    <3> QED BY <2>1, <2>5, <3>1, SameTexts
  <2> QED BY <2>3, <2>7, KeepsTrans
<1> QED BY <1>1, <1>2 DEF Puts

\* The last of some positions.
LEMMA LastIn ==
  ASSUME NEW n \in Nat, NEW I \in SUBSET (1 .. n)
  PROVE  LET k == IF I # {} THEN Max(I) ELSE 0
         IN  k \in 0 .. n /\ (k # 0 => k \in I) /\ \A j \in 1 .. n : j > k => j \notin I
<1> DEFINE k == IF I # {} THEN Max(I) ELSE 0
<1>1. CASE I # {}
  <2>1. Max(I) \in I /\ \A j \in I : j <= Max(I)
    BY <1>1, MaxIs
  <2>2. k = Max(I)
    BY <1>1
  <2> HIDE DEF k
  <2>4. k \in I /\ (\A j \in I : j <= k) /\ k \in 1 .. n
    BY <2>1, <2>2
  <2>5. \A j \in 1 .. n : j > k => ~(j <= k)
    BY <2>4
  <2>3. k \in 0 .. n /\ k \in I /\ \A j \in 1 .. n : j > k => j \notin I
    BY <2>4, <2>5
  <2> QED BY <2>3 DEF k
<1>2. CASE I = {}
  <2>1. k = 0
    BY <1>2
  <2> HIDE DEF k
  <2>2. k \in 0 .. n /\ (k # 0 => k \in I) /\ \A j \in 1 .. n : j > k => j \notin I
    BY <1>2, <2>1
  <2> QED BY <2>2 DEF k
<1> QED BY <1>1, <1>2

\* A section has a value for a key where a line of it has.
LEMMA ValuesHere ==
  ASSUME NEW s, IsEntries(s.ents), NEW c, get_binding(s, c) = NoVal
  PROVE  \A j \in DOMAIN s.ents : ~HasValue(s.ents[j], c)
<1> DEFINE x == s.ents
           I == {j \in 1 .. Len(x) : HasValue(x[j], c)}
           k == IF I # {} THEN Max(I) ELSE 0
<1>1. Len(x) \in Nat /\ DOMAIN x = 1 .. Len(x)
  BY ListLen DEF IsEntries
<1>2. get_binding(s, c) = IF k = 0 THEN NoVal ELSE x[k].text.val
  BY DEF get_binding, SelectLastInSeq
<1>3. I \in SUBSET (1 .. Len(x)) /\ \A j \in 1 .. Len(x) : j \in I <=> HasValue(x[j], c)
  OBVIOUS
<1> HIDE DEF I, x
<1>4. k \in 0 .. Len(x) /\ (k # 0 => k \in I) /\ \A j \in 1 .. Len(x) : j > k => j \notin I
  BY <1>1, <1>3, LastIn
<1> HIDE DEF k
<1>5. k = 0
  <2>1. k # 0 => HasValue(x[k], c)
    BY <1>1, <1>3, <1>4
  <2> QED BY <1>2, <2>1 DEF HasValue
<1>6. \A j \in DOMAIN x : ~HasValue(x[j], c)
  BY <1>1, <1>3, <1>4, <1>5
<1> QED BY <1>6 DEF x

ChordAt(s, c) == SelectLastInSeq(s.ents, LAMBDA e : SameChord(e, c))
\* The last binding of a section that spells a chord.
LEMMA ChordsHere ==
  ASSUME NEW s, IsEntries(s.ents), NEW c
  PROVE  /\ ChordAt(s, c) \in 0 .. Len(s.ents) /\ Len(s.ents) \in Nat /\ DOMAIN s.ents = 1 .. Len(s.ents)
         /\ ChordAt(s, c) # 0 => ChordAt(s, c) \in DOMAIN s.ents /\ SameChord(s.ents[ChordAt(s, c)], c)
         /\ \A j \in DOMAIN s.ents : j > ChordAt(s, c) => ~SameChord(s.ents[j], c)
<1> DEFINE x == s.ents
           I == {j \in 1 .. Len(x) : SameChord(x[j], c)}
           k == IF I # {} THEN Max(I) ELSE 0
<1>1. Len(x) \in Nat /\ DOMAIN x = 1 .. Len(x)
  BY ListLen DEF IsEntries
<1>2. ChordAt(s, c) = k
  BY DEF ChordAt, SelectLastInSeq
<1>3. I \in SUBSET (1 .. Len(x)) /\ \A j \in 1 .. Len(x) : j \in I <=> SameChord(x[j], c)
  OBVIOUS
<1> HIDE DEF I, x
<1>4. k \in 0 .. Len(x) /\ (k # 0 => k \in I) /\ \A j \in 1 .. Len(x) : j > k => j \notin I
  BY <1>1, <1>3, LastIn
<1> HIDE DEF k
<1>5. k # 0 => k \in DOMAIN x /\ SameChord(x[k], c)
  BY <1>1, <1>3, <1>4
<1>6. \A j \in DOMAIN x : j > k => ~SameChord(x[j], c)
  BY <1>1, <1>3, <1>4
<1> QED BY <1>1, <1>2, <1>4, <1>5, <1>6 DEF x

\* A line written to a section of a document, the last of its kind there and
\* with none in the sections after it, is the one in force.
LEMMA LandsLast ==
  ASSUME NEW d, IsDocument(d), NEW i \in DOMAIN d.secs, NEW s, SameHead(d.secs[i], s),
         NEW p, NEW text, Puts(d.secs[i].ents, s.ents, p, text), NEW C, text \in C,
         \A j \in DOMAIN s.ents : j > p => s.ents[j].text \notin C,
         NEW P, i \in P,
         \A j \in DOMAIN d.secs : j > i /\ j \in P =>
           \A k \in DOMAIN d.secs[j].ents : d.secs[j].ents[k].text \notin C
  PROVE  LET e == InSection(d, i, s)
         IN  IsDocument(e) /\ SameHeads(d, e) /\ text \in TextsOf(e)
             /\ Final(Among(FlattenSeq(Rows(e, P)), C), text)
<1> DEFINE e == InSection(d, i, s)
<1>1. IsEntries(d.secs[i].ents)
  BY DEF IsDocument
<1>2. IsEntries(s.ents) /\ p \in DOMAIN s.ents /\ Final(Among(Texts(s.ents), C), text)
  BY <1>1, PutFinal
<1>3. IsDoc(d)
  BY DEF IsDocument
<1>4. DOMAIN e.secs = DOMAIN d.secs /\ e.secs[i] = s /\ \A j \in DOMAIN d.secs : j # i => e.secs[j] = d.secs[j]
  <2> DEFINE x == [d.secs EXCEPT ![i] = s]
  <2>1. e = [d EXCEPT !.secs = x]
    BY DEF InSection
  <2> HIDE DEF x
  <2>2. e.secs = x
    BY <1>3, <2>1, DocExcept
  <2> QED BY <2>2 DEF x
<1>5. SameHeads(d, e)
  BY <1>3, InSectionKeeps
<1> HIDE DEF e
<1>6. IsDocument(e)
  <2>1. IsDoc(e)
    BY <1>5 DEF SameHeads
  <2>2. \A j \in DOMAIN e.secs : IsEntries(e.secs[j].ents)
    BY <1>2, <1>4 DEF IsDocument
  <2> QED BY <2>1, <2>2 DEF IsDocument
<1>7. \A j \in DOMAIN e.secs : j > i /\ j \in P => Among(Texts(e.secs[j].ents), C) = <<>>
  <2> SUFFICES ASSUME NEW j \in DOMAIN e.secs, j > i, j \in P
               PROVE  Among(Texts(e.secs[j].ents), C) = <<>>
    OBVIOUS
  <2>1. i \in Nat /\ j \in Nat
    <3>1. Len(d.secs) \in Nat /\ DOMAIN d.secs = 1 .. Len(d.secs)
      BY <1>3, DocDomain
    <3> QED BY <1>4, <3>1
  <2>2. j # i
    BY <2>1
  <2>3. e.secs[j] = d.secs[j] /\ IsEntries(d.secs[j].ents)
    BY <1>4, <2>2 DEF IsDocument
  <2>4. \A k \in DOMAIN d.secs[j].ents : d.secs[j].ents[k].text \notin C
    BY <1>4
  <2> QED BY <2>3, <2>4, NoneAmong
<1>8. text \in TextsOf(e)
  <2>1. s.ents[p].text = text
    BY DEF Puts, Replaced, Inserted
  <2> QED BY <1>2, <1>4, <2>1 DEF TextsOf
<1>9. Final(Among(FlattenSeq(Rows(e, P)), C), text)
  <2>1. Final(Among(Texts(e.secs[i].ents), C), text) /\ i \in DOMAIN e.secs
    BY <1>2, <1>4
  <2> QED BY <1>6, <1>7, <2>1, InForce
<1> QED BY <1>5, <1>6, <1>8, <1>9 DEF e

-----------------------------------------------------------------------------
(* Which section an operation writes to, and what the later ones hold.     *)

FedAt(d, b)         == LastSection(d, LAMBDA s : feeds_board(s, b))
ValuedAt(d, b, c)   == LastSection(d, LAMBDA s : feeds_board(s, b) /\ get_binding(s, c) # NoVal)
LabelledAt(d, b, c) == LastSection(d, LAMBDA s : feeds_board(s, b) /\ label_index(s, c) # 0)
ChordedAt(d, b, c)  == LastSection(d, LAMBDA s : feeds_board(s, b) /\ ChordAt(s, c) # 0)
GlobalAt(d)         == LastSection(d, LAMBDA s : s.name = PlainName(<<"global">>))

\* The last section of some.
LEMMA SectionAt ==
  ASSUME NEW d, IsDoc(d), NEW I \in SUBSET DOMAIN d.secs
  PROVE  LET k == IF I # {} THEN Max(I) ELSE 0
         IN  (k # 0 => k \in DOMAIN d.secs /\ k \in I) /\ \A j \in DOMAIN d.secs : j > k => j \notin I
<1> DEFINE k == IF I # {} THEN Max(I) ELSE 0
           n == Len(d.secs)
<1>1. n \in Nat /\ DOMAIN d.secs = 1 .. n
  BY DocDomain
<1>2. I \in SUBSET (1 .. n)
  BY <1>1
<1> HIDE DEF n
<1>3. k \in 0 .. n /\ (k # 0 => k \in I) /\ \A j \in 1 .. n : j > k => j \notin I
  BY <1>1, <1>2, LastIn
<1> HIDE DEF k
<1>4. (k # 0 => k \in DOMAIN d.secs /\ k \in I) /\ \A j \in DOMAIN d.secs : j > k => j \notin I
  BY <1>1, <1>2, <1>3
<1> QED BY <1>4 DEF k

LEMMA SectionsAt ==
  ASSUME NEW d, IsDoc(d), NEW b, NEW c
  PROVE  /\ LET k == FedAt(d, b)
            IN  /\ k # 0 => k \in DOMAIN d.secs /\ feeds_board(d.secs[k], b)
                /\ \A j \in DOMAIN d.secs : j > k => ~feeds_board(d.secs[j], b)
         /\ LET k == ValuedAt(d, b, c)
            IN  /\ k # 0 => k \in DOMAIN d.secs /\ feeds_board(d.secs[k], b) /\ get_binding(d.secs[k], c) # NoVal
                /\ \A j \in DOMAIN d.secs : j > k /\ feeds_board(d.secs[j], b) => get_binding(d.secs[j], c) = NoVal
         /\ LET k == LabelledAt(d, b, c)
            IN  /\ k # 0 => k \in DOMAIN d.secs /\ feeds_board(d.secs[k], b) /\ label_index(d.secs[k], c) # 0
                /\ \A j \in DOMAIN d.secs : j > k /\ feeds_board(d.secs[j], b) => label_index(d.secs[j], c) = 0
         /\ LET k == ChordedAt(d, b, c)
            IN  /\ k # 0 => k \in DOMAIN d.secs /\ feeds_board(d.secs[k], b) /\ ChordAt(d.secs[k], c) # 0
                /\ \A j \in DOMAIN d.secs : j > k /\ feeds_board(d.secs[j], b) => ChordAt(d.secs[j], c) = 0
         /\ LET k == GlobalAt(d)
            IN  /\ k # 0 => k \in DOMAIN d.secs /\ d.secs[k].name = PlainName(<<"global">>)
                /\ \A j \in DOMAIN d.secs : j > k => d.secs[j].name # PlainName(<<"global">>)
<1> DEFINE n == Len(d.secs)
           A == {j \in 1 .. n : feeds_board(d.secs[j], b)}
           V == {j \in 1 .. n : feeds_board(d.secs[j], b) /\ get_binding(d.secs[j], c) # NoVal}
           L == {j \in 1 .. n : feeds_board(d.secs[j], b) /\ label_index(d.secs[j], c) # 0}
           C == {j \in 1 .. n : feeds_board(d.secs[j], b) /\ ChordAt(d.secs[j], c) # 0}
           G == {j \in 1 .. n : d.secs[j].name = PlainName(<<"global">>)}
           ka == IF A # {} THEN Max(A) ELSE 0
           kv == IF V # {} THEN Max(V) ELSE 0
           kl == IF L # {} THEN Max(L) ELSE 0
           kc == IF C # {} THEN Max(C) ELSE 0
           kg == IF G # {} THEN Max(G) ELSE 0
<1>1. FedAt(d, b) = ka /\ ValuedAt(d, b, c) = kv /\ LabelledAt(d, b, c) = kl
      /\ ChordedAt(d, b, c) = kc /\ GlobalAt(d) = kg
  BY DEF FedAt, ValuedAt, LabelledAt, ChordedAt, GlobalAt, LastSection, SelectLastInSeq
<1>2. DOMAIN d.secs = 1 .. n
  BY DocDomain
<1>3. /\ A \in SUBSET DOMAIN d.secs /\ V \in SUBSET DOMAIN d.secs /\ L \in SUBSET DOMAIN d.secs
      /\ C \in SUBSET DOMAIN d.secs /\ G \in SUBSET DOMAIN d.secs
  BY <1>2
<1>4. \A j \in DOMAIN d.secs :
        /\ j \in A <=> feeds_board(d.secs[j], b)
        /\ j \in V <=> feeds_board(d.secs[j], b) /\ get_binding(d.secs[j], c) # NoVal
        /\ j \in L <=> feeds_board(d.secs[j], b) /\ label_index(d.secs[j], c) # 0
        /\ j \in C <=> feeds_board(d.secs[j], b) /\ ChordAt(d.secs[j], c) # 0
        /\ j \in G <=> d.secs[j].name = PlainName(<<"global">>)
  BY <1>2
<1> HIDE DEF A, V, L, C, G, n
<1>5. (ka # 0 => ka \in DOMAIN d.secs /\ ka \in A) /\ \A j \in DOMAIN d.secs : j > ka => j \notin A
  BY <1>3, SectionAt
<1>6. (kv # 0 => kv \in DOMAIN d.secs /\ kv \in V) /\ \A j \in DOMAIN d.secs : j > kv => j \notin V
  BY <1>3, SectionAt
<1>7. (kl # 0 => kl \in DOMAIN d.secs /\ kl \in L) /\ \A j \in DOMAIN d.secs : j > kl => j \notin L
  BY <1>3, SectionAt
<1>8. (kc # 0 => kc \in DOMAIN d.secs /\ kc \in C) /\ \A j \in DOMAIN d.secs : j > kc => j \notin C
  BY <1>3, SectionAt
<1>9. (kg # 0 => kg \in DOMAIN d.secs /\ kg \in G) /\ \A j \in DOMAIN d.secs : j > kg => j \notin G
  BY <1>3, SectionAt
<1> HIDE DEF ka, kv, kl, kc, kg
<1>10. LET k == FedAt(d, b)
       IN  /\ k # 0 => k \in DOMAIN d.secs /\ feeds_board(d.secs[k], b)
           /\ \A j \in DOMAIN d.secs : j > k => ~feeds_board(d.secs[j], b)
  BY <1>1, <1>4, <1>5
<1>11. LET k == ValuedAt(d, b, c)
       IN  /\ k # 0 => k \in DOMAIN d.secs /\ feeds_board(d.secs[k], b) /\ get_binding(d.secs[k], c) # NoVal
           /\ \A j \in DOMAIN d.secs : j > k /\ feeds_board(d.secs[j], b) => get_binding(d.secs[j], c) = NoVal
  BY <1>1, <1>4, <1>6
<1>12. LET k == LabelledAt(d, b, c)
       IN  /\ k # 0 => k \in DOMAIN d.secs /\ feeds_board(d.secs[k], b) /\ label_index(d.secs[k], c) # 0
           /\ \A j \in DOMAIN d.secs : j > k /\ feeds_board(d.secs[j], b) => label_index(d.secs[j], c) = 0
  BY <1>1, <1>4, <1>7
<1>13. LET k == ChordedAt(d, b, c)
       IN  /\ k # 0 => k \in DOMAIN d.secs /\ feeds_board(d.secs[k], b) /\ ChordAt(d.secs[k], c) # 0
           /\ \A j \in DOMAIN d.secs : j > k /\ feeds_board(d.secs[j], b) => ChordAt(d.secs[j], c) = 0
  BY <1>1, <1>4, <1>8
<1>14. LET k == GlobalAt(d)
       IN  /\ k # 0 => k \in DOMAIN d.secs /\ d.secs[k].name = PlainName(<<"global">>)
           /\ \A j \in DOMAIN d.secs : j > k => d.secs[j].name # PlainName(<<"global">>)
  BY <1>1, <1>4, <1>9
<1> QED BY <1>10, <1>11, <1>12, <1>13, <1>14

\* Section i of base, the document or one with a section added, is written.
Target(d, n, kind, base, i) ==
  /\ base = d \/ base = append_section(d, n, kind)
  /\ IsDocument(base) /\ i \in DOMAIN base.secs
  /\ IsSection(base.secs[i]) /\ IsEntries(base.secs[i].ents)
OnMain(d, base, i) == Target(d, PlainName(Main), "main", base, i)

\* A section that is there, and one that is made, are targets.
LEMMA TargetHere ==
  ASSUME NEW d, IsDocument(d), NEW n, NEW kind, NEW i \in DOMAIN d.secs
  PROVE  Target(d, n, kind, d, i)
<1>1. IsSection(d.secs[i])
  BY DEF IsDocument, IsDoc
<1> QED BY <1>1 DEF Target, IsDocument

LEMMA TargetMade ==
  ASSUME NEW d, IsDocument(d), NEW n, IsName(n), NEW kind
  PROVE  LET base == append_section(d, n, kind)
             i    == Len(base.secs)
         IN  /\ Target(d, n, kind, base, i)
             /\ base.secs[i].name = n /\ base.secs[i].kind = kind /\ base.secs[i].ents = <<>>
             /\ \A j \in DOMAIN base.secs : ~(j > i)
<1> DEFINE base == append_section(d, n, kind)
           i    == Len(base.secs)
<1>1. IsDoc(d)
  BY DEF IsDocument
<1>2. Adds(d, base, n, kind)
  BY <1>1, AppendAdds
<1>3. IsDocument(base) /\ \A j \in DOMAIN base.secs : IsSection(base.secs[j]) /\ IsEntries(base.secs[j].ents)
  BY DocumentSections
<1>4. Len(base.secs) = Len(d.secs) + 1 /\ base.secs[Len(d.secs) + 1].ents = <<>>
  <2>1. No("blank", {})
    BY NoNothing
  <2> QED BY <2>1, AppendAgrees
<1>5. base = append_section(d, n, kind)
  OBVIOUS
<1> HIDE DEF base
<1>6. Len(d.secs) \in Nat /\ IsDoc(base)
  BY <1>1, <1>3, DocDomain DEF IsDocument
<1>7. DOMAIN base.secs = 1 .. i /\ i \in Nat /\ i > 0
  BY <1>4, <1>6, DocDomain
<1>8. i \in DOMAIN base.secs /\ \A j \in DOMAIN base.secs : ~(j > i)
  BY <1>7
<1>9. base.secs[i].name = n /\ base.secs[i].kind = kind /\ base.secs[i].ents = <<>>
  BY <1>2, <1>4 DEF Adds
<1>10. Target(d, n, kind, base, i)
  BY <1>3, <1>5, <1>8 DEF Target
<1> QED BY <1>8, <1>9, <1>10 DEF base

\* The section an operation falls back to: the last of the board, [main] made
\* where there is none.
LEMMA Fallback ==
  ASSUME NEW d, IsDocument(d), NEW b, HasBoard(d, b)
  PROVE  LET at   == FedAt(d, b)
             base == IF at = 0 THEN append_section(d, PlainName(Main), "main") ELSE d
             i    == IF at = 0 THEN Len(base.secs) ELSE at
         IN  /\ OnMain(d, base, i) /\ feeds_board(base.secs[i], b)
             /\ \A j \in DOMAIN base.secs : j > i => ~feeds_board(base.secs[j], b)
             /\ at = 0 => base.secs[i].ents = <<>> /\ base.secs[i].kind = "main"
<1> DEFINE at == FedAt(d, b)
           m  == append_section(d, PlainName(Main), "main")
           base == IF at = 0 THEN m ELSE d
           i    == IF at = 0 THEN Len(base.secs) ELSE at
<1>1. IsDoc(d)
  BY DEF IsDocument
<1>2. /\ at # 0 => at \in DOMAIN d.secs /\ feeds_board(d.secs[at], b)
      /\ \A j \in DOMAIN d.secs : j > at => ~feeds_board(d.secs[j], b)
  BY <1>1, SectionsAt
<1>3. CASE at # 0
  <2>1. base = d /\ i = at
    BY <1>3
  <2>2. OnMain(d, d, at)
    BY <1>2, <1>3, TargetHere DEF OnMain
  <2> HIDE DEF base, i, at
  <2>3. OnMain(d, base, i) /\ feeds_board(base.secs[i], b)
        /\ \A j \in DOMAIN base.secs : j > i => ~feeds_board(base.secs[j], b)
    BY <1>2, <1>3, <2>1, <2>2
  <2> QED BY <1>3, <2>3 DEF base, i, at
<1>4. CASE at = 0
  <2>1. base = m /\ i = Len(m.secs)
    BY <1>4
  <2>2. IsName(PlainName(Main)) /\ PlainName(Main).parts = Main
    BY PlainIsName
  <2>3. b = Main
    <3>1. \A j \in DOMAIN d.secs : ~feeds_board(d.secs[j], b)
      <4> HIDE DEF at
      <4>1. \A j \in DOMAIN d.secs : j > at
        BY <1>1, <1>4, DocDomain
      <4> QED BY <1>2, <4>1
    <3> QED BY <3>1 DEF HasBoard, Boards
  <2>4. /\ OnMain(d, m, Len(m.secs))
        /\ m.secs[Len(m.secs)].name = PlainName(Main) /\ m.secs[Len(m.secs)].kind = "main"
        /\ m.secs[Len(m.secs)].ents = <<>>
        /\ \A j \in DOMAIN m.secs : ~(j > Len(m.secs))
    BY <2>2, TargetMade DEF OnMain
  <2>5. feeds_board(m.secs[Len(m.secs)], b)
    BY <2>2, <2>3, <2>4 DEF feeds_board, is_board, BoardKinds
  <2> HIDE DEF m, base, i, at
  <2>6. OnMain(d, base, i) /\ feeds_board(base.secs[i], b)
        /\ (\A j \in DOMAIN base.secs : j > i => ~feeds_board(base.secs[j], b))
        /\ base.secs[i].ents = <<>> /\ base.secs[i].kind = "main"
    BY <2>1, <2>4, <2>5
  <2> QED BY <2>6 DEF base, i, at, m
<1> QED BY <1>3, <1>4

\* A value goes to the last section of the board that has the key, or to its last, or to a new [main].
LEMMA BindingWhere ==
  ASSUME NEW d, IsDocument(d), NEW b, HasBoard(d, b), NEW c, NEW v
  PROVE  \E base, i :
           /\ OnMain(d, base, i) /\ feeds_board(base.secs[i], b)
           /\ set_layer_binding(d, b, c, v)
                = InSection(base, i, set_or_add_binding(base.secs[i], c, v, file_eol(d)))
           /\ \A j \in DOMAIN base.secs : j > i /\ feeds_board(base.secs[j], b)
                                            => get_binding(base.secs[j], c) = NoVal
<1> DEFINE k  == ValuedAt(d, b, c)
           at == FedAt(d, b)
           base == IF at = 0 THEN append_section(d, PlainName(Main), "main") ELSE d
           i    == IF at = 0 THEN Len(base.secs) ELSE at
           e  == set_layer_binding(d, b, c, v)
<1>1. IsDoc(d)
  BY DEF IsDocument
<1>2. e = IF k # 0 THEN InSection(d, k, set_or_add_binding(d.secs[k], c, v, file_eol(d)))
          ELSE InSection(base, i, set_or_add_binding(base.secs[i], c, v, file_eol(d)))
  BY DEF set_layer_binding, InTarget, ValuedAt, FedAt
<1>3. CASE k # 0
  <2>1. k \in DOMAIN d.secs /\ feeds_board(d.secs[k], b)
        /\ \A j \in DOMAIN d.secs : j > k /\ feeds_board(d.secs[j], b) => get_binding(d.secs[j], c) = NoVal
    BY <1>1, <1>3, SectionsAt
  <2>2. OnMain(d, d, k)
    BY <2>1, TargetHere DEF OnMain
  <2> HIDE DEF k, at, base, i
  <2> QED BY <1>2, <1>3, <2>1, <2>2
<1>4. CASE k = 0
  <2>1. OnMain(d, base, i) /\ feeds_board(base.secs[i], b)
        /\ \A j \in DOMAIN base.secs : j > i => ~feeds_board(base.secs[j], b)
    BY Fallback
  <2> HIDE DEF k, at, base, i
  <2> QED BY <1>2, <1>4, <2>1
<1> QED BY <1>3, <1>4

\* A label likewise, to the last section that labels the key.
LEMMA LabelWhere ==
  ASSUME NEW d, IsDocument(d), NEW b, HasBoard(d, b), NEW c, NEW t
  PROVE  \E base, i :
           /\ OnMain(d, base, i) /\ feeds_board(base.secs[i], b)
           /\ set_label(d, b, c, t)
                = InSection(base, i, SectionSetLabel(base.secs[i], c, t, file_eol(d)))
           /\ \A j \in DOMAIN base.secs : j > i /\ feeds_board(base.secs[j], b)
                                            => label_index(base.secs[j], c) = 0
<1> DEFINE l  == LabelledAt(d, b, c)
           k  == ValuedAt(d, b, c)
           at == FedAt(d, b)
           base == IF at = 0 THEN append_section(d, PlainName(Main), "main") ELSE d
           i    == IF at = 0 THEN Len(base.secs) ELSE at
           e  == set_label(d, b, c, t)
<1>1. IsDoc(d)
  BY DEF IsDocument
<1>2. e = IF l # 0 THEN InSection(d, l, SectionSetLabel(d.secs[l], c, t, file_eol(d)))
          ELSE IF k # 0 THEN InSection(d, k, SectionSetLabel(d.secs[k], c, t, file_eol(d)))
          ELSE InSection(base, i, SectionSetLabel(base.secs[i], c, t, file_eol(d)))
  BY DEF set_label, InTarget, ValuedAt, FedAt, LabelledAt
<1>5. /\ l # 0 => l \in DOMAIN d.secs /\ feeds_board(d.secs[l], b)
      /\ \A j \in DOMAIN d.secs : j > l /\ feeds_board(d.secs[j], b) => label_index(d.secs[j], c) = 0
      /\ k # 0 => k \in DOMAIN d.secs /\ feeds_board(d.secs[k], b)
  BY <1>1, SectionsAt
<1>3. CASE l # 0
  <2>2. OnMain(d, d, l)
    BY <1>3, <1>5, TargetHere DEF OnMain
  <2> HIDE DEF l, k, at, base, i
  <2> QED BY <1>2, <1>3, <1>5, <2>2
<1>4. CASE l = 0 /\ k # 0
  <2>2. OnMain(d, d, k)
    BY <1>4, <1>5, TargetHere DEF OnMain
  <2> HIDE DEF l, k, at, base, i
  <2>3. DOMAIN d.secs = 1 .. Len(d.secs)
    BY <1>1, DocDomain
  <2>1. \A j \in DOMAIN d.secs : j > l
    BY <1>4, <2>3
  <2> QED BY <1>2, <1>4, <1>5, <2>1, <2>2
<1>6. CASE l = 0 /\ k = 0
  <2>1. OnMain(d, base, i) /\ feeds_board(base.secs[i], b)
        /\ \A j \in DOMAIN base.secs : j > i => ~feeds_board(base.secs[j], b)
    BY Fallback
  <2> HIDE DEF l, k, at, base, i
  <2> QED BY <1>2, <1>6, <2>1
<1> QED BY <1>3, <1>4, <1>6

Spelt(s, c) == IF ChordAt(s, c) = 0 THEN c ELSE s.ents[ChordAt(s, c)].text.key

ChordGoes(d, b, c, v, base, i, x) ==
  /\ OnMain(d, base, i) /\ feeds_board(base.secs[i], b)
  /\ set_layer_chord(d, b, c, v)
       = InSection(base, i, set_or_add_binding(base.secs[i], x, v, file_eol(d)))
  /\ x = Spelt(base.secs[i], c)
  /\ \A j \in DOMAIN base.secs : j > i /\ feeds_board(base.secs[j], b)
                                   => ChordAt(base.secs[j], c) = 0

\* A chord is written under the spelling of its last line, where there is one.
LEMMA ChordWhere ==
  ASSUME NEW d, IsDocument(d), NEW b, HasBoard(d, b), NEW c, NEW v
  PROVE  \E base, i, x : ChordGoes(d, b, c, v, base, i, x)
<1> DEFINE k  == ChordedAt(d, b, c)
           at == FedAt(d, b)
           base == IF at = 0 THEN append_section(d, PlainName(Main), "main") ELSE d
           i    == IF at = 0 THEN Len(base.secs) ELSE at
           x  == d.secs[k].ents[ChordAt(d.secs[k], c)].text.key
           e  == set_layer_chord(d, b, c, v)
<1>1. IsDoc(d)
  BY DEF IsDocument
<1>2. e = IF k # 0 THEN InSection(d, k, set_or_add_binding(d.secs[k], x, v, file_eol(d)))
          ELSE InSection(base, i, set_or_add_binding(base.secs[i], c, v, file_eol(d)))
  BY DEF set_layer_chord, InTarget, ChordedAt, FedAt, ChordAt
<1>5. /\ k # 0 => k \in DOMAIN d.secs /\ feeds_board(d.secs[k], b) /\ ChordAt(d.secs[k], c) # 0
      /\ \A j \in DOMAIN d.secs : j > k /\ feeds_board(d.secs[j], b) => ChordAt(d.secs[j], c) = 0
  BY <1>1, SectionsAt
<1>3. CASE k # 0
  <2>2. OnMain(d, d, k)
    BY <1>3, <1>5, TargetHere DEF OnMain
  <2>3. x = Spelt(d.secs[k], c)
    BY <1>3, <1>5 DEF Spelt
  <2> HIDE DEF k, at, base, i, x
  <2> QED BY <1>2, <1>3, <1>5, <2>2, <2>3 DEF ChordGoes
<1>4. CASE k = 0
  <2>1. OnMain(d, base, i) /\ feeds_board(base.secs[i], b)
        /\ (\A j \in DOMAIN base.secs : j > i => ~feeds_board(base.secs[j], b))
        /\ (at = 0 => base.secs[i].ents = <<>>)
    BY Fallback
  <2>2. at # 0 => base = d /\ i = at
    OBVIOUS
  <2> HIDE DEF k, at, base, i
  <2>3. ChordAt(base.secs[i], c) = 0
    <3>1. CASE at # 0
      <4>2. DOMAIN d.secs = 1 .. Len(d.secs)
        BY <1>1, DocDomain
      <4>3. base = d /\ i \in DOMAIN d.secs
        BY <2>1, <2>2, <3>1 DEF OnMain, Target
      <4>1. base = d /\ i \in DOMAIN d.secs /\ i > k
        BY <1>4, <4>2, <4>3
      <4> QED BY <1>5, <2>1, <4>1
    <3>2. CASE at = 0
      <4> DEFINE s == base.secs[i]
      <4>1. s.ents = <<>> /\ IsEntries(s.ents)
        BY <2>1, <3>2 DEF OnMain, Target
      <4> HIDE DEF s
      <4>2. ChordAt(s, c) \in 0 .. Len(s.ents) /\ Len(s.ents) = 0
        BY <4>1, ChordsHere
      <4>3. ChordAt(s, c) = 0
        BY <4>2
      <4> QED BY <4>3 DEF s
    <3> QED BY <3>1, <3>2
  <2>4. c = Spelt(base.secs[i], c)
    BY <2>3 DEF Spelt
  <2> QED BY <1>2, <1>4, <2>1, <2>4 DEF ChordGoes
<1> QED BY <1>3, <1>4

\* An option goes to the last [global], or to a new one.
LEMMA OptionWhere ==
  ASSUME NEW d, IsDocument(d), NEW c, NEW v
  PROVE  \E base, i :
           /\ Target(d, PlainName(<<"global">>), "global", base, i)
           /\ base.secs[i].name = PlainName(<<"global">>)
           /\ base = d \/ base.secs[i].kind = "global"
           /\ set_global_option(d, c, v)
                = InSection(base, i, set_or_add_binding(base.secs[i], c, v, file_eol(d)))
           /\ \A j \in DOMAIN base.secs : j > i => base.secs[j].name # PlainName(<<"global">>)
<1> DEFINE n  == PlainName(<<"global">>)
           at == GlobalAt(d)
           m  == append_section(d, n, "global")
           base == IF at = 0 THEN m ELSE d
           i    == IF at = 0 THEN Len(base.secs) ELSE at
<1>1. IsDoc(d) /\ IsName(n)
  BY PlainIsName DEF IsDocument
<1>2. set_global_option(d, c, v) = InSection(base, i, set_or_add_binding(base.secs[i], c, v, file_eol(d)))
  BY DEF set_global_option, GlobalAt
<1>3. /\ at # 0 => at \in DOMAIN d.secs /\ d.secs[at].name = n
      /\ \A j \in DOMAIN d.secs : j > at => d.secs[j].name # n
  BY <1>1, SectionsAt
<1>4. CASE at # 0
  <2>1. base = d /\ i = at
    BY <1>4
  <2>2. Target(d, n, "global", d, at)
    BY <1>3, <1>4, TargetHere
  <2> HIDE DEF n, at, m, base, i
  <2>3. \E x, y : /\ Target(d, n, "global", x, y) /\ x.secs[y].name = n
                  /\ x = d \/ x.secs[y].kind = "global"
                  /\ set_global_option(d, c, v) = InSection(x, y, set_or_add_binding(x.secs[y], c, v, file_eol(d)))
                  /\ \A j \in DOMAIN x.secs : j > y => x.secs[j].name # n
    BY <1>2, <1>3, <1>4, <2>1, <2>2
  <2> QED BY <2>3 DEF n
<1>5. CASE at = 0
  <2>1. base = m /\ i = Len(m.secs)
    BY <1>5
  <2> HIDE DEF n, at, base, i
  <2>2. /\ Target(d, n, "global", m, Len(m.secs))
        /\ m.secs[Len(m.secs)].name = n /\ m.secs[Len(m.secs)].kind = "global"
        /\ \A j \in DOMAIN m.secs : ~(j > Len(m.secs))
    BY <1>1, TargetMade
  <2> HIDE DEF m
  <2>3. \E x, y : /\ Target(d, n, "global", x, y) /\ x.secs[y].name = n
                  /\ x = d \/ x.secs[y].kind = "global"
                  /\ set_global_option(d, c, v) = InSection(x, y, set_or_add_binding(x.secs[y], c, v, file_eol(d)))
                  /\ \A j \in DOMAIN x.secs : j > y => x.secs[j].name # n
    BY <1>2, <2>1, <2>2
  <2> QED BY <2>3 DEF n
<1> QED BY <1>4, <1>5

\* Boards are found by the heads.
LEMMA SameBoards ==
  ASSUME NEW d, IsDoc(d), NEW e, SameHeads(d, e)
  PROVE  /\ \A b : Boards(e, b) = Boards(d, b) /\ LayerSecs(e, b) = LayerSecs(d, b)
         /\ Globals(e) = Globals(d) /\ \A k : KindSecs(e, k) = KindSecs(d, k)
<1>1. DOMAIN d.secs = 1 .. Len(d.secs)
  BY DocDomain
<1>2. IsDoc(e) /\ Len(e.secs) = Len(d.secs) /\ \A i \in DOMAIN d.secs : SameHead(d.secs[i], e.secs[i])
  BY DEF SameHeads
<1>3. DOMAIN e.secs = 1 .. Len(e.secs)
  BY <1>2, DocDomain
<1>4. DOMAIN e.secs = DOMAIN d.secs
  BY <1>1, <1>2, <1>3
<1>5. \A i \in DOMAIN d.secs : e.secs[i].name = d.secs[i].name /\ e.secs[i].kind = d.secs[i].kind
  BY <1>2 DEF SameHead
<1> QED BY <1>4, <1>5 DEF Boards, LayerSecs, Globals, KindSecs, feeds_board

\* The written line is the last of its key in its section ...
LEMMA SetLast ==
  ASSUME NEW s, IsSection(s), IsEntries(s.ents), NEW c, NEW v, NEW style
  PROVE  LET t == set_or_add_binding(s, c, v, style)
         IN  /\ SameHead(s, t)
             /\ \E p : /\ Puts(s.ents, t.ents, p, BindText(c, v))
                       /\ Replaced(s.ents, t.ents, p, BindText(c, v)) => Binds(s.ents[p], c)
                       /\ \A j \in DOMAIN t.ents : j > p => ~Binds(t.ents[j], c)
<1> DEFINE t == set_or_add_binding(s, c, v, style)
           x == s.ents
           k == BindingAt(s, c)
           text == BindText(c, v)
<1>1. /\ SameHead(s, t)
      /\ k # 0 => Replaced(x, t.ents, k, text)
      /\ k = 0 => \E i : /\ Inserted(x, t.ents, i, text)
                         /\ \A j \in DOMAIN t.ents : j > i => t.ents[j].text.k = "blank"
  BY SetIs
<1>2. /\ Len(x) \in Nat /\ DOMAIN x = 1 .. Len(x)
      /\ k # 0 => Binds(x[k], c)
      /\ \A j \in DOMAIN x : j > k => ~Binds(x[j], c)
  BY LastsAre
<1> HIDE DEF t, x, k, text
<1>3. CASE k # 0
  <2>1. IsEntries(t.ents) /\ Len(t.ents) = Len(x) /\ \A j \in DOMAIN x : j # k => t.ents[j] = x[j]
    BY <1>1, <1>3 DEF Replaced
  <2>2. k \in DOMAIN x
    BY <1>1, <1>3 DEF Replaced
  <2>3. DOMAIN t.ents = DOMAIN x
    BY <1>2, <2>1, ListLen DEF IsEntries
  <2>4. \A j \in DOMAIN x : j > k => j # k
    BY <1>2, <2>2
  <2>5. \A j \in DOMAIN t.ents : j > k => ~Binds(t.ents[j], c)
    BY <1>2, <2>1, <2>3, <2>4
  <2> QED BY <1>1, <1>2, <1>3, <2>5 DEF Puts, t, x, text
<1>4. CASE k = 0
  <2>1. PICK i : /\ Inserted(x, t.ents, i, text)
                 /\ \A j \in DOMAIN t.ents : j > i => t.ents[j].text.k = "blank"
    BY <1>1, <1>4
  <2>2. \A j \in DOMAIN t.ents : j > i => ~Binds(t.ents[j], c)
    BY <2>1 DEF Binds
  <2>3. ~Replaced(x, t.ents, i, text)
    <3> DEFINE n == Len(x)
               m == Len(t.ents)
    <3>1. n \in Nat /\ m = n + 1
      BY <1>2, <2>1 DEF Inserted
    <3> HIDE DEF n, m
    <3>2. m # n
      BY <3>1
    <3> QED BY <3>2 DEF n, m, Replaced
  <2> QED BY <1>1, <2>1, <2>2, <2>3 DEF Puts, t, x, text
<1> QED BY <1>3, <1>4

\* ... and so is that of a chord, under the spelling its last line has.
LEMMA SetLastChord ==
  ASSUME NEW s, IsSection(s), IsEntries(s.ents), NEW c, is_chord_key(c), NEW v, NEW style, NEW x, x = Spelt(s, c)
  PROVE  LET t == set_or_add_binding(s, x, v, style)
         IN  /\ SameHead(s, t) /\ is_chord_key(x) /\ canonical_chord(x) = canonical_chord(c)
             /\ \E p : /\ Puts(s.ents, t.ents, p, BindText(x, v))
                       /\ Replaced(s.ents, t.ents, p, BindText(x, v)) => Binds(s.ents[p], x)
                       /\ \A j \in DOMAIN t.ents : j > p => ~SameChord(t.ents[j], c)
<1> DEFINE t == set_or_add_binding(s, x, v, style)
           y == s.ents
           k == ChordAt(s, c)
           m == BindingAt(s, x)
           text == BindText(x, v)
<1>1. /\ SameHead(s, t)
      /\ m # 0 => Replaced(y, t.ents, m, text)
      /\ m = 0 => \E i : /\ Inserted(y, t.ents, i, text)
                         /\ \A j \in DOMAIN t.ents : j > i => t.ents[j].text.k = "blank"
  BY SetIs
<1>2. /\ Len(y) \in Nat /\ DOMAIN y = 1 .. Len(y) /\ m \in 0 .. Len(y)
      /\ m # 0 => Binds(y[m], x)
      /\ \A j \in DOMAIN y : j > m => ~Binds(y[j], x)
  BY LastsAre
<1>3. /\ k \in 0 .. Len(y)
      /\ k # 0 => k \in DOMAIN y /\ SameChord(y[k], c)
      /\ \A j \in DOMAIN y : j > k => ~SameChord(y[j], c)
  BY ChordsHere
<1>4. x = IF k = 0 THEN c ELSE y[k].text.key
  BY DEF Spelt
<1> HIDE DEF t, y, k, m, text
<1>5. is_chord_key(x) /\ canonical_chord(x) = canonical_chord(c)
  BY <1>3, <1>4 DEF SameChord
<1>6. \A e : Binds(e, x) => SameChord(e, c)
  BY <1>5 DEF Binds, SameChord
<1>7. k # 0 => Binds(y[k], x)
  BY <1>3, <1>4 DEF Binds, SameChord
<1>8. m = k
  <2>1. m # 0 => m \in DOMAIN y /\ SameChord(y[m], c)
    BY <1>2, <1>6
  <2>2. ~(m # 0 /\ m > k)
    BY <1>3, <2>1
  <2>3. ~(k # 0 /\ k > m)
    BY <1>2, <1>3, <1>7
  <2> QED BY <1>2, <1>3, <2>2, <2>3
<1>9. CASE m # 0
  <2>1. IsEntries(t.ents) /\ Len(t.ents) = Len(y) /\ \A j \in DOMAIN y : j # m => t.ents[j] = y[j]
    BY <1>1, <1>9 DEF Replaced
  <2>2. m \in DOMAIN y
    BY <1>1, <1>9 DEF Replaced
  <2>3. DOMAIN t.ents = DOMAIN y
    BY <1>2, <2>1, ListLen DEF IsEntries
  <2>4. \A j \in DOMAIN y : j > m => j # m
    BY <1>2, <2>2
  <2>5. \A j \in DOMAIN t.ents : j > m => ~SameChord(t.ents[j], c)
    BY <1>3, <1>8, <2>1, <2>3, <2>4
  <2> QED BY <1>1, <1>2, <1>5, <1>9, <2>5 DEF Puts, t, y, text
<1>10. CASE m = 0
  <2>1. PICK i : /\ Inserted(y, t.ents, i, text)
                 /\ \A j \in DOMAIN t.ents : j > i => t.ents[j].text.k = "blank"
    BY <1>1, <1>10
  <2>2. \A j \in DOMAIN t.ents : j > i => ~SameChord(t.ents[j], c)
    BY <2>1 DEF SameChord
  <2>3. ~Replaced(y, t.ents, i, text)
    <3> DEFINE n == Len(y)
               q == Len(t.ents)
    <3>1. n \in Nat /\ q = n + 1
      BY <1>2, <2>1 DEF Inserted
    <3> HIDE DEF n, q
    <3>2. q # n
      BY <3>1
    <3> QED BY <3>2 DEF n, q, Replaced
  <2> QED BY <1>1, <1>5, <2>1, <2>2, <2>3 DEF Puts, t, y, text
<1> QED BY <1>9, <1>10

\* A value, or a chord, that is set is what keyd reads.
LEMMA BindingTakes ==
  ASSUME NEW d, IsDocument(d), NEW b, HasBoard(d, b), NEW c, NEW v, v # NoVal
  PROVE  KeydValue(set_layer_binding(d, b, c, v), b, c) = v
<1> DEFINE e == set_layer_binding(d, b, c, v)
           text == BindText(c, v)
           L == TextsOf(e) \union {text}
           C == ValuesOf(L, c)
<1>1. PICK base, i :
        /\ OnMain(d, base, i) /\ feeds_board(base.secs[i], b)
        /\ e = InSection(base, i, set_or_add_binding(base.secs[i], c, v, file_eol(d)))
        /\ \A j \in DOMAIN base.secs : j > i /\ feeds_board(base.secs[j], b)
                                         => get_binding(base.secs[j], c) = NoVal
  BY BindingWhere
<1> DEFINE s == base.secs[i]
           t == set_or_add_binding(s, c, v, file_eol(d))
           P == Boards(base, b)
<1>2. text \in C /\ text.val = v /\ \A u \in C : u.k = "bind" /\ u.key = c /\ u.val # NoVal
  BY DEF ValuesOf, BindText
<1> HIDE DEF L, C, text
<1>3. IsDocument(base) /\ IsDoc(base) /\ i \in DOMAIN base.secs /\ IsSection(s) /\ IsEntries(s.ents)
  BY <1>1 DEF OnMain, Target, IsDocument
<1> HIDE DEF t
<1>4. PICK p : /\ SameHead(s, t) /\ Puts(s.ents, t.ents, p, text)
               /\ \A j \in DOMAIN t.ents : j > p => ~Binds(t.ents[j], c)
  <2> HIDE DEF s
  <2> QED BY <1>3, SetLast DEF t, text
<1>5. \A j \in DOMAIN t.ents : j > p => t.ents[j].text \notin C
  BY <1>2, <1>4 DEF Binds
<1>6. \A j \in DOMAIN base.secs : j > i /\ j \in P =>
        \A k \in DOMAIN base.secs[j].ents : base.secs[j].ents[k].text \notin C
  <2> SUFFICES ASSUME NEW j \in DOMAIN base.secs, j > i, j \in P,
                      NEW k \in DOMAIN base.secs[j].ents
               PROVE  base.secs[j].ents[k].text \notin C
    OBVIOUS
  <2>1. get_binding(base.secs[j], c) = NoVal
    BY <1>1 DEF Boards
  <2>2. IsEntries(base.secs[j].ents)
    BY <1>3 DEF IsDocument
  <2>3. ~HasValue(base.secs[j].ents[k], c)
    BY <2>1, <2>2, ValuesHere
  <2> QED BY <1>2, <2>3 DEF HasValue, Binds
<1>7. i \in P
  BY <1>1, <1>3 DEF Boards
<1>8. e = InSection(base, i, t)
  BY <1>1 DEF t
<1> HIDE DEF e, P
<1>9. IsDocument(e) /\ SameHeads(base, e) /\ text \in TextsOf(e)
      /\ Final(Among(FlattenSeq(Rows(e, P)), C), text)
  BY <1>2, <1>3, <1>4, <1>5, <1>6, <1>7, <1>8, LandsLast
<1>10. P = Boards(e, b)
  BY <1>3, <1>9, SameBoards DEF P
<1>11. TextsOf(e) \subseteq L
  BY DEF L
<1>12. Final(Among(FlattenSeq(Rows(e, Boards(e, b))), ValuesOf(L, c)), text) => KeydValue(e, b, c) = text.val
  BY <1>9, <1>11, KeydIs
<1>13. Final(Among(FlattenSeq(Rows(e, Boards(e, b))), ValuesOf(L, c)), text)
  BY <1>9, <1>10 DEF C
<1>14. KeydValue(e, b, c) = v
  BY <1>2, <1>12, <1>13
<1> QED BY <1>14 DEF e

LEMMA ChordTakes ==
  ASSUME NEW d, IsDocument(d), NEW b, HasBoard(d, b), NEW c, is_chord_key(c), NEW v, v # NoVal
  PROVE  KeydChord(set_layer_chord(d, b, c, v), b, c) = v
<1>1. PICK base, i, x : ChordGoes(d, b, c, v, base, i, x)
  BY ChordWhere
<1> DEFINE e == set_layer_chord(d, b, c, v)
           s == base.secs[i]
           t == set_or_add_binding(s, x, v, file_eol(d))
           P == Boards(base, b)
           text == BindText(x, v)
           L == TextsOf(e) \union {text}
           C == ChordsOf(L, c)
<1>3. IsDocument(base) /\ IsDoc(base) /\ i \in DOMAIN base.secs /\ IsSection(s) /\ IsEntries(s.ents)
  BY <1>1 DEF ChordGoes, OnMain, Target, IsDocument
<1> HIDE DEF t
<1>4. PICK p : /\ SameHead(s, t) /\ is_chord_key(x) /\ canonical_chord(x) = canonical_chord(c)
               /\ Puts(s.ents, t.ents, p, text)
               /\ \A j \in DOMAIN t.ents : j > p => ~SameChord(t.ents[j], c)
  <2>1. x = Spelt(s, c)
    BY <1>1 DEF ChordGoes
  <2> HIDE DEF s, text
  <2> QED BY <1>3, <2>1, SetLastChord DEF t, text
<1>2. text \in C /\ text.val = v
      /\ \A u \in C : u.k = "bind" /\ is_chord_key(u.key) /\ canonical_chord(u.key) = canonical_chord(c)
  BY <1>4 DEF ChordsOf, Valued, BindText
<1> HIDE DEF L, C, text
<1>5. \A j \in DOMAIN t.ents : j > p => t.ents[j].text \notin C
  BY <1>2, <1>4 DEF SameChord
<1>6. \A j \in DOMAIN base.secs : j > i /\ j \in P =>
        \A k \in DOMAIN base.secs[j].ents : base.secs[j].ents[k].text \notin C
  <2> SUFFICES ASSUME NEW j \in DOMAIN base.secs, j > i, j \in P,
                      NEW k \in DOMAIN base.secs[j].ents
               PROVE  base.secs[j].ents[k].text \notin C
    OBVIOUS
  <2> DEFINE u == base.secs[j]
  <2>1. ChordAt(u, c) = 0
    BY <1>1 DEF ChordGoes, Boards
  <2>2. IsEntries(u.ents) /\ k \in DOMAIN u.ents
    BY <1>3 DEF IsDocument
  <2>4. ~SameChord(u.ents[k], c)
    <3> HIDE DEF u
    <3>1. DOMAIN u.ents = 1 .. Len(u.ents) /\ Len(u.ents) \in Nat
          /\ \A q \in DOMAIN u.ents : q > ChordAt(u, c) => ~SameChord(u.ents[q], c)
      BY <2>2, ChordsHere
    <3>2. k > 0
      BY <2>2, <3>1
    <3> QED BY <2>1, <2>2, <3>1, <3>2
  <2> QED BY <1>2, <2>4 DEF SameChord
<1>7. i \in P
  BY <1>1, <1>3 DEF ChordGoes, Boards
<1>8. e = InSection(base, i, t)
  BY <1>1 DEF ChordGoes, t
<1> HIDE DEF e, P
<1>9. IsDocument(e) /\ SameHeads(base, e) /\ text \in TextsOf(e)
      /\ Final(Among(FlattenSeq(Rows(e, P)), C), text)
  BY <1>2, <1>3, <1>4, <1>5, <1>6, <1>7, <1>8, LandsLast
<1>10. P = Boards(e, b)
  BY <1>3, <1>9, SameBoards DEF P
<1>11. TextsOf(e) \subseteq L
  BY DEF L
<1>12. Final(Among(FlattenSeq(Rows(e, Boards(e, b))), ChordsOf(L, c)), text) => KeydChord(e, b, c) = text.val
  BY <1>9, <1>11, KeydIs
<1>13. Final(Among(FlattenSeq(Rows(e, Boards(e, b))), ChordsOf(L, c)), text)
  BY <1>9, <1>10 DEF C
<1>14. KeydChord(e, b, c) = v
  BY <1>2, <1>12, <1>13
<1> QED BY <1>14 DEF e

\* A section without the lines outside D.
Lessened(s, D) ==
  LET kept == Among(s.ents, D) IN [s EXCEPT !.ents = kept, !.dirty = @ \/ kept # s.ents]

\* A section without some of its lines.
LEMMA LessenedIs ==
  ASSUME NEW s, IsSection(s), IsEntries(s.ents), NEW D
  PROVE  LET t == Lessened(s, D)
         IN  /\ SameHead(s, t) /\ IsEntries(t.ents)
             /\ \A j \in DOMAIN t.ents : t.ents[j] \in D
             /\ \A B : (\A j \in DOMAIN s.ents : s.ents[j] \in D \/ s.ents[j].text \notin B)
                         => Keeps(s.ents, t.ents, B)
<1> DEFINE x == s.ents
           kept == Among(x, D)
           y == s.dirty \/ kept # s.ents
           E == {x[i] : i \in DOMAIN x}
           t == Lessened(s, D)
<1>1. t.ents = kept /\ SameHead(s, t)
  <2>1. t = [s EXCEPT !.ents = kept, !.dirty = y]
    BY DEF Lessened
  <2> HIDE DEF kept, y, t
  <2> QED BY <2>1, SectionLess
<1>2. x \in Seq(E) /\ \A e \in E : IsEntry(e)
  BY EntriesSeq
<1>3. IsEntries(x)
  OBVIOUS
<1> HIDE DEF t, x, E
<1>4. kept \in Seq(E) /\ ToSet(kept) = ToSet(x) \intersect D
  BY <1>2, AmongIs
<1>5. \A j \in DOMAIN kept : kept[j] \in D
  <2> HIDE DEF kept
  <2>1. \A j \in DOMAIN kept : kept[j] \in ToSet(kept)
    BY <1>4 DEF ToSet
  <2> QED BY <1>4, <2>1
<1>6. IsEntries(kept)
  <2> HIDE DEF kept
  <2> QED BY <1>2, <1>4, SeqEntries
<1>7. ASSUME NEW B, \A j \in DOMAIN x : x[j] \in D \/ x[j].text \notin B
      PROVE  Keeps(x, kept, B)
  BY <1>3, <1>7, DropKeeps
<1>8. \A B : (\A j \in DOMAIN s.ents : s.ents[j] \in D \/ s.ents[j].text \notin B)
               => Keeps(s.ents, t.ents, B)
  BY <1>1, <1>7 DEF x
<1> QED BY <1>1, <1>5, <1>6, <1>8 DEF t

\* ... without a key's bindings, its labels, or a chord.
LEMMA DropIs ==
  ASSUME NEW s, IsSection(s), IsEntries(s.ents), NEW c
  PROVE  /\ LET t == remove_binding(s, c)
            IN  /\ SameHead(s, t) /\ IsEntries(t.ents)
                /\ \A j \in DOMAIN t.ents : ~Binds(t.ents[j], c)
                /\ \A B : (\A j \in DOMAIN s.ents : ~Binds(s.ents[j], c) \/ s.ents[j].text \notin B)
                            => Keeps(s.ents, t.ents, B)
         /\ LET t == SectionClearLabel(s, c)
            IN  /\ SameHead(s, t) /\ IsEntries(t.ents)
                /\ \A j \in DOMAIN t.ents : ~Labels(t.ents[j], c)
                /\ \A B : (\A j \in DOMAIN s.ents : ~Labels(s.ents[j], c) \/ s.ents[j].text \notin B)
                            => Keeps(s.ents, t.ents, B)
         /\ LET t == DropChord(s, c)
            IN  /\ SameHead(s, t) /\ IsEntries(t.ents)
                /\ \A j \in DOMAIN t.ents : ~SameChord(t.ents[j], c)
                /\ \A B : (\A j \in DOMAIN s.ents : ~SameChord(s.ents[j], c) \/ s.ents[j].text \notin B)
                            => Keeps(s.ents, t.ents, B)
<1> DEFINE V == {e \in ToSet(s.ents) : ~Binds(e, c)}
           L == {e \in ToSet(s.ents) : ~Labels(e, c)}
           C == {e \in ToSet(s.ents) : ~SameChord(e, c)}
<1>1. remove_binding(s, c) = Lessened(s, V)
  BY DEF remove_binding, DropLines, Lessened
<1>2. SectionClearLabel(s, c) = Lessened(s, L)
  BY DEF SectionClearLabel, DropLines, Lessened
<1>3. DropChord(s, c) = Lessened(s, C)
  BY DEF DropChord, DropLines, Lessened
<1>4. \A j \in DOMAIN s.ents : s.ents[j] \in ToSet(s.ents)
  <2>1. DOMAIN s.ents = 1 .. Len(s.ents)
    BY ListLen DEF IsEntries
  <2> QED BY <2>1 DEF ToSet
<1>5. /\ \A e \in V : ~Binds(e, c)
      /\ \A e \in L : ~Labels(e, c)
      /\ \A e \in C : ~SameChord(e, c)
      /\ \A j \in DOMAIN s.ents : /\ ~Binds(s.ents[j], c) => s.ents[j] \in V
                                  /\ ~Labels(s.ents[j], c) => s.ents[j] \in L
                                  /\ ~SameChord(s.ents[j], c) => s.ents[j] \in C
  BY <1>4
<1> HIDE DEF V, L, C
<1>6. LET t == Lessened(s, V)
      IN  /\ SameHead(s, t) /\ IsEntries(t.ents)
          /\ \A j \in DOMAIN t.ents : t.ents[j] \in V
          /\ \A B : (\A j \in DOMAIN s.ents : s.ents[j] \in V \/ s.ents[j].text \notin B)
                      => Keeps(s.ents, t.ents, B)
  BY LessenedIs
<1>7. LET t == Lessened(s, L)
      IN  /\ SameHead(s, t) /\ IsEntries(t.ents)
          /\ \A j \in DOMAIN t.ents : t.ents[j] \in L
          /\ \A B : (\A j \in DOMAIN s.ents : s.ents[j] \in L \/ s.ents[j].text \notin B)
                      => Keeps(s.ents, t.ents, B)
  BY LessenedIs
<1>8. LET t == Lessened(s, C)
      IN  /\ SameHead(s, t) /\ IsEntries(t.ents)
          /\ \A j \in DOMAIN t.ents : t.ents[j] \in C
          /\ \A B : (\A j \in DOMAIN s.ents : s.ents[j] \in C \/ s.ents[j].text \notin B)
                      => Keeps(s.ents, t.ents, B)
  BY LessenedIs
<1>9. LET t == remove_binding(s, c)
      IN  /\ SameHead(s, t) /\ IsEntries(t.ents)
          /\ \A j \in DOMAIN t.ents : ~Binds(t.ents[j], c)
          /\ \A B : (\A j \in DOMAIN s.ents : ~Binds(s.ents[j], c) \/ s.ents[j].text \notin B)
                      => Keeps(s.ents, t.ents, B)
  BY <1>1, <1>5, <1>6
<1>10. LET t == SectionClearLabel(s, c)
       IN  /\ SameHead(s, t) /\ IsEntries(t.ents)
           /\ \A j \in DOMAIN t.ents : ~Labels(t.ents[j], c)
           /\ \A B : (\A j \in DOMAIN s.ents : ~Labels(s.ents[j], c) \/ s.ents[j].text \notin B)
                       => Keeps(s.ents, t.ents, B)
  BY <1>2, <1>5, <1>7
<1>11. LET t == DropChord(s, c)
       IN  /\ SameHead(s, t) /\ IsEntries(t.ents)
           /\ \A j \in DOMAIN t.ents : ~SameChord(t.ents[j], c)
           /\ \A B : (\A j \in DOMAIN s.ents : ~SameChord(s.ents[j], c) \/ s.ents[j].text \notin B)
                       => Keeps(s.ents, t.ents, B)
  BY <1>3, <1>5, <1>8
<1> QED BY <1>9, <1>10, <1>11

\* The sections after a clear, one by one.
LEMMA ClearedSections ==
  ASSUME NEW d, IsDocument(d), NEW b, NEW c
  PROVE  /\ \A i \in DOMAIN d.secs :
              /\ clear_binding(d, b, c).secs[i]
                   = IF feeds_board(d.secs[i], b) THEN remove_binding(d.secs[i], c) ELSE d.secs[i]
              /\ clear_label(d, b, c).secs[i]
                   = IF feeds_board(d.secs[i], b) THEN SectionClearLabel(d.secs[i], c) ELSE d.secs[i]
              /\ remove_chord(d, b, c).secs[i]
                   = IF feeds_board(d.secs[i], b) THEN DropChord(d.secs[i], c) ELSE d.secs[i]
         /\ \A e \in {clear_binding(d, b, c), clear_label(d, b, c), remove_chord(d, b, c)} :
              IsDocument(e) /\ SameHeads(d, e) /\ DOMAIN e.secs = DOMAIN d.secs
<1> DEFINE x == [i \in DOMAIN d.secs |->
                   IF feeds_board(d.secs[i], b) THEN remove_binding(d.secs[i], c) ELSE d.secs[i]]
           y == [i \in DOMAIN d.secs |->
                   IF feeds_board(d.secs[i], b) THEN SectionClearLabel(d.secs[i], c) ELSE d.secs[i]]
           z == [i \in DOMAIN d.secs |->
                   IF feeds_board(d.secs[i], b) THEN DropChord(d.secs[i], c) ELSE d.secs[i]]
<1>1. /\ clear_binding(d, b, c) = [d EXCEPT !.secs = x]
      /\ clear_label(d, b, c) = [d EXCEPT !.secs = y]
      /\ remove_chord(d, b, c) = [d EXCEPT !.secs = z]
  BY DEF clear_binding, clear_label, remove_chord, OnBoard, DropChord
<1>2. IsDoc(d) /\ \A i \in DOMAIN d.secs : IsSection(d.secs[i]) /\ IsEntries(d.secs[i].ents)
  BY DEF IsDocument, IsDoc
<1>3. \A i \in DOMAIN d.secs : /\ x[i] = IF feeds_board(d.secs[i], b) THEN remove_binding(d.secs[i], c) ELSE d.secs[i]
                               /\ y[i] = IF feeds_board(d.secs[i], b) THEN SectionClearLabel(d.secs[i], c) ELSE d.secs[i]
                               /\ z[i] = IF feeds_board(d.secs[i], b) THEN DropChord(d.secs[i], c) ELSE d.secs[i]
  OBVIOUS
<1>4. DOMAIN x = DOMAIN d.secs /\ DOMAIN y = DOMAIN d.secs /\ DOMAIN z = DOMAIN d.secs
  OBVIOUS
<1>5. \A i \in DOMAIN d.secs : IsEntries(x[i].ents) /\ IsEntries(y[i].ents) /\ IsEntries(z[i].ents)
  <2> SUFFICES ASSUME NEW i \in DOMAIN d.secs
               PROVE  IsEntries(x[i].ents) /\ IsEntries(y[i].ents) /\ IsEntries(z[i].ents)
    OBVIOUS
  <2> DEFINE s == d.secs[i]
  <2>1. IsSection(s) /\ IsEntries(s.ents)
    BY <1>2
  <2> HIDE DEF s
  <2>2. IsEntries(remove_binding(s, c).ents) /\ IsEntries(SectionClearLabel(s, c).ents)
        /\ IsEntries(DropChord(s, c).ents)
    BY <2>1, DropIs
  <2> HIDE DEF x, y, z
  <2> QED BY <1>3, <2>1, <2>2 DEF s
<1> HIDE DEF x, y, z
<1>6. clear_binding(d, b, c).secs = x /\ clear_label(d, b, c).secs = y /\ remove_chord(d, b, c).secs = z
  BY <1>1, <1>2, DocExcept
<1>7. /\ SameHeads(d, clear_binding(d, b, c))
      /\ SameHeads(d, clear_label(d, b, c))
      /\ SameHeads(d, remove_chord(d, b, c))
  BY <1>2, OnBoardKeeps
<1>8. IsDocument(clear_binding(d, b, c)) /\ IsDocument(clear_label(d, b, c)) /\ IsDocument(remove_chord(d, b, c))
  BY <1>4, <1>5, <1>6, <1>7 DEF IsDocument, SameHeads
<1> QED BY <1>3, <1>4, <1>6, <1>7, <1>8

\* An option that is set is what keyd reads.
LEMMA OptionTakes ==
  ASSUME NEW d, Sound(d), NEW c, NEW v, v # NoVal
  PROVE  KeydOption(set_global_option(d, c, v), c) = v
<1> DEFINE e == set_global_option(d, c, v)
           n == PlainName(<<"global">>)
           text == BindText(c, v)
           L == TextsOf(e) \union {text}
           C == ValuesOf(L, c)
<1>0. IsDocument(d) /\ IsDoc(d)
  BY DEF Sound, IsDocument
<1>1. PICK base, i :
        /\ Target(d, n, "global", base, i)
        /\ base.secs[i].name = n
        /\ base = d \/ base.secs[i].kind = "global"
        /\ e = InSection(base, i, set_or_add_binding(base.secs[i], c, v, file_eol(d)))
        /\ \A j \in DOMAIN base.secs : j > i => base.secs[j].name # n
  <2> HIDE DEF n
  <2> QED BY <1>0, OptionWhere DEF n
<1> DEFINE s == base.secs[i]
           t == set_or_add_binding(s, c, v, file_eol(d))
           P == Globals(base)
<1>2. text \in C /\ text.val = v /\ \A u \in C : u.k = "bind" /\ u.key = c /\ u.val # NoVal
  BY DEF ValuesOf, BindText
<1>14. Fits(base)
  <2>1. CASE base = d
    BY <2>1 DEF Sound
  <2>2. CASE base = append_section(d, n, "global")
    <3>1. IsName(n)
      BY PlainIsName
    <3>2. Adds(d, base, n, "global")
      <4> HIDE DEF n
      <4> QED BY <1>0, <2>2, <3>1, AppendAdds
    <3> QED BY <3>2, GainsFits DEF Gains
  <2> QED BY <1>1, <2>1, <2>2 DEF Target
<1> HIDE DEF L, C, text
<1>3. IsDocument(base) /\ IsDoc(base) /\ i \in DOMAIN base.secs /\ IsSection(s) /\ IsEntries(s.ents)
  BY <1>1 DEF Target, IsDocument
<1>15. \A j \in DOMAIN base.secs : base.secs[j].name = n <=> base.secs[j].kind = "global"
  BY <1>14 DEF Fits, FitsName
<1> HIDE DEF t
<1>4. PICK p : /\ SameHead(s, t) /\ Puts(s.ents, t.ents, p, text)
               /\ \A j \in DOMAIN t.ents : j > p => ~Binds(t.ents[j], c)
  <2> HIDE DEF s
  <2> QED BY <1>3, SetLast DEF t, text
<1>5. \A j \in DOMAIN t.ents : j > p => t.ents[j].text \notin C
  BY <1>2, <1>4 DEF Binds
<1>8. e = InSection(base, i, t)
  BY <1>1 DEF t
<1>7. i \in P
  BY <1>1, <1>3, <1>15 DEF Globals
<1>6. \A j \in DOMAIN base.secs : ~(j > i /\ j \in P)
  BY <1>1, <1>15 DEF Globals
<1> HIDE DEF e, P, n
<1>9. IsDocument(e) /\ SameHeads(base, e) /\ text \in TextsOf(e)
      /\ Final(Among(FlattenSeq(Rows(e, P)), C), text)
  BY <1>2, <1>3, <1>4, <1>5, <1>6, <1>7, <1>8, LandsLast
<1>10. P = Globals(e)
  BY <1>3, <1>9, SameBoards DEF P
<1>11. TextsOf(e) \subseteq L
  BY DEF L
<1>12. Final(Among(FlattenSeq(Rows(e, Globals(e))), ValuesOf(L, c)), text) => KeydOption(e, c) = text.val
  BY <1>9, <1>11, KeydIs
<1>13. Final(Among(FlattenSeq(Rows(e, Globals(e))), ValuesOf(L, c)), text)
  BY <1>9, <1>10 DEF C
<1>16. KeydOption(e, c) = v
  BY <1>2, <1>12, <1>13
<1> QED BY <1>16 DEF e

\* Cleared, a key and a chord do nothing in keyd.
LEMMA ClearTakes ==
  ASSUME NEW d, IsDocument(d), NEW b, NEW c
  PROVE  /\ KeydValue(clear_binding(d, b, c), b, c) = NoVal
         /\ KeydChord(remove_chord(d, b, c), b, c) = NoVal
<1>1. IsDoc(d) /\ \A i \in DOMAIN d.secs : IsSection(d.secs[i]) /\ IsEntries(d.secs[i].ents)
  BY DEF IsDocument, IsDoc
<1>2. KeydValue(clear_binding(d, b, c), b, c) = NoVal
  <2> DEFINE e == clear_binding(d, b, c)
             L == TextsOf(e)
             C == ValuesOf(L, c)
  <2>1. IsDocument(e) /\ SameHeads(d, e) /\ DOMAIN e.secs = DOMAIN d.secs
    BY ClearedSections
  <2>2. \A i \in DOMAIN d.secs : e.secs[i] = IF feeds_board(d.secs[i], b) THEN remove_binding(d.secs[i], c) ELSE d.secs[i]
    BY ClearedSections
  <2> HIDE DEF e, L
  <2>3. \A j \in DOMAIN e.secs : j \in Boards(d, b) => Among(Texts(e.secs[j].ents), C) = <<>>
    <3> SUFFICES ASSUME NEW j \in DOMAIN e.secs, j \in Boards(d, b)
                 PROVE  Among(Texts(e.secs[j].ents), C) = <<>>
      OBVIOUS
    <3>1. e.secs[j] = remove_binding(d.secs[j], c) /\ IsSection(d.secs[j]) /\ IsEntries(d.secs[j].ents)
      BY <1>1, <2>1, <2>2 DEF Boards
    <3>2. IsEntries(e.secs[j].ents) /\ \A k \in DOMAIN e.secs[j].ents : ~Binds(e.secs[j].ents[k], c)
      BY <3>1, DropIs
    <3>3. \A u \in C : u.k = "bind" /\ u.key = c
      BY DEF ValuesOf
    <3>4. \A k \in DOMAIN e.secs[j].ents : e.secs[j].ents[k].text \notin C
      BY <3>2, <3>3 DEF Binds
    <3> HIDE DEF C
    <3> QED BY <3>2, <3>4, NoneAmong
  <2> HIDE DEF C
  <2>4. Among(FlattenSeq(Rows(e, Boards(d, b))), C) = <<>>
    BY <2>1, <2>3, NoneInForce
  <2>5. Boards(e, b) = Boards(d, b)
    BY <1>1, <2>1, SameBoards
  <2>6. Among(FlattenSeq(Rows(e, Boards(e, b))), ValuesOf(L, c)) = <<>>
    BY <2>4, <2>5 DEF C
  <2> QED BY <2>1, <2>6, KeydIs DEF L, e
<1>3. KeydChord(remove_chord(d, b, c), b, c) = NoVal
  <2> DEFINE e == remove_chord(d, b, c)
             L == TextsOf(e)
             C == ChordsOf(L, c)
  <2>1. IsDocument(e) /\ SameHeads(d, e) /\ DOMAIN e.secs = DOMAIN d.secs
    BY ClearedSections
  <2>2. \A i \in DOMAIN d.secs : e.secs[i] = IF feeds_board(d.secs[i], b) THEN DropChord(d.secs[i], c) ELSE d.secs[i]
    BY ClearedSections
  <2> HIDE DEF e, L
  <2>3. \A j \in DOMAIN e.secs : j \in Boards(d, b) => Among(Texts(e.secs[j].ents), C) = <<>>
    <3> SUFFICES ASSUME NEW j \in DOMAIN e.secs, j \in Boards(d, b)
                 PROVE  Among(Texts(e.secs[j].ents), C) = <<>>
      OBVIOUS
    <3>1. e.secs[j] = DropChord(d.secs[j], c) /\ IsSection(d.secs[j]) /\ IsEntries(d.secs[j].ents)
      BY <1>1, <2>1, <2>2 DEF Boards
    <3>2. IsEntries(e.secs[j].ents) /\ \A k \in DOMAIN e.secs[j].ents : ~SameChord(e.secs[j].ents[k], c)
      BY <3>1, DropIs
    <3>3. \A u \in C : u.k = "bind" /\ is_chord_key(u.key) /\ canonical_chord(u.key) = canonical_chord(c)
      BY DEF ChordsOf, Valued
    <3>4. \A k \in DOMAIN e.secs[j].ents : e.secs[j].ents[k].text \notin C
      BY <3>2, <3>3 DEF SameChord
    <3> HIDE DEF C
    <3> QED BY <3>2, <3>4, NoneAmong
  <2> HIDE DEF C
  <2>4. Among(FlattenSeq(Rows(e, Boards(d, b))), C) = <<>>
    BY <2>1, <2>3, NoneInForce
  <2>5. Boards(e, b) = Boards(d, b)
    BY <1>1, <2>1, SameBoards
  <2>6. Among(FlattenSeq(Rows(e, Boards(e, b))), ChordsOf(L, c)) = <<>>
    BY <2>4, <2>5 DEF C
  <2> QED BY <2>1, <2>6, KeydIs DEF L, e
<1> QED BY <1>2, <1>3

\* An option that is cleared keyd does not read, where only one [global] has options.
LEMMA UnglobalTakes ==
  ASSUME NEW d, Sound(d), NEW c, Cardinality(Globals(d)) <= 1
  PROVE  KeydOption(clear_global(d, c), c) = NoVal
<1> DEFINE n == PlainName(<<"global">>)
           I == {j \in 1 .. Len(d.secs) : d.secs[j].name = n}
           i == IF I # {} THEN Min(I) ELSE 0
           e == clear_global(d, c)
           L == TextsOf(e)
           C == ValuesOf(L, c)
<1>1. IsDocument(d) /\ IsDoc(d) /\ Fits(d) /\ DOMAIN d.secs = 1 .. Len(d.secs) /\ Len(d.secs) \in Nat
  BY DocDomain DEF Sound, IsDocument
<1>2. e = IF i = 0 THEN d ELSE InSection(d, i, remove_binding(d.secs[i], c))
  BY DEF clear_global, SelectInSeq
<1>3. I = Globals(d)
  <2>1. \A j \in DOMAIN d.secs : d.secs[j].name = n <=> d.secs[j].kind = "global"
    BY <1>1 DEF Fits, FitsName
  <2> HIDE DEF n
  <2> QED BY <1>1, <2>1 DEF Globals
<1>4. IsDocument(e) /\ SameHeads(d, e)
  <2>1. Sound(e)
    BY OptionSound
  <2>2. SameHeads(d, e)
    BY <1>1, OptionHeads
  <2> QED BY <2>1, <2>2 DEF Sound
<1>5. Globals(e) = Globals(d) /\ DOMAIN e.secs = DOMAIN d.secs
  <2>1. DOMAIN e.secs = 1 .. Len(e.secs) /\ Len(e.secs) = Len(d.secs)
    BY <1>4, DocDomain DEF SameHeads
  <2> QED BY <1>1, <1>4, <2>1, SameBoards
<1>6. Globals(d) = {} \/ \E j : Globals(d) = {j}
  <2>1. IsFiniteSet(1 .. Len(d.secs))
    BY <1>1, FS_Interval
  <2>2. IsFiniteSet(Globals(d))
    BY <1>1, <2>1, FS_Subset DEF Globals
  <2>3. Cardinality(Globals(d)) \in Nat
    BY <2>2, FS_CardinalityType
  <2>4. Cardinality(Globals(d)) = 0 \/ Cardinality(Globals(d)) = 1
    BY <2>3
  <2> QED BY <2>2, <2>4, FS_EmptySet, FS_Singleton
<1>7. I # {} => i \in I
  <2>1. I \in SUBSET Nat
    BY <1>1
  <2> HIDE DEF I
  <2> QED BY <2>1, MinIs
<1> HIDE DEF I, e
<1>8. \A j \in DOMAIN e.secs : j \in Globals(d) => Among(Texts(e.secs[j].ents), C) = <<>>
  <2> SUFFICES ASSUME NEW j \in DOMAIN e.secs, j \in Globals(d)
               PROVE  Among(Texts(e.secs[j].ents), C) = <<>>
    OBVIOUS
  <2>1. i = j /\ j \in DOMAIN d.secs
    BY <1>3, <1>5, <1>6, <1>7
  <2>2. j # 0
    BY <1>1, <2>1
  <2>3. e = InSection(d, j, remove_binding(d.secs[j], c))
    BY <1>2, <2>1, <2>2
  <2>4. e.secs[j] = remove_binding(d.secs[j], c)
    <3> DEFINE r == remove_binding(d.secs[j], c)
               x == [d.secs EXCEPT ![j] = r]
    <3> HIDE DEF r
    <3>1. e = [d EXCEPT !.secs = x]
      BY <2>3 DEF InSection, r
    <3> HIDE DEF x
    <3>2. e.secs = x
      BY <1>1, <3>1, DocExcept
    <3>3. x[j] = r
      BY <2>1 DEF x
    <3> QED BY <3>2, <3>3 DEF r
  <2>5. IsSection(d.secs[j]) /\ IsEntries(d.secs[j].ents)
    BY <1>1, <2>1 DEF IsDocument, IsDoc
  <2>6. IsEntries(e.secs[j].ents) /\ \A k \in DOMAIN e.secs[j].ents : ~Binds(e.secs[j].ents[k], c)
    BY <2>4, <2>5, DropIs
  <2>7. \A u \in C : u.k = "bind" /\ u.key = c
    BY DEF ValuesOf
  <2>8. \A k \in DOMAIN e.secs[j].ents : e.secs[j].ents[k].text \notin C
    BY <2>6, <2>7 DEF Binds
  <2> HIDE DEF C
  <2> QED BY <2>6, <2>8, NoneAmong
<1> HIDE DEF C, L
<1>9. Among(FlattenSeq(Rows(e, Globals(d))), C) = <<>>
  BY <1>4, <1>8, NoneInForce
<1>10. Among(FlattenSeq(Rows(e, Globals(e))), ValuesOf(L, c)) = <<>>
  BY <1>5, <1>9 DEF C
<1> QED BY <1>4, <1>10, KeydIs DEF L, e

\* The label shown for a key is the last of the lines that give it one.
LabelsOn(L, c) == {t \in Labelled(L) : t.key = c}
LabelSecs(d, b) == IF b = Main THEN KindSecs(d, "main") ELSE LayerSecs(d, b)
\* The label shown is the last of the sections that label the board.
LEMMA LabelIsLast ==
  ASSUME NEW d, IsDocument(d), NEW L, TextsOf(d) \subseteq L, NEW b, NEW c
  PROVE  /\ Among(FlattenSeq(Rows(d, LabelSecs(d, b))), LabelsOn(L, c)) = <<>>
              => label_for(LabelsOf(d, b), c) = ""
         /\ \A t : Final(Among(FlattenSeq(Rows(d, LabelSecs(d, b))), LabelsOn(L, c)), t)
              => label_for(LabelsOf(d, b), c) = t.text
<1> DEFINE x == FlattenSeq(Rows(d, LabelSecs(d, b)))
           V == Labelled(L)
           s == LabelsOf(d, b)
<1>1. s = section_labels(x)
  BY DEF LabelsOf, LabelSecs
<1>3. x \in Seq(L)
  <2>1. Rows(d, LabelSecs(d, b)) \in Seq(Seq(L))
    BY RowsAre
  <2> QED BY <2>1, FlattenHas
<1> HIDE DEF x
<1>4. s = Among(x, V)
  BY <1>1, <1>3, SelectionsAre
<1>5. ToSet(s) \subseteq V /\ s \in Seq(L)
  BY <1>3, <1>4, AmongIs
<1> HIDE DEF s
<1>6. \A i \in 1 .. Len(s) : s[i] \in V
  BY <1>5 DEF ToSet
<1>7. (\A t \in V : t \in LabelsOn(L, c) <=> t.key = c) /\ LabelsOn(L, c) \subseteq V
  BY DEF LabelsOn
<1> HIDE DEF V
<1> DEFINE I == {i \in 1 .. Len(s) : s[i].key = c}
           k == IF I # {} THEN Max(I) ELSE 0
<1>8. label_for(s, c) = IF k = 0 THEN "" ELSE s[k].text
  BY DEF label_for, SelectLastInSeq
<1>9. I = {i \in 1 .. Len(s) : s[i] \in LabelsOn(L, c)}
  BY <1>6, <1>7
<1>10. Among(s, LabelsOn(L, c)) = Among(x, LabelsOn(L, c))
  BY <1>3, <1>4, <1>7, AmongTwice
<1> HIDE DEF I
<1>11. /\ Among(s, LabelsOn(L, c)) = <<>> => k = 0
       /\ \A t : Final(Among(s, LabelsOn(L, c)), t) => k # 0 /\ s[k] = t
  BY <1>5, <1>9, PickIndex
<1> HIDE DEF k
<1> QED BY <1>8, <1>10, <1>11 DEF x, s

\* The sections a board's labels are found in are those that feed it.
LEMMA LabelsFed ==
  ASSUME NEW d, Fits(d), NEW b
  PROVE  /\ LabelSecs(d, b) \subseteq Boards(d, b)
         /\ ~NamedMain(d) => LabelSecs(d, b) = Boards(d, b)
<1>1. \A i \in DOMAIN d.secs : d.secs[i].kind = "main" => d.secs[i].name.parts = Main
  BY DEF Fits, FitsName
<1>2. CASE b = Main
  <2>1. KindSecs(d, "main") \subseteq Boards(d, Main)
    BY <1>1 DEF KindSecs, Boards, feeds_board, is_board, BoardKinds
  <2>2. ~NamedMain(d) => Boards(d, Main) \subseteq KindSecs(d, "main")
    BY DEF KindSecs, Boards, NamedMain
  <2> QED BY <1>2, <2>1, <2>2 DEF LabelSecs
<1>3. CASE b # Main
  BY <1>1, <1>3 DEF LabelSecs, LayerSecs, Boards, feeds_board, is_board, BoardKinds
<1> QED BY <1>2, <1>3

\* An edit of a key leaves the layers named main as they were: none.
LEMMA MainNamed ==
  ASSUME NEW d, IsDoc(d), ~NamedMain(d), NEW e
  PROVE  /\ SameHeads(d, e) => ~NamedMain(e)
         /\ \A n : Adds(d, e, n, "main") => ~NamedMain(e)
<1>0. Len(d.secs) \in Nat /\ DOMAIN d.secs = 1 .. Len(d.secs)
  BY DocDomain
<1>1. ASSUME SameHeads(d, e) PROVE ~NamedMain(e)
  <2>1. DOMAIN e.secs = 1 .. Len(e.secs) /\ Len(e.secs) = Len(d.secs)
    BY <1>1, DocDomain DEF SameHeads
  <2>2. \A i \in DOMAIN e.secs : e.secs[i].kind = d.secs[i].kind /\ e.secs[i].name = d.secs[i].name
    BY <1>0, <1>1, <2>1 DEF SameHeads, SameHead
  <2> QED BY <1>0, <2>1, <2>2 DEF NamedMain, feeds_board
<1>2. ASSUME NEW n, Adds(d, e, n, "main") PROVE ~NamedMain(e)
  <2>1. DOMAIN e.secs = 1 .. Len(e.secs) /\ Len(e.secs) = Len(d.secs) + 1
    BY <1>2, DocDomain DEF Adds
  <2>2. \A i \in DOMAIN d.secs : e.secs[i].kind = d.secs[i].kind /\ e.secs[i].name = d.secs[i].name
    BY <1>0, <1>2 DEF Adds, SameHead
  <2>3. e.secs[Len(e.secs)].kind = "main"
    BY <1>2 DEF Adds
  <2>4. \A i \in DOMAIN e.secs : i \in DOMAIN d.secs \/ i = Len(e.secs)
    BY <1>0, <2>1
  <2> QED BY <2>2, <2>3, <2>4 DEF NamedMain, feeds_board
<1> QED BY <1>1, <1>2

\* The label typed for a key is the one its cap shows.
LEMMA LabelTakes ==
  ASSUME NEW d, Sound(d), NEW b, HasBoard(d, b), ~NamedMain(d), NEW c, NEW t
  PROVE  current_label(set_label(d, b, c, t), b, c) = t
<1> DEFINE e == set_label(d, b, c, t)
           text == LabelText(c, t)
           L == TextsOf(e) \union {text}
           C == LabelsOn(L, c)
<1>0. IsDocument(d) /\ IsDoc(d) /\ Fits(d)
  BY DEF Sound, IsDocument
<1>1. PICK base, i :
        /\ OnMain(d, base, i) /\ feeds_board(base.secs[i], b)
        /\ e = InSection(base, i, SectionSetLabel(base.secs[i], c, t, file_eol(d)))
        /\ \A j \in DOMAIN base.secs : j > i /\ feeds_board(base.secs[j], b)
                                         => label_index(base.secs[j], c) = 0
  BY <1>0, LabelWhere
<1> DEFINE s == base.secs[i]
           u == SectionSetLabel(s, c, t, file_eol(d))
           P == Boards(base, b)
<1>2. text \in C /\ text.text = t /\ \A x \in C : x.k = "label" /\ x.key = c
  BY DEF LabelsOn, Labelled, LabelText
<1>3. IsDocument(base) /\ IsDoc(base) /\ i \in DOMAIN base.secs /\ IsSection(s) /\ IsEntries(s.ents)
  BY <1>1 DEF OnMain, Target, IsDocument
<1>14. Fits(base) /\ ~NamedMain(base)
  <2>1. CASE base = d
    BY <1>0, <2>1
  <2>2. CASE base = append_section(d, PlainName(Main), "main")
    <3>1. Adds(d, base, PlainName(Main), "main")
      BY <1>0, <2>2, AppendAdds, PlainIsName
    <3>2. Fits(base)
      BY <3>1, GainsFits DEF Gains
    <3> QED BY <1>0, <3>1, <3>2, MainNamed
  <2> QED BY <1>1, <2>1, <2>2 DEF OnMain, Target
<1> HIDE DEF L, C, text
<1> HIDE DEF u
<1>4. PICK p : /\ SameHead(s, u) /\ Puts(s.ents, u.ents, p, text)
               /\ \A j \in DOMAIN u.ents : j > p => ~Labels(u.ents[j], c)
  <2> HIDE DEF s
  <2> QED BY <1>3, LabelIs DEF u, text
<1>5. \A j \in DOMAIN u.ents : j > p => u.ents[j].text \notin C
  BY <1>2, <1>4 DEF Labels
<1>6. \A j \in DOMAIN base.secs : j > i /\ j \in P =>
        \A k \in DOMAIN base.secs[j].ents : base.secs[j].ents[k].text \notin C
  <2> SUFFICES ASSUME NEW j \in DOMAIN base.secs, j > i, j \in P,
                      NEW k \in DOMAIN base.secs[j].ents
               PROVE  base.secs[j].ents[k].text \notin C
    OBVIOUS
  <2> DEFINE v == base.secs[j]
  <2>1. label_index(v, c) = 0
    BY <1>1 DEF Boards
  <2>2. IsEntries(v.ents) /\ k \in DOMAIN v.ents
    BY <1>3 DEF IsDocument
  <2>3. ~Labels(v.ents[k], c)
    <3> HIDE DEF v
    <3>1. DOMAIN v.ents = 1 .. Len(v.ents) /\ Len(v.ents) \in Nat
          /\ \A q \in DOMAIN v.ents : q > label_index(v, c) => ~Labels(v.ents[q], c)
      BY <2>2, LastsAre
    <3>2. k > 0
      BY <2>2, <3>1
    <3> QED BY <2>1, <2>2, <3>1, <3>2
  <2> QED BY <1>2, <2>3 DEF Labels
<1>7. i \in P
  BY <1>1, <1>3 DEF Boards
<1>8. e = InSection(base, i, u)
  BY <1>1 DEF u
<1> HIDE DEF e, P
<1>9. IsDocument(e) /\ SameHeads(base, e) /\ text \in TextsOf(e)
      /\ Final(Among(FlattenSeq(Rows(e, P)), C), text)
  BY <1>2, <1>3, <1>4, <1>5, <1>6, <1>7, <1>8, LandsLast
<1>10. P = Boards(e, b)
  BY <1>3, <1>9, SameBoards DEF P
<1>11. TextsOf(e) \subseteq L
  BY DEF L
<1>12. LabelSecs(e, b) = Boards(e, b)
  <2>1. Fits(e)
    BY <1>3, <1>9, <1>14, FitsSame
  <2>2. ~NamedMain(e)
    BY <1>3, <1>9, <1>14, MainNamed
  <2> QED BY <2>1, <2>2, LabelsFed
<1>13. Final(Among(FlattenSeq(Rows(e, LabelSecs(e, b))), LabelsOn(L, c)), text)
  BY <1>9, <1>10, <1>12 DEF C
<1>15. label_for(LabelsOf(e, b), c) = t
  <2>1. IsDocument(e)
    BY <1>9
  <2>2. Final(Among(FlattenSeq(Rows(e, LabelSecs(e, b))), LabelsOn(L, c)), text)
          => label_for(LabelsOf(e, b), c) = text.text
    BY <1>11, <2>1, LabelIsLast
  <2> QED BY <1>2, <1>13, <2>2
<1>16. b = Main \/ b \in ToSet(LayerNames(e))
  <2> SUFFICES ASSUME b # Main PROVE b \in ToSet(LayerNames(e))
    OBVIOUS
  <2>1. LayerSecs(e, b) # {}
    BY <1>7, <1>10, <1>12 DEF LabelSecs
  <2>2. IsList(e.secs)
    BY <1>9 DEF IsDocument, IsDoc
  <2>3. ToSet(LayerNames(e)) = {e.secs[k].name.parts : k \in {j \in DOMAIN e.secs : e.secs[j].kind \in {"layer", "composite"}}}
    BY <2>2, OnceNamesIs DEF LayerNames
  <2> QED BY <2>1, <2>3 DEF LayerSecs
<1>17. current_label(e, b, c) = t
  BY <1>9, <1>15, <1>16, LabelsAre
<1> QED BY <1>17 DEF e

\* Cleared, none is left to show.
LEMMA UnlabelTakes ==
  ASSUME NEW d, Sound(d), NEW b, NEW c
  PROVE  current_label(clear_label(d, b, c), b, c) = ""
<1> DEFINE e == clear_label(d, b, c)
           L == TextsOf(e)
           C == LabelsOn(L, c)
<1>0. IsDocument(d) /\ IsDoc(d) /\ Fits(d)
  BY DEF Sound, IsDocument
<1>1. IsDocument(e) /\ SameHeads(d, e) /\ DOMAIN e.secs = DOMAIN d.secs
  BY <1>0, ClearedSections
<1>2. \A i \in DOMAIN d.secs : e.secs[i] = IF feeds_board(d.secs[i], b) THEN SectionClearLabel(d.secs[i], c) ELSE d.secs[i]
  BY <1>0, ClearedSections
<1> HIDE DEF e, L
<1>3. LabelSecs(e, b) \subseteq Boards(d, b)
  <2>1. Fits(e)
    BY <1>0, <1>1, FitsSame
  <2>2. Boards(e, b) = Boards(d, b)
    BY <1>0, <1>1, SameBoards
  <2> QED BY <2>1, <2>2, LabelsFed
<1>4. \A j \in DOMAIN e.secs : j \in LabelSecs(e, b) => Among(Texts(e.secs[j].ents), C) = <<>>
  <2> SUFFICES ASSUME NEW j \in DOMAIN e.secs, j \in LabelSecs(e, b)
               PROVE  Among(Texts(e.secs[j].ents), C) = <<>>
    OBVIOUS
  <2>1. e.secs[j] = SectionClearLabel(d.secs[j], c) /\ IsSection(d.secs[j]) /\ IsEntries(d.secs[j].ents)
    BY <1>0, <1>1, <1>2, <1>3 DEF Boards, IsDocument, IsDoc
  <2>2. IsEntries(e.secs[j].ents) /\ \A k \in DOMAIN e.secs[j].ents : ~Labels(e.secs[j].ents[k], c)
    BY <2>1, DropIs
  <2>3. \A u \in C : u.k = "label" /\ u.key = c
    BY DEF LabelsOn, Labelled
  <2>4. \A k \in DOMAIN e.secs[j].ents : e.secs[j].ents[k].text \notin C
    BY <2>2, <2>3 DEF Labels
  <2> HIDE DEF C
  <2> QED BY <2>2, <2>4, NoneAmong
<1> HIDE DEF C
<1>5. Among(FlattenSeq(Rows(e, LabelSecs(e, b))), C) = <<>>
  BY <1>1, <1>4, NoneInForce
<1>6. label_for(LabelsOf(e, b), c) = ""
  BY <1>1, <1>5, LabelIsLast DEF C, L
<1>7. current_label(e, b, c) = ""
  BY <1>1, <1>6, LabelsAre
<1> QED BY <1>7 DEF e

\* What is noted of an operation.
LEMMA DidFields ==
  ASSUME NEW op, NEW b, NEW c, NEW v
  PROVE  LET r == Did(op, b, c, v) IN r.op = op /\ r.board = b /\ r.key = c /\ r.val = v
BY DEF Did

\* What the panel composes is a value.
LEMMA ComposedValue ==
  /\ \A n : \A kind \in Kinds : Call(kind, <<Atom(n)>>) # NoVal
  /\ \A v, k, n, tap : \A feel \in Feels : TapHoldValue(ComposeTapHold(ParseTapHold(k, v), n, tap, feel)) # NoVal
  /\ \A m : MacroValue(m.tokens, m.repeat) # NoVal
<1>1. \A f, a : f # "valueless" => Call(f, a) # NoVal
  BY DEF Call, NoVal
<1>2. \A kind \in Kinds : kind # "valueless"
  BY SessionAssumption DEF LayerKinds
<1>3. ASSUME NEW v, NEW k, NEW n, NEW tap, NEW feel \in Feels
      PROVE  TapHoldValue(ComposeTapHold(ParseTapHold(k, v), n, tap, feel)) # NoVal
  <2> DEFINE prev == ParseTapHold(k, v)
             th == ComposeTapHold(prev, n, tap, feel)
  <2>1. prev # NoTapHold => prev.fn \in TapHoldFns
    BY DEF ParseTapHold
  <2>2. FeelFn["responsive"] = "overloadt2" /\ FeelFn["typing"] = "lettermod"
    BY DEF FeelFn
  <2> DEFINE keep  == prev # NoTapHold /\ feel \in {"", behavior(prev.fn)}
             taken == IF feel = "" THEN "responsive" ELSE feel
  <2>3. th.fn = IF keep THEN prev.fn ELSE FeelFn[taken]
    BY DEF ComposeTapHold
  <2>4. taken \in {"responsive", "typing"}
    BY SessionAssumption
  <2> HIDE DEF taken
  <2>5. keep => prev # NoTapHold
    OBVIOUS
  <2> HIDE DEF keep, prev, th
  <2>6. th.fn \in {"overloadt2", "lettermod"} \union TapHoldFns
    BY <2>1, <2>2, <2>3, <2>4, <2>5
  <2>7. th.fn # "valueless"
    BY <2>6 DEF TapHoldFns
  <2>8. TapHoldValue(th) # NoVal
    BY <1>1, <2>7 DEF TapHoldValue
  <2> QED BY <2>8 DEF th, prev
<1>4. ASSUME NEW m PROVE MacroValue(m.tokens, m.repeat) # NoVal
  BY <1>1 DEF MacroValue
<1> QED BY <1>1, <1>2, <1>3, <1>4

\* No value offered is none.
LEMMA ValueTyped == \A v \in Values : v # NoVal
BY SessionAssumption

\* Each mutator, with the value it writes.
LEMMA SetsTake ==
  ASSUME Sound(edit)
  PROVE  /\ \A b, c : \A v \in Values : SetBinding(b, c, v) => EditTakesEffect /\ LabelShows
         /\ \A b, k, n : \A kind \in Kinds : SetLayerAction(b, k, kind, n) => EditTakesEffect /\ LabelShows
         /\ \A b, k, n, tap : \A feel \in Feels : SetTapHold(b, k, n, tap, feel) => EditTakesEffect /\ LabelShows
         /\ \A b, k : \A m \in Writable : SetMacro(b, k, Built[m]) => EditTakesEffect /\ LabelShows
         /\ \A b, c : ClearBinding(b, c) => EditTakesEffect /\ LabelShows
<1>0. IsDocument(edit)
  BY DEF Sound
<1>1. ASSUME NEW op \in {"set", "taphold", "macro"}, NEW b, HasBoard(edit, b), NEW c, NEW v, v # NoVal,
             Mutates(Did(op, b, c, v), set_layer_binding(edit, b, c, v))
      PROVE  EditTakesEffect /\ LabelShows
  <2>1. KeydValue(set_layer_binding(edit, b, c, v), b, c) = v
    BY <1>0, <1>1, BindingTakes
  <2>2. edit' = set_layer_binding(edit, b, c, v) /\ last' = Did(op, b, c, v)
    BY <1>1 DEF Mutates
  <2>3. last'.op = op /\ last'.board = b /\ last'.key = c /\ last'.val = v
    BY <2>2, DidFields
  <2> QED BY <2>1, <2>2, <2>3 DEF EditTakesEffect, LabelShows
<1>2. ASSUME NEW b, NEW c, NEW v \in Values, SetBinding(b, c, v) PROVE EditTakesEffect /\ LabelShows
  BY <1>1, <1>2, ValueTyped DEF SetBinding
<1>3. ASSUME NEW b, NEW k, NEW n, NEW kind \in Kinds, SetLayerAction(b, k, kind, n) PROVE EditTakesEffect /\ LabelShows
  BY <1>1, <1>3, ComposedValue DEF SetLayerAction
<1>4. ASSUME NEW b, NEW k, NEW n, NEW tap, NEW feel \in Feels, SetTapHold(b, k, n, tap, feel)
      PROVE  EditTakesEffect /\ LabelShows
  <2> DEFINE v == TapHoldValue(ComposeTapHold(current_tap_hold(edit, b, k), n, tap, feel))
  <2>1. v # NoVal
    BY ComposedValue DEF current_tap_hold
  <2>2. HasBoard(edit, b) /\ Mutates(Did("taphold", b, <<k>>, v), set_layer_binding(edit, b, <<k>>, v))
    BY <1>4 DEF SetTapHold
  <2> HIDE DEF v
  <2> QED BY <1>1, <2>1, <2>2
<1>5. ASSUME NEW b, NEW k, NEW m \in Writable, SetMacro(b, k, Built[m]) PROVE EditTakesEffect /\ LabelShows
  <2>1. Built[m] # NoVal
    BY ComposedValue DEF Built, Writable
  <2> QED BY <1>1, <1>5, <2>1 DEF SetMacro
<1>6. ASSUME NEW b, NEW c, ClearBinding(b, c) PROVE EditTakesEffect /\ LabelShows
  <2>1. KeydValue(clear_binding(edit, b, c), b, c) = NoVal
    BY <1>0, ClearTakes
  <2>2. edit' = clear_binding(edit, b, c) /\ last' = Did("clear", b, c, NoVal)
    BY <1>6 DEF ClearBinding, Mutates
  <2>3. last'.op = "clear" /\ last'.board = b /\ last'.key = c /\ last'.val = NoVal
    BY <2>2, DidFields
  <2> QED BY <2>1, <2>2, <2>3 DEF EditTakesEffect, LabelShows
<1> QED BY <1>2, <1>3, <1>4, <1>5, <1>6

\* ... and so do the others: labels, chords and options.
LEMMA OthersTake ==
  ASSUME Sound(edit)
  PROVE  /\ \A b, c, t : SetLabel(b, c, t) => EditTakesEffect /\ LabelShows
         /\ \A b, c : ClearLabel(b, c) => EditTakesEffect /\ LabelShows
         /\ \A b, c : \A v \in Values : SetChord(b, c, v) => EditTakesEffect /\ LabelShows
         /\ \A b, c : RemoveChord(b, c) => EditTakesEffect /\ LabelShows
         /\ \A o : \A v \in Values : SetGlobal(o, v) => EditTakesEffect /\ LabelShows
         /\ \A o : ClearGlobal(o) => EditTakesEffect /\ LabelShows
<1>0. IsDocument(edit)
  BY DEF Sound
<1>1. ASSUME NEW b, NEW c, NEW t, SetLabel(b, c, t) PROVE EditTakesEffect /\ LabelShows
  <2>1. ~NamedMain(edit) => current_label(set_label(edit, b, c, t), b, c) = t
    BY <1>1, LabelTakes DEF SetLabel
  <2>2. edit' = set_label(edit, b, c, t) /\ last' = Did("label", b, c, Custom(t))
    BY <1>1 DEF SetLabel, Mutates
  <2>3. last'.op = "label" /\ last'.board = b /\ last'.key = c /\ last'.val = Custom(t)
    BY <2>2, DidFields
  <2>4. Custom(t).name = t
    BY DEF Custom
  <2> QED BY <2>1, <2>2, <2>3, <2>4 DEF EditTakesEffect, LabelShows
<1>2. ASSUME NEW b, NEW c, ClearLabel(b, c) PROVE EditTakesEffect /\ LabelShows
  <2> DEFINE w == Custom("")
  <2>1. current_label(clear_label(edit, b, c), b, c) = ""
    BY UnlabelTakes
  <2>2. edit' = clear_label(edit, b, c) /\ last' = Did("unlabel", b, c, w)
    BY <1>2 DEF ClearLabel, Mutates
  <2>4. w.name = ""
    BY DEF Custom
  <2> HIDE DEF w
  <2>3. last'.op = "unlabel" /\ last'.board = b /\ last'.key = c /\ last'.val = w
    BY <2>2, DidFields
  <2> QED BY <2>1, <2>2, <2>3, <2>4 DEF EditTakesEffect, LabelShows
<1>3. ASSUME NEW b, NEW c, NEW v \in Values, SetChord(b, c, v) PROVE EditTakesEffect /\ LabelShows
  <2>1. KeydChord(set_layer_chord(edit, b, c, v), b, c) = v
    BY <1>0, <1>3, ChordTakes, ValueTyped DEF SetChord, CanSetChord, is_chord_key
  <2>2. edit' = set_layer_chord(edit, b, c, v) /\ last' = Did("chord", b, c, v)
    BY <1>3 DEF SetChord, Mutates
  <2>3. last'.op = "chord" /\ last'.board = b /\ last'.key = c /\ last'.val = v
    BY <2>2, DidFields
  <2> QED BY <2>1, <2>2, <2>3 DEF EditTakesEffect, LabelShows
<1>4. ASSUME NEW b, NEW c, RemoveChord(b, c) PROVE EditTakesEffect /\ LabelShows
  <2>1. KeydChord(remove_chord(edit, b, c), b, c) = NoVal
    BY <1>0, ClearTakes
  <2>2. edit' = remove_chord(edit, b, c) /\ last' = Did("unchord", b, c, NoVal)
    BY <1>4 DEF RemoveChord, Mutates
  <2>3. last'.op = "unchord" /\ last'.board = b /\ last'.key = c /\ last'.val = NoVal
    BY <2>2, DidFields
  <2> QED BY <2>1, <2>2, <2>3 DEF EditTakesEffect, LabelShows
<1>5. ASSUME NEW o, NEW v \in Values, SetGlobal(o, v) PROVE EditTakesEffect /\ LabelShows
  <2>1. KeydOption(set_global_option(edit, <<o>>, v), <<o>>) = v
    BY OptionTakes, ValueTyped
  <2>2. edit' = set_global_option(edit, <<o>>, v) /\ last' = Did("global", <<>>, <<o>>, v)
    BY <1>5 DEF SetGlobal, Mutates
  <2>3. last'.op = "global" /\ last'.key = <<o>> /\ last'.val = v
    BY <2>2, DidFields
  <2> QED BY <2>1, <2>2, <2>3 DEF EditTakesEffect, LabelShows
<1>6. ASSUME NEW o, ClearGlobal(o) PROVE EditTakesEffect /\ LabelShows
  <2>1. Cardinality(Globals(edit)) <= 1 => KeydOption(clear_global(edit, <<o>>), <<o>>) = NoVal
    BY UnglobalTakes
  <2>2. edit' = clear_global(edit, <<o>>) /\ last' = Did("unglobal", <<>>, <<o>>, NoVal)
    BY <1>6 DEF ClearGlobal, Mutates
  <2>3. last'.op = "unglobal" /\ last'.key = <<o>> /\ last'.val = NoVal
    BY <2>2, DidFields
  <2> QED BY <2>1, <2>2, <2>3 DEF EditTakesEffect, LabelShows, Globals
<1> QED BY <1>1, <1>2, <1>3, <1>4, <1>5, <1>6

\* What is edited stays a document with the kinds its names give.
LEMMA SessionSound == Spec => []Sound(edit)
<1>1. Init => Sound(edit)
  <2> SUFFICES ASSUME Init PROVE Sound(edit)
    OBVIOUS
  <2>1. \E f : IsFile(f) /\ edit = parse(f)
    BY StarterIsFile, SessionAssumption DEF Init
  <2> QED BY <2>1, ParseLeaves DEF Sound
<1>2. Sound(edit) /\ [Next]_vars => Sound(edit)'
  <2> SUFFICES ASSUME Sound(edit), [Next]_vars PROVE Sound(edit')
    OBVIOUS
  <2>1. CASE BindingEdit
    <3>1. \A b, c, t : SetLabel(b, c, t) => Sound(edit')
      BY LabelSound DEF SetLabel, Mutates
    <3>2. \A b, c : ClearLabel(b, c) => Sound(edit')
      BY LabelSound DEF ClearLabel, Mutates
    <3> QED BY <2>1, <3>1, <3>2, WritesSound DEF BindingEdit
  <2>2. CASE ChordEdit
    <3>1. \A b, c, v : SetChord(b, c, v) => Sound(edit')
      BY ChordSound DEF SetChord, Mutates
    <3> QED BY <2>2, <3>1, WritesSound DEF ChordEdit
  <2>3. CASE OtherEdit
    <3>1. \A o, v : SetGlobal(o, v) => Sound(edit')
      BY OptionSound DEF SetGlobal, Mutates
    <3>2. \A o : ClearGlobal(o) => Sound(edit')
      BY OptionSound DEF ClearGlobal, Mutates
    <3>3. \A n : AddLayer(n) => Sound(edit')
      BY LayerSound DEF AddLayer, Mutates
    <3>4. \A b : RemoveLayer(b) => Sound(edit')
      BY LayerSound DEF RemoveLayer, Mutates
    <3>5. \A old, new : RenameLayer(old, new) => Sound(edit')
      BY LayerSound DEF RenameLayer, Mutates
    <3> QED BY <2>3, <3>1, <3>2, <3>3, <3>4, <3>5 DEF OtherEdit
  <2>4. CASE UNCHANGED vars
    BY <2>4 DEF vars
  <2> QED BY <2>1, <2>2, <2>3, <2>4 DEF Next
<1> QED BY <1>1, <1>2, PTL DEF Spec

\* Every step does.
LEMMA TakesStep ==
  ASSUME Sound(edit), Next
  PROVE  EditTakesEffect /\ LabelShows
<1>1. CASE BindingEdit
  <2>1. PICK b \in BoardsShown, k \in EditKeys :
          \/ \E v \in Values : SetBinding(b, <<k>>, v)
          \/ ClearBinding(b, <<k>>)
          \/ \E t \in LabelTexts : SetLabel(b, <<k>>, t)
          \/ ClearLabel(b, <<k>>)
          \/ \E kind \in Kinds, n \in Targets : SetLayerAction(b, k, kind, n)
          \/ \E n \in HoldTargets, tap \in Taps, feel \in Feels : SetTapHold(b, k, n, tap, feel)
          \/ \E m \in Writable : SetMacro(b, k, Built[m])
    BY <1>1 DEF BindingEdit
  <2> QED BY <2>1, SetsTake, OthersTake
<1>2. CASE ChordEdit
  BY <1>2, OthersTake DEF ChordEdit
<1>3. CASE OtherEdit
  <2>1. CASE (\E o \in Options, v \in Values : SetGlobal(o, v)) \/ \E o \in Options : ClearGlobal(o)
    BY <2>1, OthersTake
  <2>2. ASSUME NEW op \in {"add", "remove", "rename"}, NEW b, NEW c, NEW v, NEW d, Mutates(Did(op, b, c, v), d)
        PROVE  EditTakesEffect /\ LabelShows
    <3>1. last' = Did(op, b, c, v)
      BY <2>2 DEF Mutates
    <3>2. last'.op = op
      BY <3>1, DidFields
    <3> QED BY <3>2 DEF EditTakesEffect, LabelShows
  <2>3. CASE \E n \in NewNames : AddLayer(n)
    BY <2>2, <2>3 DEF AddLayer
  <2>4. CASE \E b \in BoardsShown : RemoveLayer(b)
    BY <2>2, <2>4 DEF RemoveLayer
  <2>5. CASE \E old \in Targets, new \in NewNames : RenameLayer(old, new)
    BY <2>2, <2>5 DEF RenameLayer
  <2> QED BY <1>3, <2>1, <2>3, <2>4, <2>5 DEF OtherEdit
<1> QED BY <1>1, <1>2, <1>3 DEF Next

\* Whatever the file and the edits before, what an edit leaves makes keyd, which merges the sections
\* of a layer and takes the last line, do for the edited key, chord or option what was asked, and the
\* cap show the label that was typed or none.
THEOREM EditsTake == Spec => EditsTakeEffect
<1>1. Sound(edit) /\ [Next]_vars => [EditTakesEffect /\ LabelShows]_vars
  BY TakesStep
<1> QED BY <1>1, SessionSound, PTL DEF Spec, EditsTakeEffect

\* A key whose lines an edit keeps keeps its value in keyd.
LEMMA ValueSame ==
  ASSUME NEW d, IsDocument(d), NEW e, NEW b, NEW c, Stays(d, e, Boards(e, b), ValuesOf(Both(d, e), c))
  PROVE  KeydValue(e, b, c) = KeydValue(d, b, c)
<1> DEFINE L == Both(d, e)
           x == Among(FlattenSeq(Rows(d, Boards(d, b))), ValuesOf(L, c))
           y == Among(FlattenSeq(Rows(e, Boards(e, b))), ValuesOf(L, c))
           n == Len(d.secs)
           m == Len(e.secs)
<1>1. IsDocument(e) /\ TextsOf(d) \subseteq L /\ TextsOf(e) \subseteq L
  BY DEF Stays, Both
<1>2. \A i \in DOMAIN d.secs : i \in Boards(d, b) <=> i \in Boards(e, b)
  <2>1. DOMAIN d.secs = 1 .. n /\ n \in Nat /\ DOMAIN e.secs = 1 .. m /\ m \in Nat
    BY <1>1, DocDomain DEF IsDocument
  <2>2. m = n \/ m = n + 1
    BY DEF Stays
  <2>3. \A i \in DOMAIN d.secs : i \in DOMAIN e.secs
    BY <2>1, <2>2
  <2>4. \A i \in DOMAIN d.secs : e.secs[i].kind = d.secs[i].kind /\ e.secs[i].name = d.secs[i].name
    BY DEF Stays, SameHead
  <2> HIDE DEF n, m
  <2> QED BY <2>3, <2>4 DEF Boards, feeds_board
<1>3. x = y
  BY <1>2, RowsStay
<1> HIDE DEF L
<1>4. /\ x = <<>> => KeydValue(d, b, c) = NoVal
      /\ \A t : Final(x, t) => KeydValue(d, b, c) = t.val
      /\ y = <<>> => KeydValue(e, b, c) = NoVal
      /\ \A t : Final(y, t) => KeydValue(e, b, c) = t.val
  BY <1>1, KeydIs
<1> HIDE DEF x, y
<1>5. CASE x = <<>>
  BY <1>3, <1>4, <1>5
<1>6. CASE x # <<>>
  <2>1. Final(x, x[Len(x)])
    BY <1>6 DEF Final
  <2> QED BY <1>3, <1>4, <2>1
<1> QED BY <1>5, <1>6

\* A section replaced.
LEMMA InSectionIs ==
  ASSUME NEW d, IsDocument(d), NEW i \in DOMAIN d.secs, NEW s, SameHead(d.secs[i], s), IsEntries(s.ents)
  PROVE  LET e == InSection(d, i, s)
         IN  /\ IsDocument(e) /\ SameHeads(d, e) /\ DOMAIN e.secs = DOMAIN d.secs /\ Len(e.secs) = Len(d.secs)
             /\ e.secs[i] = s /\ \A j \in DOMAIN d.secs : j # i => e.secs[j] = d.secs[j]
<1> DEFINE e == InSection(d, i, s)
<1>1. IsDoc(d)
  BY DEF IsDocument
<1>2. DOMAIN e.secs = DOMAIN d.secs /\ e.secs[i] = s /\ \A j \in DOMAIN d.secs : j # i => e.secs[j] = d.secs[j]
  <2> DEFINE x == [d.secs EXCEPT ![i] = s]
  <2>1. e = [d EXCEPT !.secs = x]
    BY DEF InSection
  <2> HIDE DEF x
  <2>2. e.secs = x
    BY <1>1, <2>1, DocExcept
  <2> QED BY <2>2 DEF x
<1>3. SameHeads(d, e)
  BY <1>1, InSectionKeeps
<1> HIDE DEF e
<1>4. IsDocument(e)
  <2>1. \A j \in DOMAIN e.secs : IsEntries(e.secs[j].ents)
    BY <1>2 DEF IsDocument
  <2> QED BY <1>3, <2>1 DEF IsDocument, SameHeads
<1> QED BY <1>2, <1>3, <1>4 DEF SameHeads, e

\* Lines written to one section of the document, made on demand: those it does not concern stay.
LEMMA WriteStays ==
  ASSUME NEW d, IsDocument(d), NEW n, IsName(n), NEW kind, NEW base, NEW i, Target(d, n, kind, base, i),
         NEW s, SameHead(base.secs[i], s), IsEntries(s.ents),
         NEW B, No("blank", B), NEW Q, i \in Q => Keeps(base.secs[i].ents, s.ents, B)
  PROVE  Stays(d, InSection(base, i, s), Q, B)
<1> DEFINE K == {base.secs[j].kind : j \in DOMAIN base.secs}
           e == InSection(base, i, s)
<1>1. Agrees(d, base, K, B)
  <2> HIDE DEF K
  <2> QED BY AppendAgrees, AgreesRefl DEF Target
<1>2. Stays(d, base, Q, B)
  <2>1. \A j \in DOMAIN base.secs : j \in Q => base.secs[j].kind \in K
    OBVIOUS
  <2> HIDE DEF K
  <2> QED BY <1>1, <2>1, AgreesStays
<1>3. /\ IsDocument(base) /\ i \in DOMAIN base.secs /\ IsDocument(e) /\ SameHeads(base, e)
      /\ Len(e.secs) = Len(base.secs)
      /\ e.secs[i] = s /\ \A j \in DOMAIN base.secs : j # i => e.secs[j] = base.secs[j]
  BY InSectionIs DEF Target
<1> HIDE DEF e
<1>4. \A j \in DOMAIN base.secs : /\ SameHead(base.secs[j], e.secs[j])
                                  /\ j \in Q => Among(Texts(e.secs[j].ents), B) = Among(Texts(base.secs[j].ents), B)
  BY <1>3 DEF Keeps, SameHeads
<1> DEFINE l == Len(d.secs)
           m == Len(base.secs)
<1>5. /\ l \in Nat /\ DOMAIN d.secs = 1 .. l /\ m \in Nat /\ DOMAIN base.secs = 1 .. m
  BY <1>3, DocDomain DEF IsDocument
<1>6. m = l \/ m = l + 1
  BY <1>2 DEF Stays
<1>7. m = l + 1 => (m \in Q => Among(Texts(base.secs[m].ents), B) = <<>>)
  <2> SUFFICES ASSUME m = l + 1 PROVE m \in Q => Among(Texts(base.secs[m].ents), B) = <<>>
    OBVIOUS
  <2>1. m # l
    BY <1>5
  <2> QED BY <1>2, <2>1 DEF Stays
<1>8. m = l + 1 => (m \in Q => Among(Texts(e.secs[m].ents), B) = <<>>)
  <2> SUFFICES ASSUME m = l + 1 PROVE m \in Q => Among(Texts(e.secs[m].ents), B) = <<>>
    OBVIOUS
  <2>1. m \in DOMAIN base.secs
    BY <1>5
  <2> QED BY <1>4, <1>7, <2>1
<1>9. \A j \in DOMAIN d.secs : j \in DOMAIN base.secs
  BY <1>5, <1>6
<1>10. \A j \in DOMAIN d.secs : /\ SameHead(d.secs[j], base.secs[j])
                                /\ j \in Q => Among(Texts(base.secs[j].ents), B) = Among(Texts(d.secs[j].ents), B)
  BY <1>2 DEF Stays
<1>11. \A j \in DOMAIN d.secs : /\ SameHead(d.secs[j], e.secs[j])
                                /\ j \in Q => Among(Texts(e.secs[j].ents), B) = Among(Texts(d.secs[j].ents), B)
  BY <1>4, <1>9, <1>10, SameHeadTrans
<1> HIDE DEF l, m
<1> QED BY <1>3, <1>6, <1>8, <1>11 DEF Stays, e, l, m

\* Lines with a value of a key are bindings of it.
LEMMA ValuesAreBindings ==
  ASSUME NEW L, NEW c
  PROVE  /\ No("blank", ValuesOf(L, c)) /\ No("label", ValuesOf(L, c))
         /\ \A t \in ValuesOf(L, c) : t.k = "bind" /\ t.key = c
BY DEF No, ValuesOf

\* What keyd reads follows from the lines with values of the key.
LEMMA AgreesSame ==
  ASSUME NEW d, IsDocument(d), NEW e, NEW b, NEW c, Agrees(d, e, BoardKinds, ValuesOf(Both(d, e), c))
  PROVE  KeydValue(e, b, c) = KeydValue(d, b, c)
<1> DEFINE B == ValuesOf(Both(d, e), c)
<1>1. \A i \in DOMAIN e.secs : i \in Boards(e, b) => e.secs[i].kind \in BoardKinds
  BY DEF Boards, feeds_board, is_board
<1> HIDE DEF B
<1>2. Stays(d, e, Boards(e, b), B)
  BY <1>1, AgreesStays DEF B
<1> QED BY <1>2, ValueSame DEF B

\* Labels, options and a new layer change no key in keyd.
LEMMA SameValues ==
  ASSUME NEW d, Sound(d), NEW b2, NEW c2
  PROVE  /\ \A b, c, t : KeydValue(set_label(d, b, c, t), b2, c2) = KeydValue(d, b2, c2)
         /\ \A b, c : KeydValue(clear_label(d, b, c), b2, c2) = KeydValue(d, b2, c2)
         /\ \A c, v : KeydValue(set_global_option(d, c, v), b2, c2) = KeydValue(d, b2, c2)
         /\ \A c : KeydValue(clear_global(d, c), b2, c2) = KeydValue(d, b2, c2)
         /\ \A n : KeydValue(add_layer(d, n), b2, c2) = KeydValue(d, b2, c2)
<1>0. IsDocument(d) /\ Fits(d)
  BY DEF Sound
<1>1. ASSUME NEW b, NEW c, NEW t PROVE KeydValue(set_label(d, b, c, t), b2, c2) = KeydValue(d, b2, c2)
  BY <1>0, LabelAgrees, ValuesAreBindings, AgreesSame
<1>2. ASSUME NEW b, NEW c PROVE KeydValue(clear_label(d, b, c), b2, c2) = KeydValue(d, b2, c2)
  BY <1>0, ClearAgrees, ValuesAreBindings, AgreesSame
<1>3. ASSUME NEW c, NEW v PROVE KeydValue(set_global_option(d, c, v), b2, c2) = KeydValue(d, b2, c2)
  BY <1>0, OptionAgrees, ValuesAreBindings, AgreesSame
<1>4. ASSUME NEW c PROVE KeydValue(clear_global(d, c), b2, c2) = KeydValue(d, b2, c2)
  BY <1>0, OptionAgrees, ValuesAreBindings, AgreesSame
<1>5. ASSUME NEW n PROVE KeydValue(add_layer(d, n), b2, c2) = KeydValue(d, b2, c2)
  <2> DEFINE e == append_section(d, PlainName(<<n>>), section_kind(PlainName(<<n>>)))
  <2>1. \A B : No("blank", B) => Agrees(d, e, BoardKinds, B)
    BY <1>0, PlainIsName, AppendAgrees
  <2> HIDE DEF e
  <2>2. KeydValue(e, b2, c2) = KeydValue(d, b2, c2)
    BY <1>0, <2>1, ValuesAreBindings, AgreesSame
  <2> QED BY <2>2 DEF add_layer, e
<1> QED BY <1>1, <1>2, <1>3, <1>4, <1>5

\* Section i written to for board b: s has a line of key x at p, new or in place of another.
Written(d, base, i, b, s, x, v, p) ==
  /\ OnMain(d, base, i) /\ feeds_board(base.secs[i], b) /\ SameHead(base.secs[i], s)
  /\ Puts(base.secs[i].ents, s.ents, p, BindText(x, v))
  /\ Replaced(base.secs[i].ents, s.ents, p, BindText(x, v)) => Binds(base.secs[i].ents[p], x)

\* Lines of another key, or of sections another board is fed by.
LEMMA PutStays ==
  ASSUME NEW d, IsDocument(d), NEW b, NEW base, NEW i, NEW s, NEW x, NEW v, NEW p,
         Written(d, base, i, b, s, x, v, p), NEW b2, NEW c2, b2 # b \/ c2 # x
  PROVE  KeydValue(InSection(base, i, s), b2, c2) = KeydValue(d, b2, c2)
<1>0. /\ OnMain(d, base, i) /\ feeds_board(base.secs[i], b) /\ SameHead(base.secs[i], s)
      /\ Puts(base.secs[i].ents, s.ents, p, BindText(x, v))
      /\ Replaced(base.secs[i].ents, s.ents, p, BindText(x, v)) => Binds(base.secs[i].ents[p], x)
  BY DEF Written
<1> DEFINE e == InSection(base, i, s)
           B == ValuesOf(Both(d, e), c2)
           text == BindText(x, v)
<1>1. text.key = x
  BY DEF BindText
<1>2. No("blank", B) /\ \A t \in B : t.key = c2
  BY ValuesAreBindings
<1> HIDE DEF B, text
<1>3. IsDocument(base) /\ i \in DOMAIN base.secs /\ IsEntries(base.secs[i].ents)
  BY <1>0 DEF OnMain, Target
<1>4. IsEntries(s.ents)
  BY <1>0 DEF Puts, Replaced, Inserted
<1>5. SameHeads(base, e) /\ e.secs[i] = s
  BY <1>0, <1>3, <1>4, InSectionIs
<1> HIDE DEF e
<1>6. ASSUME i \in Boards(e, b2) PROVE Keeps(base.secs[i].ents, s.ents, B)
  <2>1. s.name.parts = b2 /\ base.secs[i].name.parts = b
    BY <1>0, <1>5, <1>6 DEF Boards, feeds_board
  <2>2. b2 = b
    BY <1>0, <2>1 DEF SameHead
  <2>3. text \notin B
    BY <1>1, <1>2, <2>2
  <2>4. Replaced(base.secs[i].ents, s.ents, p, text) => base.secs[i].ents[p].text \notin B
    BY <1>0, <1>2, <2>2 DEF Binds, text
  <2>5. Puts(base.secs[i].ents, s.ents, p, text)
    BY <1>0 DEF text
  <2> QED BY <1>3, <2>3, <2>4, <2>5, PutKeeps
<1>7. IsName(PlainName(Main))
  BY PlainIsName
<1>8. Stays(d, e, Boards(e, b2), B)
  BY <1>0, <1>2, <1>4, <1>6, <1>7, WriteStays DEF OnMain, e
<1> QED BY <1>8, ValueSame DEF B, e

\* A value, or a chord, changes no other key and no other board.
LEMMA SetsElsewhere ==
  ASSUME NEW d, IsDocument(d), NEW b, HasBoard(d, b), NEW c, NEW v, NEW b2, NEW c2
  PROVE  /\ b2 # b \/ c2 # c => KeydValue(set_layer_binding(d, b, c, v), b2, c2) = KeydValue(d, b2, c2)
         /\ is_chord_key(c) /\ (b2 # b \/ canonical_chord(c2) # canonical_chord(c))
              => KeydValue(set_layer_chord(d, b, c, v), b2, c2) = KeydValue(d, b2, c2)
<1>1. ASSUME b2 # b \/ c2 # c
      PROVE  KeydValue(set_layer_binding(d, b, c, v), b2, c2) = KeydValue(d, b2, c2)
  <2> DEFINE e == set_layer_binding(d, b, c, v)
  <2>1. PICK base, i :
        /\ OnMain(d, base, i) /\ feeds_board(base.secs[i], b)
        /\ e = InSection(base, i, set_or_add_binding(base.secs[i], c, v, file_eol(d)))
        /\ \A j \in DOMAIN base.secs : j > i /\ feeds_board(base.secs[j], b)
                                         => get_binding(base.secs[j], c) = NoVal
    BY BindingWhere
  <2> DEFINE s == base.secs[i]
             t == set_or_add_binding(s, c, v, file_eol(d))
  <2>2. IsSection(s) /\ IsEntries(s.ents)
    BY <2>1 DEF OnMain, Target
  <2>3. e = InSection(base, i, t)
    BY <2>1
  <2> HIDE DEF t, e
  <2>4. PICK p : /\ SameHead(s, t) /\ Puts(s.ents, t.ents, p, BindText(c, v))
                 /\ Replaced(s.ents, t.ents, p, BindText(c, v)) => Binds(s.ents[p], c)
    <3> HIDE DEF s
    <3> QED BY <2>2, SetLast DEF t
  <2>5. KeydValue(InSection(base, i, t), b2, c2) = KeydValue(d, b2, c2)
    <3>1. Written(d, base, i, b, t, c, v, p)
      BY <2>1, <2>4 DEF Written
    <3> QED BY <1>1, <3>1, PutStays
  <2> QED BY <2>3, <2>5 DEF e
<1>2. ASSUME is_chord_key(c), b2 # b \/ canonical_chord(c2) # canonical_chord(c)
      PROVE  KeydValue(set_layer_chord(d, b, c, v), b2, c2) = KeydValue(d, b2, c2)
  <2> DEFINE e == set_layer_chord(d, b, c, v)
  <2>1. PICK base, i, x : ChordGoes(d, b, c, v, base, i, x)
    BY ChordWhere
  <2> DEFINE s == base.secs[i]
             t == set_or_add_binding(s, x, v, file_eol(d))
  <2>2. IsSection(s) /\ IsEntries(s.ents) /\ OnMain(d, base, i) /\ feeds_board(s, b)
    BY <2>1 DEF ChordGoes, OnMain, Target
  <2>3. e = InSection(base, i, t) /\ x = Spelt(s, c)
    BY <2>1 DEF ChordGoes
  <2> HIDE DEF t, e
  <2>4. PICK p : /\ SameHead(s, t) /\ is_chord_key(x) /\ canonical_chord(x) = canonical_chord(c)
                 /\ Puts(s.ents, t.ents, p, BindText(x, v))
                 /\ Replaced(s.ents, t.ents, p, BindText(x, v)) => Binds(s.ents[p], x)
    <3> HIDE DEF s
    <3> QED BY <1>2, <2>2, <2>3, SetLastChord DEF t
  <2>6. b2 # b \/ c2 # x
    BY <1>2, <2>4
  <2>5. KeydValue(InSection(base, i, t), b2, c2) = KeydValue(d, b2, c2)
    <3>1. Written(d, base, i, b, t, x, v, p)
      BY <2>2, <2>4 DEF Written
    <3> QED BY <2>6, <3>1, PutStays
  <2> QED BY <2>3, <2>5 DEF e
<1> QED BY <1>1, <1>2

LEMMA LinesFed ==
  ASSUME NEW d, NEW b
  PROVE  BoardLines(d, b) = bindings(FlattenSeq(Rows(d, Boards(d, b))))
<1>1. [i \in DOMAIN d.secs |->
            IF feeds_board(d.secs[i], b)
            THEN [j \in DOMAIN d.secs[i].ents |-> d.secs[i].ents[j].text] ELSE <<>>]
          = Rows(d, Boards(d, b))
  BY DEF Rows, Boards, Texts
<1> QED BY <1>1 DEF BoardLines, TextsIn

\* A layer removed takes only its own keys.
LEMMA RemovesElsewhere ==
  ASSUME NEW d, Sound(d), NEW b, NEW b2, b2 # b, NEW c
  PROVE  KeydValue(remove_layer(d, b), b2, c) = KeydValue(d, b2, c)
<1> DEFINE e == remove_layer(d, b)
           T == ToSet(d.secs)
           S == {s \in T : ~feeds_board(s, b)}
           L == TextsOf(d)
           r == [s \in T |-> IF feeds_board(s, b2) THEN Texts(s.ents) ELSE <<>>]
<1>0. IsDocument(d) /\ Fits(d)
  BY DEF Sound
<1>1. e.secs = Among(d.secs, S) /\ IsDocument(e)
  BY <1>0, RemoveLeaves
<1>2. d.secs \in Seq(T)
  BY <1>0 DEF IsDocument, IsDoc, IsList, ToSet
<1>3. r \in [T -> Seq(L)]
  <2> DEFINE Z == Seq(L)
  <2>1. \A s \in T : r[s] \in Z
    <3> SUFFICES ASSUME NEW s \in T PROVE r[s] \in Z
      OBVIOUS
    <3> DEFINE x == s.ents
               X == {x[j].text : j \in DOMAIN x}
    <3>1. PICK i \in DOMAIN d.secs : s = d.secs[i]
      BY DEF ToSet
    <3>2. IsEntries(x) /\ X \subseteq L
      BY <1>0, <3>1 DEF IsDocument, TextsOf
    <3>3. r[s] = Texts(x) \/ r[s] = <<>>
      OBVIOUS
    <3> HIDE DEF x, r, L
    <3>4. Texts(x) \in Seq(X)
      BY <3>2, EntriesSeq
    <3> HIDE DEF X
    <3>5. Texts(x) \in Seq(L) /\ <<>> \in Seq(L)
      BY <3>2, <3>4
    <3> QED BY <3>3, <3>5
  <2> HIDE DEF Z
  <2> QED BY <2>1 DEF Z
<1>4. \A x \in T : x \notin S => r[x] = <<>>
  BY DEF feeds_board
<1>5. Rows(d, Boards(d, b2)) = RowsBy(d.secs, r)
  BY DEF Rows, Boards, RowsBy, ToSet
<1>6. Rows(e, Boards(e, b2)) = RowsBy(e.secs, r)
  <2>0. \A i \in DOMAIN e.secs : e.secs[i] \in T
    <3>1. e.secs \in Seq(T)
      <4> HIDE DEF S, T, e
      <4> QED BY <1>1, <1>2, AmongIs
    <3> HIDE DEF e, T
    <3> QED BY <3>1, ListOfSeq
  <2> HIDE DEF e
  <2>1. \A i \in DOMAIN e.secs : r[e.secs[i]] = IF i \in Boards(e, b2) THEN Texts(e.secs[i].ents) ELSE <<>>
    BY <2>0 DEF Boards
  <2> HIDE DEF r
  <2> QED BY <2>1 DEF Rows, RowsBy
<1> HIDE DEF e, r, S, T, L
<1>7. FlattenSeq(RowsBy(d.secs, r)) = FlattenSeq(RowsBy(Among(d.secs, S), r))
  BY <1>2, <1>3, <1>4, FlattenDropped
<1>8. FlattenSeq(Rows(e, Boards(e, b2))) = FlattenSeq(Rows(d, Boards(d, b2)))
  BY <1>1, <1>5, <1>6, <1>7
<1>9. BoardLines(e, b2) = BoardLines(d, b2)
  BY <1>8, LinesFed
<1>10. KeydValue(e, b2, c) = KeydValue(d, b2, c)
  BY <1>9 DEF KeydValue
<1> QED BY <1>10 DEF e

\* Each section of d that feeds b without some of its lines.
Thinned(d, e, b, D) ==
  /\ IsDocument(e) /\ SameHeads(d, e) /\ DOMAIN e.secs = DOMAIN d.secs
  /\ \A i \in DOMAIN d.secs :
       \/ e.secs[i] = d.secs[i]
       \/ /\ feeds_board(d.secs[i], b)
          /\ \A B : (\A j \in DOMAIN d.secs[i].ents : d.secs[i].ents[j].text \in D => d.secs[i].ents[j].text \notin B)
                      => Keeps(d.secs[i].ents, e.secs[i].ents, B)

\* ... and keyd reads what it read of every other key.
LEMMA ThinnedSame ==
  ASSUME NEW d, IsDocument(d), NEW e, NEW b, NEW D, Thinned(d, e, b, D), NEW b2, NEW c2,
         b2 # b \/ \A t \in D : t.k # "bind" \/ t.key # c2
  PROVE  KeydValue(e, b2, c2) = KeydValue(d, b2, c2)
<1> DEFINE B == ValuesOf(Both(d, e), c2)
<1>1. \A t \in B : t.k = "bind" /\ t.key = c2
  BY ValuesAreBindings
<1> HIDE DEF B
<1>2. IsDocument(e) /\ SameHeads(d, e) /\ DOMAIN e.secs = DOMAIN d.secs
  BY DEF Thinned
<1>3. \A i \in DOMAIN d.secs : i \in Boards(e, b2) => Among(Texts(e.secs[i].ents), B) = Among(Texts(d.secs[i].ents), B)
  <2> SUFFICES ASSUME NEW i \in DOMAIN d.secs, i \in Boards(e, b2)
               PROVE  Among(Texts(e.secs[i].ents), B) = Among(Texts(d.secs[i].ents), B)
    OBVIOUS
  <2>1. CASE e.secs[i] = d.secs[i]
    BY <2>1
  <2>2. CASE e.secs[i] # d.secs[i]
    <3>1. feeds_board(d.secs[i], b) /\ SameHead(d.secs[i], e.secs[i])
      BY <1>2, <2>2 DEF Thinned, SameHeads
    <3>2. b2 = b
      BY <3>1 DEF Boards, feeds_board, SameHead
    <3>3. \A t \in D : t \notin B
      BY <1>1, <3>2
    <3>4. Keeps(d.secs[i].ents, e.secs[i].ents, B)
      BY <2>2, <3>3 DEF Thinned
    <3> QED BY <3>4 DEF Keeps
  <2> QED BY <2>1, <2>2
<1>4. Stays(d, e, Boards(e, b2), B)
  BY <1>2, <1>3 DEF Stays, SameHeads
<1> QED BY <1>4, ValueSame DEF B

\* Clearing a key, a label or a chord only drops its lines.
LEMMA ClearsThin ==
  ASSUME NEW d, IsDocument(d), NEW b, NEW c
  PROVE  /\ Thinned(d, clear_binding(d, b, c), b, {t \in TextsOf(d) : t.k = "bind" /\ t.key = c})
         /\ Thinned(d, clear_label(d, b, c), b, {t \in TextsOf(d) : t.k = "label" /\ t.key = c})
         /\ Thinned(d, remove_chord(d, b, c), b,
                    {t \in TextsOf(d) : /\ t.k = "bind" /\ is_chord_key(t.key)
                                        /\ canonical_chord(t.key) = canonical_chord(c)})
<1>0. \A i \in DOMAIN d.secs : /\ IsSection(d.secs[i]) /\ IsEntries(d.secs[i].ents)
                               /\ \A j \in DOMAIN d.secs[i].ents : d.secs[i].ents[j].text \in TextsOf(d)
  BY DEF IsDocument, IsDoc, TextsOf
<1>1. Thinned(d, clear_binding(d, b, c), b, {t \in TextsOf(d) : t.k = "bind" /\ t.key = c})
  <2> DEFINE e == clear_binding(d, b, c)
             D == {t \in TextsOf(d) : t.k = "bind" /\ t.key = c}
  <2>1. IsDocument(e) /\ SameHeads(d, e) /\ DOMAIN e.secs = DOMAIN d.secs
    BY ClearedSections
  <2>2. \A i \in DOMAIN d.secs : e.secs[i] = IF feeds_board(d.secs[i], b) THEN remove_binding(d.secs[i], c) ELSE d.secs[i]
    BY ClearedSections
  <2> HIDE DEF e
  <2>3. \A i \in DOMAIN d.secs : \A B :
          (\A j \in DOMAIN d.secs[i].ents : d.secs[i].ents[j].text \in D => d.secs[i].ents[j].text \notin B)
            => Keeps(d.secs[i].ents, remove_binding(d.secs[i], c).ents, B)
    BY <1>0, DropIs DEF Binds
  <2> HIDE DEF D
  <2>4. Thinned(d, e, b, D)
    BY <2>1, <2>2, <2>3 DEF Thinned
  <2> QED BY <2>4 DEF e, D
<1>2. Thinned(d, clear_label(d, b, c), b, {t \in TextsOf(d) : t.k = "label" /\ t.key = c})
  <2> DEFINE e == clear_label(d, b, c)
             D == {t \in TextsOf(d) : t.k = "label" /\ t.key = c}
  <2>1. IsDocument(e) /\ SameHeads(d, e) /\ DOMAIN e.secs = DOMAIN d.secs
    BY ClearedSections
  <2>2. \A i \in DOMAIN d.secs : e.secs[i] = IF feeds_board(d.secs[i], b) THEN SectionClearLabel(d.secs[i], c) ELSE d.secs[i]
    BY ClearedSections
  <2> HIDE DEF e
  <2>3. \A i \in DOMAIN d.secs : \A B :
          (\A j \in DOMAIN d.secs[i].ents : d.secs[i].ents[j].text \in D => d.secs[i].ents[j].text \notin B)
            => Keeps(d.secs[i].ents, SectionClearLabel(d.secs[i], c).ents, B)
    BY <1>0, DropIs DEF Labels
  <2> HIDE DEF D
  <2>4. Thinned(d, e, b, D)
    BY <2>1, <2>2, <2>3 DEF Thinned
  <2> QED BY <2>4 DEF e, D
<1>3. Thinned(d, remove_chord(d, b, c), b,
                    {t \in TextsOf(d) : /\ t.k = "bind" /\ is_chord_key(t.key)
                                        /\ canonical_chord(t.key) = canonical_chord(c)})
  <2> DEFINE e == remove_chord(d, b, c)
             D == {t \in TextsOf(d) : /\ t.k = "bind" /\ is_chord_key(t.key)
                                      /\ canonical_chord(t.key) = canonical_chord(c)}
  <2>1. IsDocument(e) /\ SameHeads(d, e) /\ DOMAIN e.secs = DOMAIN d.secs
    BY ClearedSections
  <2>2. \A i \in DOMAIN d.secs : e.secs[i] = IF feeds_board(d.secs[i], b) THEN DropChord(d.secs[i], c) ELSE d.secs[i]
    BY ClearedSections
  <2> HIDE DEF e
  <2>3. \A i \in DOMAIN d.secs : \A B :
          (\A j \in DOMAIN d.secs[i].ents : d.secs[i].ents[j].text \in D => d.secs[i].ents[j].text \notin B)
            => Keeps(d.secs[i].ents, DropChord(d.secs[i], c).ents, B)
    BY <1>0, DropIs DEF SameChord
  <2> HIDE DEF D
  <2>4. Thinned(d, e, b, D)
    BY <2>1, <2>2, <2>3 DEF Thinned
  <2> QED BY <2>4 DEF e, D
<1> QED BY <1>1, <1>2, <1>3

LEMMA ClearsElsewhere ==
  ASSUME NEW d, IsDocument(d), NEW b, NEW c, NEW b2, NEW c2
  PROVE  /\ b2 # b \/ c2 # c => KeydValue(clear_binding(d, b, c), b2, c2) = KeydValue(d, b2, c2)
         /\ b2 # b \/ canonical_chord(c2) # canonical_chord(c)
              => KeydValue(remove_chord(d, b, c), b2, c2) = KeydValue(d, b2, c2)
<1>1. ASSUME b2 # b \/ c2 # c PROVE KeydValue(clear_binding(d, b, c), b2, c2) = KeydValue(d, b2, c2)
  <2> DEFINE e == clear_binding(d, b, c)
             D == {t \in TextsOf(d) : t.k = "bind" /\ t.key = c}
  <2>1. Thinned(d, e, b, D)
    BY ClearsThin
  <2>2. b2 # b \/ \A t \in D : t.k # "bind" \/ t.key # c2
    BY <1>1
  <2> HIDE DEF e, D
  <2>3. KeydValue(e, b2, c2) = KeydValue(d, b2, c2)
    BY <2>1, <2>2, ThinnedSame
  <2> QED BY <2>3 DEF e
<1>2. ASSUME b2 # b \/ canonical_chord(c2) # canonical_chord(c)
      PROVE  KeydValue(remove_chord(d, b, c), b2, c2) = KeydValue(d, b2, c2)
  <2> DEFINE e == remove_chord(d, b, c)
             D == {t \in TextsOf(d) : /\ t.k = "bind" /\ is_chord_key(t.key)
                                      /\ canonical_chord(t.key) = canonical_chord(c)}
  <2>1. Thinned(d, e, b, D)
    BY ClearsThin
  <2>2. b2 # b \/ \A t \in D : t.k # "bind" \/ t.key # c2
    BY <1>2
  <2> HIDE DEF e, D
  <2>3. KeydValue(e, b2, c2) = KeydValue(d, b2, c2)
    BY <2>1, <2>2, ThinnedSame
  <2> QED BY <2>3 DEF e
<1> QED BY <1>1, <1>2

\* The operations that set the value of a key leave every other key.
LEMMA SetsElse ==
  ASSUME Sound(edit)
  PROVE  /\ \A b, c, v : SetBinding(b, c, v) => SameElsewhere
         /\ \A b, k, kind, n : SetLayerAction(b, k, kind, n) => SameElsewhere
         /\ \A b, k, n, tap, feel : SetTapHold(b, k, n, tap, feel) => SameElsewhere
         /\ \A b, k, v : SetMacro(b, k, v) => SameElsewhere
<1>0. IsDocument(edit)
  BY DEF Sound
<1>1. ASSUME NEW op \in {"set", "taphold", "macro"}, NEW b, HasBoard(edit, b), NEW c, NEW v,
             Mutates(Did(op, b, c, v), set_layer_binding(edit, b, c, v))
      PROVE  SameElsewhere
  <2>1. \A b2, c2 : b2 # b \/ c2 # c
          => KeydValue(set_layer_binding(edit, b, c, v), b2, c2) = KeydValue(edit, b2, c2)
    BY <1>0, <1>1, SetsElsewhere
  <2>2. edit' = set_layer_binding(edit, b, c, v) /\ last' = Did(op, b, c, v)
    BY <1>1 DEF Mutates
  <2>3. last'.op = op /\ last'.board = b /\ last'.key = c
    BY <2>2, DidFields
  <2>4. \A b2, c2 : (b2 = last'.board /\ c2 = last'.key) \/ KeydValue(edit', b2, c2) = KeydValue(edit, b2, c2)
    BY <2>1, <2>2, <2>3
  <2>5. last'.op \notin {"remove", "chord", "unchord"}
    BY <2>3
  <2> QED BY <2>4, <2>5 DEF SameElsewhere
<1>2. ASSUME NEW b, NEW c, NEW v, SetBinding(b, c, v) PROVE SameElsewhere
  BY <1>1, <1>2 DEF SetBinding
<1>3. ASSUME NEW b, NEW k, NEW kind, NEW n, SetLayerAction(b, k, kind, n) PROVE SameElsewhere
  BY <1>1, <1>3 DEF SetLayerAction
<1>4. ASSUME NEW b, NEW k, NEW n, NEW tap, NEW feel, SetTapHold(b, k, n, tap, feel) PROVE SameElsewhere
  <2> DEFINE v == TapHoldValue(ComposeTapHold(current_tap_hold(edit, b, k), n, tap, feel))
  <2>1. HasBoard(edit, b) /\ Mutates(Did("taphold", b, <<k>>, v), set_layer_binding(edit, b, <<k>>, v))
    BY <1>4 DEF SetTapHold
  <2> HIDE DEF v
  <2> QED BY <1>1, <2>1
<1>5. ASSUME NEW b, NEW k, NEW v, SetMacro(b, k, v) PROVE SameElsewhere
  BY <1>1, <1>5 DEF SetMacro
<1> QED BY <1>2, <1>3, <1>4, <1>5

\* ... and so do all the others.
LEMMA OthersElse ==
  ASSUME Sound(edit)
  PROVE  /\ \A b, c : ClearBinding(b, c) => SameElsewhere
         /\ \A b, c, t : SetLabel(b, c, t) => SameElsewhere
         /\ \A b, c : ClearLabel(b, c) => SameElsewhere
         /\ \A b, c, v : SetChord(b, c, v) => SameElsewhere
         /\ \A b, c : RemoveChord(b, c) => SameElsewhere
         /\ \A o, v : SetGlobal(o, v) => SameElsewhere
         /\ \A o : ClearGlobal(o) => SameElsewhere
         /\ \A n : AddLayer(n) => SameElsewhere
         /\ \A b : RemoveLayer(b) => SameElsewhere
         /\ \A old, new : RenameLayer(old, new) => SameElsewhere
<1>0. IsDocument(edit)
  BY DEF Sound
<1>1. ASSUME NEW b, NEW c, ClearBinding(b, c) PROVE SameElsewhere
  <2>1. \A b2, c2 : b2 # b \/ c2 # c
          => KeydValue(clear_binding(edit, b, c), b2, c2) = KeydValue(edit, b2, c2)
    BY <1>0, ClearsElsewhere
  <2>2. edit' = clear_binding(edit, b, c) /\ last' = Did("clear", b, c, NoVal)
    BY <1>1 DEF ClearBinding, Mutates
  <2>3. last'.op = "clear" /\ last'.board = b /\ last'.key = c
    BY <2>2, DidFields
  <2>4. \A b2, c2 : (b2 = last'.board /\ c2 = last'.key) \/ KeydValue(edit', b2, c2) = KeydValue(edit, b2, c2)
    BY <2>1, <2>2, <2>3
  <2> QED BY <2>3, <2>4 DEF SameElsewhere
<1>2. ASSUME NEW op \in {"label", "unlabel", "global", "unglobal", "add"}, NEW b, NEW c, NEW v, NEW d,
             Mutates(Did(op, b, c, v), d), \A b2, c2 : KeydValue(d, b2, c2) = KeydValue(edit, b2, c2)
      PROVE  SameElsewhere
  <2>1. edit' = d /\ last' = Did(op, b, c, v)
    BY <1>2 DEF Mutates
  <2>2. last'.op = op
    BY <2>1, DidFields
  <2>3. last'.op \notin {"remove", "chord", "unchord"}
    BY <2>2
  <2>4. \A b2, c2 : KeydValue(edit', b2, c2) = KeydValue(edit, b2, c2)
    BY <1>2, <2>1
  <2> QED BY <2>3, <2>4 DEF SameElsewhere
<1>3. ASSUME NEW b, NEW c, NEW t, SetLabel(b, c, t) PROVE SameElsewhere
  <2> DEFINE v == Custom(t)
  <2>1. ASSUME NEW b2, NEW c2 PROVE KeydValue(set_label(edit, b, c, t), b2, c2) = KeydValue(edit, b2, c2)
    <3> HIDE DEF v
    <3> QED BY SameValues
  <2>2. Mutates(Did("label", b, c, v), set_label(edit, b, c, t))
    BY <1>3 DEF SetLabel
  <2> HIDE DEF v
  <2> QED BY <1>2, <2>1, <2>2
<1>4. ASSUME NEW b, NEW c, ClearLabel(b, c) PROVE SameElsewhere
  <2> DEFINE v == Custom("")
  <2>1. \A b2, c2 : KeydValue(clear_label(edit, b, c), b2, c2) = KeydValue(edit, b2, c2)
    BY SameValues
  <2>2. Mutates(Did("unlabel", b, c, v), clear_label(edit, b, c))
    BY <1>4 DEF ClearLabel
  <2> HIDE DEF v
  <2> QED BY <1>2, <2>1, <2>2
<1>5. ASSUME NEW o, NEW v, SetGlobal(o, v) PROVE SameElsewhere
  <2> DEFINE b == <<>> c == <<o>>
  <2>1. ASSUME NEW b2, NEW c2 PROVE KeydValue(set_global_option(edit, c, v), b2, c2) = KeydValue(edit, b2, c2)
    <3> HIDE DEF b, c
    <3> QED BY SameValues
  <2>2. Mutates(Did("global", b, c, v), set_global_option(edit, c, v))
    BY <1>5 DEF SetGlobal
  <2> HIDE DEF b, c
  <2> QED BY <1>2, <2>1, <2>2
<1>6. ASSUME NEW o, ClearGlobal(o) PROVE SameElsewhere
  <2> DEFINE b == <<>> c == <<o>>
  <2>1. ASSUME NEW b2, NEW c2 PROVE KeydValue(clear_global(edit, c), b2, c2) = KeydValue(edit, b2, c2)
    <3> HIDE DEF b, c
    <3> QED BY SameValues
  <2>2. Mutates(Did("unglobal", b, c, NoVal), clear_global(edit, c))
    BY <1>6 DEF ClearGlobal
  <2> HIDE DEF b, c
  <2> QED BY <1>2, <2>1, <2>2
<1>7. ASSUME NEW n, AddLayer(n) PROVE SameElsewhere
  BY <1>2, <1>7, SameValues DEF AddLayer
<1>8. ASSUME NEW op \in {"chord", "unchord"}, NEW b, NEW c, NEW v, NEW d, Mutates(Did(op, b, c, v), d),
             \A b2, c2 : b2 # b \/ canonical_chord(c2) # canonical_chord(c)
               => KeydValue(d, b2, c2) = KeydValue(edit, b2, c2)
      PROVE  SameElsewhere
  <2>1. edit' = d /\ last' = Did(op, b, c, v)
    BY <1>8 DEF Mutates
  <2>2. last'.op = op /\ last'.board = b /\ last'.key = c
    BY <2>1, DidFields
  <2>3. \A b2, c2 : \/ b2 = last'.board /\ canonical_chord(c2) = canonical_chord(last'.key)
                    \/ KeydValue(edit', b2, c2) = KeydValue(edit, b2, c2)
    BY <1>8, <2>1, <2>2
  <2>4. last'.op # "remove" /\ last'.op \in {"chord", "unchord"}
    BY <2>2
  <2> QED BY <2>3, <2>4 DEF SameElsewhere
<1>9. ASSUME NEW b, NEW c, NEW v, SetChord(b, c, v) PROVE SameElsewhere
  BY <1>0, <1>8, <1>9, SetsElsewhere DEF SetChord, CanSetChord, is_chord_key
<1>10. ASSUME NEW b, NEW c, RemoveChord(b, c) PROVE SameElsewhere
  BY <1>0, <1>8, <1>10, ClearsElsewhere DEF RemoveChord
<1>11. ASSUME NEW b, RemoveLayer(b) PROVE SameElsewhere
  <2>1. \A b2, c2 : b2 # b => KeydValue(remove_layer(edit, b), b2, c2) = KeydValue(edit, b2, c2)
    BY RemovesElsewhere
  <2>2. edit' = remove_layer(edit, b) /\ last' = Did("remove", b, NoKey, NoVal)
    BY <1>11 DEF RemoveLayer, Mutates
  <2>3. last'.op = "remove" /\ last'.board = b
    BY <2>2, DidFields
  <2> QED BY <2>1, <2>2, <2>3 DEF SameElsewhere
<1>12. ASSUME NEW old, NEW new, RenameLayer(old, new) PROVE SameElsewhere
  <2>1. last' = Did("rename", <<old>>, <<new>>, NoVal)
    BY <1>12 DEF RenameLayer, Mutates
  <2>2. last'.op = "rename"
    BY <2>1, DidFields
  <2> QED BY <2>2 DEF SameElsewhere
<1> QED BY <1>1, <1>3, <1>4, <1>5, <1>6, <1>7, <1>9, <1>10, <1>11, <1>12

\* Whatever the edit, every other key of every board keeps its value.
LEMMA ElseStep ==
  ASSUME Sound(edit), Next
  PROVE  SameElsewhere
<1>1. CASE BindingEdit
  <2>1. PICK b \in BoardsShown, k \in EditKeys :
          \/ \E v \in Values : SetBinding(b, <<k>>, v)
          \/ ClearBinding(b, <<k>>)
          \/ \E t \in LabelTexts : SetLabel(b, <<k>>, t)
          \/ ClearLabel(b, <<k>>)
          \/ \E kind \in Kinds, n \in Targets : SetLayerAction(b, k, kind, n)
          \/ \E n \in HoldTargets, tap \in Taps, feel \in Feels : SetTapHold(b, k, n, tap, feel)
          \/ \E m \in Writable : SetMacro(b, k, Built[m])
    BY <1>1 DEF BindingEdit
  <2> QED BY <2>1, SetsElse, OthersElse
<1>2. CASE ChordEdit
  BY <1>2, OthersElse DEF ChordEdit
<1>3. CASE OtherEdit
  BY <1>3, OthersElse DEF OtherEdit
<1> QED BY <1>1, <1>2, <1>3 DEF Next

\* The texts of lists of lines one behind the other.
LEMMA FlattenTexts ==
  ASSUME NEW E, NEW ss \in Seq(Seq(E)), NEW L, \A e \in E : e.text \in L,
         NEW tt, tt = [i \in 1 .. Len(ss) |-> Texts(ss[i])]
  PROVE  /\ tt \in Seq(Seq(L)) /\ Len(tt) = Len(ss)
         /\ Texts(FlattenSeq(ss)) = FlattenSeq(tt) /\ FlattenSeq(tt) \in Seq(L)
<1> DEFINE n == Len(ss)
<1>0. n \in Nat /\ \A k \in 1 .. n : ss[k] \in Seq(E)
  OBVIOUS
<1>1. \A x \in Seq(E) : Texts(x) \in Seq(L)
  <2> SUFFICES ASSUME NEW x \in Seq(E) PROVE Texts(x) \in Seq(L)
    OBVIOUS
  <2>1. Len(x) \in Nat /\ DOMAIN x = 1 .. Len(x) /\ \A i \in 1 .. Len(x) : x[i] \in E
    OBVIOUS
  <2>2. \A i \in 1 .. Len(x) : x[i].text \in L
    BY <2>1
  <2> QED BY <2>1, <2>2 DEF Texts
<1>2. tt \in Seq(Seq(L)) /\ Len(tt) = n /\ \A k \in 1 .. n : tt[k] = Texts(ss[k])
  <2> DEFINE S == Seq(L)
  <2>1. \A k \in 1 .. n : Texts(ss[k]) \in S
    BY <1>0, <1>1
  <2> HIDE DEF S, n
  <2>2. tt \in [1 .. n -> S]
    BY <2>1 DEF n
  <2>3. tt \in Seq(S) /\ Len(tt) = n
    BY <1>0, <2>2
  <2>4. \A k \in 1 .. n : tt[k] = Texts(ss[k])
    BY DEF n
  <2> QED BY <2>3, <2>4 DEF S
<1>3. PICK h : /\ h[0] = <<>>
               /\ \A k \in 1 .. Len(ss) : h[k] = h[k - 1] \o ss[k] /\ h[k] \in Seq(E)
               /\ FlattenSeq(ss) = h[Len(ss)]
  BY FlattenSteps
<1>4. PICK g : /\ g[0] = <<>>
               /\ \A k \in 1 .. Len(tt) : g[k] = g[k - 1] \o tt[k] /\ g[k] \in Seq(L)
               /\ FlattenSeq(tt) = g[Len(tt)]
  BY <1>2, FlattenSteps
<1> HIDE DEF n
<1>5. \A k \in 0 .. n : h[k] \in Seq(E)
  <2>1. h[0] \in Seq(E)
    <3>1. <<>> \in Seq(E)
      OBVIOUS
    <3> QED BY <1>3, <3>1
  <2>2. \A k \in 0 .. n : k = 0 \/ k \in 1 .. Len(ss)
    BY <1>0 DEF n
  <2> QED BY <2>1, <2>2, <1>3
<1> DEFINE a == [k \in 0 .. n |-> Texts(h[k])]
<1>6. \A k \in 1 .. n : a[k - 1] = g[k - 1] => a[k] = g[k]
  <2> SUFFICES ASSUME NEW k \in 1 .. n, a[k - 1] = g[k - 1] PROVE a[k] = g[k]
    OBVIOUS
  <2>1. k \in 0 .. n /\ k - 1 \in 0 .. n /\ k \in 1 .. Len(ss) /\ k \in 1 .. Len(tt)
    BY <1>0, <1>2 DEF n
  <2>2. a[k] = Texts(h[k]) /\ Texts(h[k - 1]) = g[k - 1]
    BY <2>1
  <2> DEFINE x == h[k - 1]
             y == ss[k]
  <2>3. x \in Seq(E) /\ y \in Seq(E) /\ h[k] = x \o y /\ g[k] = g[k - 1] \o Texts(y)
    BY <1>0, <1>2, <1>3, <1>4, <1>5, <2>1
  <2> HIDE DEF a, x, y
  <2>4. Texts(x \o y) = Texts(x) \o Texts(y)
    BY <2>3, TextsConcat
  <2>5. Texts(x) = g[k - 1]
    BY <2>2 DEF x
  <2> QED BY <2>2, <2>3, <2>4, <2>5
<1>7. a[0] = g[0]
  <2>1. a[0] = Texts(h[0])
    BY <1>0
  <2>2. \A z : z = <<>> => Texts(z) = z
    BY DEF Texts
  <2> HIDE DEF a
  <2> QED BY <1>3, <1>4, <2>1, <2>2
<1>8. a[n] = g[n]
  <2> HIDE DEF a
  <2> QED BY <1>0, <1>6, <1>7, StepsAgree
<1>9. a[n] = Texts(h[n])
  BY <1>0
<1>10. FlattenSeq(tt) \in Seq(L)
  BY <1>2, FlattenHas
<1> HIDE DEF a
<1>11. Texts(FlattenSeq(ss)) = FlattenSeq(tt)
  BY <1>2, <1>3, <1>4, <1>8, <1>9 DEF n
<1> QED BY <1>2, <1>10, <1>11 DEF n

\* The document with its first lines too, and the texts it writes: those of
\* the first lines, then for each section its header and its lines.
Whole(d) == IsDocument(d) /\ IsEntries(d.pre)
Block(s) == <<HeadText(s.name)>> \o Texts(s.ents)
Blocks(d) == [i \in DOMAIN d.secs |-> Block(d.secs[i])]
AllTexts(d) == Texts(d.pre) \o FlattenSeq(Blocks(d))
EveryText(d) == TextsOf(d) \union {d.pre[j].text : j \in DOMAIN d.pre}
                  \union {HeadText(d.secs[i].name) : i \in DOMAIN d.secs}

\* The blocks of a document are lists of its lines.
LEMMA BlockIs ==
  ASSUME NEW d, Whole(d), NEW L, EveryText(d) \subseteq L
  PROVE  /\ Texts(d.pre) \in Seq(L)
         /\ \A i \in DOMAIN d.secs : /\ HeadText(d.secs[i].name) \in L
                                     /\ Texts(d.secs[i].ents) \in Seq(L)
                                     /\ Block(d.secs[i]) \in Seq(L)
         /\ Blocks(d) \in Seq(Seq(L)) /\ Len(Blocks(d)) = Len(d.secs) /\ Len(d.secs) \in Nat
         /\ DOMAIN Blocks(d) = DOMAIN d.secs /\ DOMAIN d.secs = 1 .. Len(d.secs)
<1>0. IsDoc(d) /\ IsEntries(d.pre) /\ \A i \in DOMAIN d.secs : IsEntries(d.secs[i].ents)
  BY DEF Whole, IsDocument
<1>1. Len(d.secs) \in Nat /\ DOMAIN d.secs = 1 .. Len(d.secs)
  BY <1>0, DocDomain
<1>2. ASSUME NEW x, IsEntries(x), {x[j].text : j \in DOMAIN x} \subseteq L PROVE Texts(x) \in Seq(L)
  <2>1. Texts(x) \in Seq({x[i].text : i \in DOMAIN x})
    BY <1>2, EntriesSeq
  <2> QED BY <1>2, <2>1
<1>3. Texts(d.pre) \in Seq(L)
  BY <1>0, <1>2 DEF EveryText
<1>4. ASSUME NEW i \in DOMAIN d.secs
      PROVE  HeadText(d.secs[i].name) \in L /\ Texts(d.secs[i].ents) \in Seq(L) /\ Block(d.secs[i]) \in Seq(L)
  <2>1. {d.secs[i].ents[j].text : j \in DOMAIN d.secs[i].ents} \subseteq L
    BY DEF EveryText, TextsOf
  <2>2. Texts(d.secs[i].ents) \in Seq(L)
    BY <1>0, <1>2, <2>1
  <2>3. HeadText(d.secs[i].name) \in L
    BY DEF EveryText
  <2> DEFINE h == HeadText(d.secs[i].name)
             x == Texts(d.secs[i].ents)
  <2>4. h \in L /\ x \in Seq(L) => <<h>> \o x \in Seq(L)
    <3> HIDE DEF h, x
    <3> QED OBVIOUS
  <2> QED BY <2>2, <2>3, <2>4 DEF Block
<1>5. Blocks(d) \in Seq(Seq(L)) /\ Len(Blocks(d)) = Len(d.secs) /\ DOMAIN Blocks(d) = DOMAIN d.secs
  <2> DEFINE S == Seq(L)
             n == Len(d.secs)
             b == Blocks(d)
  <2>1. \A i \in 1 .. n : Block(d.secs[i]) \in S
    BY <1>1, <1>4
  <2>2. b = [i \in 1 .. n |-> Block(d.secs[i])]
    BY <1>1 DEF Blocks
  <2>3. n \in Nat /\ DOMAIN d.secs = 1 .. n
    BY <1>1
  <2> HIDE DEF S, n, b
  <2>4. b \in [1 .. n -> S] /\ DOMAIN b = 1 .. n
    BY <2>1, <2>2
  <2>5. b \in Seq(S) /\ Len(b) = n
    BY <2>3, <2>4
  <2> QED BY <2>3, <2>4, <2>5 DEF S, n, b
<1> QED BY <1>1, <1>3, <1>4, <1>5

LEMMA OneText == \A l : Texts(<<l>>) = <<l.text>>
<1> SUFFICES ASSUME NEW l PROVE Texts(<<l>>) = <<l.text>>
  OBVIOUS
<1> DEFINE x == <<l>>
<1>1. DOMAIN x = {1} /\ x[1] = l
  OBVIOUS
<1>2. Texts(x) = [j \in {1} |-> x[j].text]
  BY <1>1 DEF Texts
<1> HIDE DEF x
<1>3. Texts(x) = [j \in {1} |-> l.text]
  BY <1>1, <1>2
<1> DEFINE t == l.text
<1>4. <<t>> = [j \in {1} |-> t]
  <2> HIDE DEF t
  <2> QED OBVIOUS
<1> QED BY <1>3, <1>4 DEF x

LEMMA LineFields == \A t, e : Line(t, e).text = t /\ Line(t, e).eol = e
  BY DEF Line

LinesOfTexts(L, O) == {Line(t, o) : t \in L, o \in O}

\* A list of entries, and a section, as lines.
LEMMA EntryLines ==
  ASSUME NEW x, IsEntries(x), NEW L, NEW O, \A j \in DOMAIN x : x[j].text \in L /\ x[j].eol \in O
  PROVE  LET y == [i \in DOMAIN x |-> Line(x[i].text, x[i].eol)]
         IN  y \in Seq(LinesOfTexts(L, O)) /\ Texts(y) = Texts(x)
<1> DEFINE y == [i \in DOMAIN x |-> Line(x[i].text, x[i].eol)]
           E == LinesOfTexts(L, O)
<1>1. DOMAIN y = DOMAIN x /\ Len(x) \in Nat /\ DOMAIN x = 1 .. Len(x)
  BY ListLen DEF IsEntries
<1>2. \A j \in DOMAIN x : y[j].text = x[j].text
  BY LineFields
<1>3. \A j \in DOMAIN x : y[j] \in E
  BY DEF LinesOfTexts
<1>4. y = [j \in DOMAIN y |-> y[j]]
  OBVIOUS
<1>5. Texts(y) = [j \in DOMAIN y |-> y[j].text]
  BY DEF Texts
<1> HIDE DEF y, E
<1>6. y \in [1 .. Len(x) -> E]
  BY <1>1, <1>3, <1>4
<1>7. y \in Seq(E)
  BY <1>1, <1>6
<1>8. Texts(y) = Texts(x)
  BY <1>1, <1>2, <1>5 DEF Texts
<1> QED BY <1>7, <1>8 DEF y, E

\* The lines a section is written as are its head and its entries.
LEMMA SectionTexts ==
  ASSUME NEW s, IsEntries(s.ents), NEW L, NEW O, HeadText(s.name) \in L, s.head \in O,
         \A j \in DOMAIN s.ents : s.ents[j].text \in L /\ s.ents[j].eol \in O
  PROVE  SectionLines(s) \in Seq(LinesOfTexts(L, O)) /\ Texts(SectionLines(s)) = Block(s)
<1> DEFINE t == HeadText(s.name)
           h == Line(t, s.head)
           y == [i \in DOMAIN s.ents |-> Line(s.ents[i].text, s.ents[i].eol)]
           E == LinesOfTexts(L, O)
<1>1. SectionLines(s) = <<h>> \o y
  BY DEF SectionLines
<1>2. h.text = t /\ h \in E
  BY LineFields DEF LinesOfTexts
<1>3. y \in Seq(E) /\ Texts(y) = Texts(s.ents)
  BY EntryLines
<1> HIDE DEF t, h, y, E
<1>4. <<h>> \in Seq(E) /\ <<h>> \o y \in Seq(E)
  BY <1>2, <1>3
<1>5. Texts(<<h>> \o y) = Texts(<<h>>) \o Texts(y)
  BY <1>3, <1>4, TextsConcat
<1>6. Texts(<<h>>) = <<t>>
  BY <1>2, OneText
<1> QED BY <1>1, <1>3, <1>4, <1>5, <1>6 DEF Block, t, E

FileTexts(d) == [i \in DOMAIN serialize(d) |-> serialize(d)[i].text]

\* The file a document is written as has the lines of the document, in their order.
LEMMA FileTextsAre ==
  ASSUME NEW d, Whole(d)
  PROVE  FileTexts(d) = AllTexts(d)
<1> DEFINE L == EveryText(d)
           O == {d.pre[j].eol : j \in DOMAIN d.pre} \union {d.secs[i].head : i \in DOMAIN d.secs}
                  \union UNION {{d.secs[i].ents[j].eol : j \in DOMAIN d.secs[i].ents} : i \in DOMAIN d.secs}
           E == LinesOfTexts(L, O)
           p == [i \in DOMAIN d.pre |-> Line(d.pre[i].text, d.pre[i].eol)]
           ss == [i \in DOMAIN d.secs |-> SectionLines(d.secs[i])]
           tt == Blocks(d)
<1>0. IsEntries(d.pre) /\ Len(d.secs) \in Nat /\ DOMAIN d.secs = 1 .. Len(d.secs)
      /\ \A i \in DOMAIN d.secs : IsEntries(d.secs[i].ents)
  BY DocDomain DEF Whole, IsDocument
<1>1. serialize(d) = p \o FlattenSeq(ss)
  BY DEF serialize
<1>2. \A j \in DOMAIN d.pre : d.pre[j].text \in L /\ d.pre[j].eol \in O
  BY DEF EveryText
<1>3. \A i \in DOMAIN d.secs : /\ HeadText(d.secs[i].name) \in L /\ d.secs[i].head \in O
                               /\ \A j \in DOMAIN d.secs[i].ents : d.secs[i].ents[j].text \in L
                                                                   /\ d.secs[i].ents[j].eol \in O
  BY DEF EveryText, TextsOf
<1> HIDE DEF L, O
<1>4. p \in Seq(E) /\ Texts(p) = Texts(d.pre)
  BY <1>0, <1>2, EntryLines
<1>5. \A i \in DOMAIN d.secs : SectionLines(d.secs[i]) \in Seq(E)
                               /\ Texts(SectionLines(d.secs[i])) = Block(d.secs[i])
  BY <1>0, <1>3, SectionTexts
<1>6. \A e \in E : e.text \in L
  BY LineFields DEF LinesOfTexts
<1>7. ss = [i \in 1 .. Len(d.secs) |-> SectionLines(d.secs[i])]
  BY <1>0
<1> HIDE DEF p, ss, E
<1>8. ss \in Seq(Seq(E)) /\ Len(ss) = Len(d.secs)
      /\ \A i \in 1 .. Len(d.secs) : ss[i] = SectionLines(d.secs[i])
  <2> DEFINE S == Seq(E)
             n == Len(d.secs)
  <2>1. \A i \in 1 .. n : SectionLines(d.secs[i]) \in S
    BY <1>0, <1>5
  <2>2. n \in Nat /\ ss = [i \in 1 .. n |-> SectionLines(d.secs[i])]
    BY <1>0, <1>7
  <2> HIDE DEF S, n
  <2>3. ss \in [1 .. n -> S]
    BY <2>1, <2>2
  <2>4. ss \in Seq(S) /\ Len(ss) = n
    BY <2>2, <2>3
  <2> QED BY <2>2, <2>4 DEF S, n
<1>9. tt = [i \in 1 .. Len(ss) |-> Texts(ss[i])]
  BY <1>0, <1>5, <1>8 DEF Blocks
<1> HIDE DEF tt
<1>10. Texts(FlattenSeq(ss)) = FlattenSeq(tt)
  BY <1>6, <1>8, <1>9, FlattenTexts
<1>11. FlattenSeq(ss) \in Seq(E)
  BY <1>8, FlattenHas
<1>12. Texts(p \o FlattenSeq(ss)) = Texts(p) \o Texts(FlattenSeq(ss))
  BY <1>4, <1>11, TextsConcat
<1>13. FileTexts(d) = Texts(serialize(d))
  BY DEF FileTexts, Texts
<1> QED BY <1>1, <1>4, <1>10, <1>12, <1>13 DEF AllTexts, tt

Rejoins(L) == \A x \in Seq(L), y \in Seq(L), z \in Seq(L) : (x \o y) \o z = x \o (y \o z)

\* Putting lists together is associative, over any set.
LEMMA ConcatAssoc == \A L : Rejoins(L)
<1> SUFFICES ASSUME NEW L, NEW x \in Seq(L), NEW y \in Seq(L), NEW z \in Seq(L)
             PROVE  (x \o y) \o z = x \o (y \o z)
  BY DEF Rejoins
<1> QED OBVIOUS

\* A last list grown at its end, a list of none behind.
LEMMA FlattenLonger ==
  ASSUME NEW L, NEW ss \in Seq(Seq(L)), NEW tt \in Seq(Seq(L)), Len(ss) = Len(tt), Len(ss) > 0,
         NEW x \in Seq(L), \A k \in 1 .. Len(ss) : k # Len(ss) => tt[k] = ss[k],
         tt[Len(tt)] = ss[Len(ss)] \o x
  PROVE  FlattenSeq(tt) = FlattenSeq(ss) \o x
<1> DEFINE n == Len(ss)
           m == n - 1
<1>0. n \in Nat /\ m \in Nat /\ n \in 1 .. n /\ (m # 0 => m \in 1 .. Len(ss))
      /\ \A k \in 1 .. m : k \in 1 .. n /\ k # n
  OBVIOUS
<1>1. PICK h : /\ h[0] = <<>>
               /\ \A k \in 1 .. Len(ss) : h[k] = h[k - 1] \o ss[k] /\ h[k] \in Seq(L)
               /\ FlattenSeq(ss) = h[Len(ss)]
  BY FlattenSteps
<1>2. PICK g : /\ g[0] = <<>>
               /\ \A k \in 1 .. Len(tt) : g[k] = g[k - 1] \o tt[k] /\ g[k] \in Seq(L)
               /\ FlattenSeq(tt) = g[Len(tt)]
  BY FlattenSteps
<1>3. \A k \in 1 .. n : k # n => tt[k] = ss[k]
  OBVIOUS
<1>4. Len(ss) = n /\ Len(tt) = n /\ tt[n] = ss[n] \o x /\ ss[n] \in Seq(L)
  BY <1>0
<1>5. \A k \in 1 .. m : g[k - 1] = h[k - 1] => g[k] = h[k]
  <2> HIDE DEF n, m
  <2> QED BY <1>0, <1>1, <1>2, <1>3, <1>4
<1>6. g[m] = h[m]
  <2>1. g[0] = h[0]
    BY <1>1, <1>2
  <2> HIDE DEF m
  <2> QED BY <1>0, <1>5, <2>1, StepsAgree
<1>7. h[m] \in Seq(L)
  <2>1. CASE m = 0
    <3>1. <<>> \in Seq(L)
      OBVIOUS
    <3> QED BY <1>1, <2>1, <3>1
  <2>2. CASE m # 0
    <3>1. m \in 1 .. Len(ss)
      BY <1>0, <2>2
    <3> HIDE DEF m
    <3> QED BY <1>1, <3>1
  <2> QED BY <2>1, <2>2
<1>8. h[n] = h[m] \o ss[n] /\ g[n] = g[m] \o tt[n]
  <2>1. n - 1 = m
    OBVIOUS
  <2> HIDE DEF n, m
  <2> QED BY <1>0, <1>1, <1>2, <1>4, <2>1
<1> DEFINE u == h[m]
           v == ss[n]
<1>9. u \in Seq(L) /\ v \in Seq(L) /\ FlattenSeq(ss) = u \o v /\ FlattenSeq(tt) = u \o (v \o x)
  <2> HIDE DEF n, m
  <2> QED BY <1>1, <1>2, <1>4, <1>6, <1>7, <1>8
<1> HIDE DEF u, v, n, m
<1>11. Rejoins(L)
  BY ConcatAssoc
<1>10. (u \o v) \o x = u \o (v \o x)
  BY <1>9, <1>11 DEF Rejoins
<1> QED BY <1>9, <1>10

LEMMA FlattenNothing == FlattenSeq(<<>>) = <<>>
<1> DEFINE ss == <<>>
<1>1. ss \in Seq(Seq({})) /\ Len(ss) = 0
  OBVIOUS
<1> HIDE DEF ss
<1>2. PICK h : /\ h[0] = <<>>
               /\ \A k \in 1 .. Len(ss) : h[k] = h[k - 1] \o ss[k] /\ h[k] \in Seq({})
               /\ FlattenSeq(ss) = h[Len(ss)]
  BY <1>1, FlattenSteps
<1> QED BY <1>1, <1>2 DEF ss

\* The texts of a document: the same, one more at the end, or one more section.
LEMMA AllSame ==
  ASSUME NEW d, NEW e, Texts(e.pre) = Texts(d.pre), DOMAIN e.secs = DOMAIN d.secs,
         \A i \in DOMAIN d.secs : Block(e.secs[i]) = Block(d.secs[i])
  PROVE  AllTexts(e) = AllTexts(d)
<1>1. Blocks(e) = Blocks(d)
  BY DEF Blocks
<1> QED BY <1>1 DEF AllTexts

\* A line added at the end of the last section, or of the lines before the sections.
LEMMA AllLonger ==
  ASSUME NEW d, Whole(d), NEW e, Whole(e), Len(e.secs) = Len(d.secs), NEW t,
         \/ /\ Len(d.secs) # 0 /\ Texts(e.pre) = Texts(d.pre)
            /\ \A i \in DOMAIN d.secs : i # Len(d.secs) => Block(e.secs[i]) = Block(d.secs[i])
            /\ Block(e.secs[Len(e.secs)]) = Block(d.secs[Len(d.secs)]) \o <<t>>
         \/ Len(d.secs) = 0 /\ Texts(e.pre) = Texts(d.pre) \o <<t>>
  PROVE  AllTexts(e) = AllTexts(d) \o <<t>>
<1> DEFINE L == EveryText(d) \union EveryText(e) \union {t}
           n == Len(d.secs)
           p == Texts(d.pre)
           q == Texts(e.pre)
           x == <<t>>
           ss == Blocks(d)
           tt == Blocks(e)
<1>0. EveryText(d) \subseteq L /\ EveryText(e) \subseteq L /\ t \in L
  OBVIOUS
<1> HIDE DEF L
<1>1. /\ p \in Seq(L) /\ ss \in Seq(Seq(L)) /\ Len(ss) = n /\ n \in Nat
      /\ DOMAIN d.secs = 1 .. n /\ DOMAIN ss = 1 .. n
      /\ q \in Seq(L) /\ tt \in Seq(Seq(L)) /\ Len(tt) = n
      /\ DOMAIN e.secs = 1 .. n /\ DOMAIN tt = 1 .. n
  BY <1>0, BlockIs
<1>2. x \in Seq(L)
  BY <1>0
<1>3. \A i \in 1 .. n : ss[i] = Block(d.secs[i]) /\ tt[i] = Block(e.secs[i])
  BY <1>1 DEF Blocks
<1>4. AllTexts(d) = p \o FlattenSeq(ss) /\ AllTexts(e) = q \o FlattenSeq(tt)
  BY DEF AllTexts
<1>5. FlattenSeq(ss) \in Seq(L)
  <2> HIDE DEF ss
  <2> QED BY <1>1, FlattenHas
<1>6. CASE n # 0 /\ p = q /\ (\A i \in 1 .. n : i # n => Block(e.secs[i]) = Block(d.secs[i]))
           /\ Block(e.secs[n]) = Block(d.secs[n]) \o x
  <2>1. n \in 1 .. n /\ n > 0
    BY <1>1, <1>6
  <2>2. (\A k \in 1 .. n : k # n => tt[k] = ss[k]) /\ tt[n] = ss[n] \o x
    BY <1>3, <1>6, <2>1
  <2> HIDE DEF n, ss, tt, p, q, x
  <2>5. /\ ss \in Seq(Seq(L)) /\ tt \in Seq(Seq(L)) /\ Len(ss) = Len(tt) /\ Len(ss) > 0 /\ x \in Seq(L)
        /\ \A k \in 1 .. Len(ss) : k # Len(ss) => tt[k] = ss[k]
        /\ tt[Len(tt)] = ss[Len(ss)] \o x
    BY <1>1, <1>2, <2>1, <2>2
  <2>3. FlattenSeq(tt) = FlattenSeq(ss) \o x
    BY <2>5, FlattenLonger
  <2>6. Rejoins(L)
    BY ConcatAssoc
  <2>4. (p \o FlattenSeq(ss)) \o x = p \o (FlattenSeq(ss) \o x)
    BY <1>1, <1>2, <1>5, <2>6 DEF Rejoins
  <2> QED BY <1>4, <1>6, <2>3, <2>4 DEF x
<1>7. CASE n = 0 /\ q = p \o x
  <2>1. ss = <<>> /\ tt = <<>>
    <3> HIDE DEF n, ss, tt
    <3> QED BY <1>1, <1>7
  <2> HIDE DEF n, ss, tt, p, q, x
  <2>2. FlattenSeq(ss) = <<>> /\ FlattenSeq(tt) = <<>>
    BY <2>1, FlattenNothing
  <2>3. p \o <<>> = p /\ q \o <<>> = q
    BY <1>1
  <2> QED BY <1>4, <1>7, <2>2, <2>3 DEF x
<1> QED BY <1>1, <1>6, <1>7

\* A section added at the end.
LEMMA AllAdds ==
  ASSUME NEW d, Whole(d), NEW e, Whole(e), Len(e.secs) = Len(d.secs) + 1, Texts(e.pre) = Texts(d.pre),
         \A i \in DOMAIN d.secs : Block(e.secs[i]) = Block(d.secs[i]), e.secs[Len(e.secs)].ents = <<>>
  PROVE  AllTexts(e) = AllTexts(d) \o <<HeadText(e.secs[Len(e.secs)].name)>>
<1> DEFINE t == HeadText(e.secs[Len(e.secs)].name)
           L == EveryText(d) \union EveryText(e) \union {t}
           n == Len(d.secs)
           p == Texts(d.pre)
           x == <<t>>
           ss == Blocks(d)
           tt == Blocks(e)
<1>0. EveryText(d) \subseteq L /\ EveryText(e) \subseteq L /\ t \in L
  OBVIOUS
<1> HIDE DEF L
<1>1. /\ p \in Seq(L) /\ ss \in Seq(Seq(L)) /\ Len(ss) = n /\ n \in Nat
      /\ DOMAIN d.secs = 1 .. n /\ DOMAIN ss = 1 .. n
      /\ tt \in Seq(Seq(L)) /\ Len(tt) = n + 1
      /\ DOMAIN e.secs = 1 .. n + 1 /\ DOMAIN tt = 1 .. n + 1
  BY <1>0, BlockIs
<1>2. x \in Seq(L)
  <2> HIDE DEF t
  <2> QED BY <1>0
<1>3. n + 1 \in 1 .. n + 1 /\ \A i \in 1 .. n : i \in 1 .. n + 1
  BY <1>1
<1>4. Block(e.secs[n + 1]) = x
  <2>1. Texts(<<>>) = <<>>
    BY DEF Texts
  <2>2. Block(e.secs[n + 1]) = x \o Texts(<<>>)
    BY DEF Block
  <2>3. x \o <<>> = x
    <3> HIDE DEF x
    <3> QED BY <1>2
  <2> QED BY <2>1, <2>2, <2>3
<1>5. (\A i \in 1 .. n : tt[i] = ss[i]) /\ tt[n + 1] = x
  BY <1>1, <1>3, <1>4 DEF Blocks
<1>6. AllTexts(d) = p \o FlattenSeq(ss) /\ AllTexts(e) = p \o FlattenSeq(tt)
  BY DEF AllTexts
<1> HIDE DEF n, ss, tt, p, x, t
<1>7. tt = Append(ss, x)
  <2> DEFINE S == Seq(L)
  <2>1. ss \in Seq(S) /\ tt \in Seq(S) /\ x \in S
    BY <1>1, <1>2
  <2> HIDE DEF S
  <2> QED BY <1>1, <1>5, <2>1
<1>8. FlattenSeq(tt) = FlattenSeq(ss) \o x /\ FlattenSeq(ss) \in Seq(L)
  BY <1>1, <1>2, <1>7, FlattenAppend, FlattenHas
<1>10. Rejoins(L)
  BY ConcatAssoc
<1>9. (p \o FlattenSeq(ss)) \o x = p \o (FlattenSeq(ss) \o x)
  BY <1>1, <1>2, <1>8, <1>10 DEF Rejoins
<1> QED BY <1>6, <1>8, <1>9 DEF x, t

\* The section i of a whole document written to, or its first lines.
LEMMA WriteWhole ==
  ASSUME NEW d, Whole(d), NEW i \in DOMAIN d.secs, NEW s, SameHead(d.secs[i], s), IsEntries(s.ents)
  PROVE  LET e == InSection(d, i, s)
         IN  /\ Whole(e) /\ e.pre = d.pre /\ DOMAIN e.secs = DOMAIN d.secs /\ Len(e.secs) = Len(d.secs)
             /\ e.secs[i] = s /\ \A j \in DOMAIN d.secs : j # i => e.secs[j] = d.secs[j]
<1> DEFINE e == InSection(d, i, s)
<1>1. IsDocument(d) /\ IsDoc(d) /\ IsEntries(d.pre)
  BY DEF Whole, IsDocument
<1>2. /\ IsDocument(e) /\ DOMAIN e.secs = DOMAIN d.secs /\ Len(e.secs) = Len(d.secs)
      /\ e.secs[i] = s /\ \A j \in DOMAIN d.secs : j # i => e.secs[j] = d.secs[j]
  BY <1>1, InSectionIs
<1>3. e.pre = d.pre
  <2> DEFINE x == [d.secs EXCEPT ![i] = s]
  <2>1. e = [d EXCEPT !.secs = x]
    BY DEF InSection
  <2> HIDE DEF x, e
  <2> QED BY <1>1, <2>1, DocExcept
<1> QED BY <1>1, <1>2, <1>3 DEF Whole

\* The lines before the sections replaced.
LEMMA PreWhole ==
  ASSUME NEW d, Whole(d), NEW x, IsEntries(x)
  PROVE  LET e == [d EXCEPT !.pre = x] IN Whole(e) /\ e.pre = x /\ e.secs = d.secs
<1> DEFINE e == [d EXCEPT !.pre = x]
<1>1. IsDocument(d) /\ IsDoc(d)
  BY DEF Whole, IsDocument
<1>2. e = [pre |-> x, secs |-> d.secs, dirty |-> d.dirty]
  BY <1>1, DocExcept
<1> HIDE DEF e
<1>3. e.pre = x /\ e.secs = d.secs /\ e.dirty = d.dirty
  BY <1>2
<1>4. e = [pre |-> e.pre, secs |-> e.secs, dirty |-> e.dirty]
  BY <1>2, <1>3
<1>5. IsDoc(e)
  BY <1>1, <1>3, <1>4 DEF IsDoc
<1> QED BY <1>1, <1>3, <1>5 DEF Whole, IsDocument, e

\* A line behind the others of a list of entries.
LEMMA TextsAppend ==
  ASSUME NEW x, IsEntries(x), NEW e, IsEntry(e)
  PROVE  IsEntries(Append(x, e)) /\ Texts(Append(x, e)) = Texts(x) \o <<e.text>>
<1> DEFINE E == {x[j] : j \in DOMAIN x} \union {e}
<1>1. IsEntries(Append(x, e))
  BY AppendKeeps
<1>2. x \in Seq({x[j] : j \in DOMAIN x})
  BY EntriesSeq
<1>3. x \in Seq(E) /\ e \in E
  BY <1>2
<1> HIDE DEF E
<1>4. <<e>> \in Seq(E) /\ Append(x, e) = x \o <<e>>
  BY <1>3
<1>5. Texts(x \o <<e>>) = Texts(x) \o Texts(<<e>>)
  BY <1>3, <1>4, TextsConcat
<1>6. Texts(<<e>>) = <<e.text>>
  BY OneText
<1> QED BY <1>1, <1>4, <1>5, <1>6

\* A terminator is no part of the text of a line.
LEMMA EolTexts ==
  ASSUME NEW x, IsEntries(x), NEW i, NEW eol
  PROVE  LET y == [x EXCEPT ![i].eol = eol] IN IsEntries(y) /\ Texts(y) = Texts(x)
<1> DEFINE y == [x EXCEPT ![i].eol = eol]
           e == WithEol(x[i], eol)
<1>1. y = [x EXCEPT ![i] = e]
  BY DEF WithEol
<1>2. CASE i \in DOMAIN x
  <2>1. IsEntry(x[i])
    BY <1>2 DEF IsEntries
  <2>2. IsEntry(e) /\ e.text = x[i].text
    BY <2>1, EntryWith
  <2> HIDE DEF e, y
  <2>3. IsEntries(y) /\ DOMAIN y = DOMAIN x /\ y[i] = e /\ \A j \in DOMAIN x : j # i => y[j] = x[j]
    BY <1>1, <1>2, <2>2, OneChanged
  <2>4. \A j \in DOMAIN x : y[j].text = x[j].text
    BY <2>2, <2>3
  <2>5. Texts(y) = Texts(x)
    BY <2>3, <2>4 DEF Texts
  <2> QED BY <2>3, <2>5 DEF y
<1>3. CASE i \notin DOMAIN x
  <2>1. x = [j \in DOMAIN x |-> x[j]]
    BY ListLen DEF IsEntries
  <2> HIDE DEF e
  <2>2. [x EXCEPT ![i] = e] = x
    BY <1>3, <2>1
  <2> QED BY <1>1, <2>2
<1> QED BY <1>2, <1>3

LEMMA SectionEol ==
  ASSUME NEW s, IsSection(s), IsEntries(s.ents), NEW eol
  PROVE  LET w == WithEndEol(s, eol) IN SameHead(s, w) /\ IsEntries(w.ents) /\ Block(w) = Block(s)
<1> DEFINE w == WithEndEol(s, eol)
<1>1. /\ SameHead(s, w) /\ IsEntries(w.ents) /\ Len(w.ents) = Len(s.ents)
      /\ \A j \in DOMAIN s.ents : w.ents[j].text = s.ents[j].text
  BY EndEolIs
<1> HIDE DEF w
<1>2. DOMAIN w.ents = DOMAIN s.ents
  BY <1>1, ListLen DEF IsEntries
<1>3. Texts(w.ents) = Texts(s.ents)
  BY <1>1, <1>2 DEF Texts
<1> QED BY <1>1, <1>3 DEF Block, SameHead, w

LEMMA BlankIs == \A style : IsEntry(Entry(BlankText, style)) /\ Entry(BlankText, style).text = BlankText
  BY DEF Entry, IsEntry

\* A line at the end of a section.
LEMMA BlockGrows ==
  ASSUME NEW s, IsSection(s), IsEntries(s.ents), NEW e, IsEntry(e)
  PROVE  LET w == [s EXCEPT !.ents = Append(s.ents, e)]
         IN  SameHead(s, w) /\ IsEntries(w.ents) /\ Block(w) = Block(s) \o <<e.text>>
<1> DEFINE x == Append(s.ents, e)
           w == [s EXCEPT !.ents = x]
           t == e.text
           p == Texts(s.ents)
           L == {s.ents[j].text : j \in DOMAIN s.ents} \union {t, HeadText(s.name)}
<1>1. IsEntries(x) /\ Texts(x) = p \o <<t>>
  BY TextsAppend
<1>2. p \in Seq({s.ents[i].text : i \in DOMAIN s.ents})
  BY EntriesSeq
<1>3. p \in Seq(L)
  <2> HIDE DEF p
  <2> QED BY <1>2
<1> HIDE DEF x
<1>4. SameHead(s, w) /\ w.ents = x
  BY SectionEnts
<1> DEFINE h == HeadText(s.name)
<1>5. h \in L /\ t \in L
  OBVIOUS
<1> HIDE DEF w, L, p, t, h
<1>6. <<h>> \in Seq(L) /\ <<t>> \in Seq(L)
  BY <1>5
<1>7. (<<h>> \o p) \o <<t>> = <<h>> \o (p \o <<t>>)
  BY <1>3, <1>6, ConcatAssoc DEF Rejoins
<1> QED BY <1>1, <1>4, <1>7 DEF Block, SameHead, h, p, t, w, x

\* A section added at the end: what was there comes first, every line of it.
LEMMA AppendTexts ==
  ASSUME NEW d, Whole(d), NEW n, IsName(n), NEW kind
  PROVE  LET f == append_section(d, n, kind)
         IN  /\ Whole(f)
             /\ \/ AllTexts(f) = AllTexts(d) \o <<HeadText(n)>>
                \/ AllTexts(f) = (AllTexts(d) \o <<BlankText>>) \o <<HeadText(n)>>
<1> DEFINE style == file_eol(d)
           bytes == serialize(d)
           open  == bytes # <<>> /\ bytes[Len(bytes)].eol = "none"
           l     == Len(d.secs)
           ended == IF ~open THEN d
                    ELSE IF d.secs # <<>>
                    THEN [d EXCEPT !.secs[Len(d.secs)] = WithEndEol(@, style)]
                    ELSE [d EXCEPT !.pre[Len(d.pre)].eol = style]
           blank == Entry(BlankText, style)
           apart == IF bytes = <<>> \/ last_is_blank(ended) THEN ended
                    ELSE IF d.secs # <<>>
                    THEN [ended EXCEPT !.secs[Len(d.secs)].ents = Append(@, blank)]
                    ELSE [ended EXCEPT !.pre = Append(@, blank)]
           new   == NewSection(n, kind, IF open THEN "none" ELSE style)
           last2 == [apart EXCEPT !.secs = Append(@, new)]
           f     == append_section(d, n, kind)
           Good(e) == Whole(e) /\ Len(e.secs) = l /\ AllTexts(e) = AllTexts(d)
           More(e) == Whole(e) /\ Len(e.secs) = l /\ AllTexts(e) = AllTexts(d) \o <<BlankText>>
<1>0. /\ IsDocument(d) /\ IsDoc(d) /\ IsEntries(d.pre) /\ l \in Nat /\ DOMAIN d.secs = 1 .. l
      /\ d.secs # <<>> <=> l # 0
  <2>1. IsDocument(d) /\ IsDoc(d) /\ IsEntries(d.pre) /\ IsList(d.secs)
    BY DEF Whole, IsDocument, IsDoc
  <2> QED BY <2>1, ListLen
<1>1. f = [last2 EXCEPT !.dirty = TRUE]
  BY DEF append_section
<1>2. Good(ended)
  <2>1. Good(d)
    OBVIOUS
  <2>2. d.secs # <<>> => Good([d EXCEPT !.secs[Len(d.secs)] = WithEndEol(@, style)])
    <3> SUFFICES ASSUME d.secs # <<>> PROVE Good([d EXCEPT !.secs[Len(d.secs)] = WithEndEol(@, style)])
      OBVIOUS
    <3> DEFINE s == WithEndEol(d.secs[l], style)
               e == InSection(d, l, s)
    <3>1. l \in DOMAIN d.secs
      BY <1>0
    <3>2. IsSection(d.secs[l]) /\ IsEntries(d.secs[l].ents)
      BY <1>0, <3>1 DEF IsDocument, IsDoc
    <3> HIDE DEF l
    <3>3. SameHead(d.secs[l], s) /\ IsEntries(s.ents) /\ Block(s) = Block(d.secs[l])
      <4> HIDE DEF style
      <4> QED BY <3>2, SectionEol
    <3> HIDE DEF s, e
    <3>4. /\ Whole(e) /\ e.pre = d.pre /\ DOMAIN e.secs = DOMAIN d.secs /\ Len(e.secs) = Len(d.secs)
          /\ e.secs[l] = s /\ \A j \in DOMAIN d.secs : j # l => e.secs[j] = d.secs[j]
      BY <3>1, <3>3, WriteWhole DEF e
    <3>5. \A j \in DOMAIN d.secs : Block(e.secs[j]) = Block(d.secs[j])
      BY <3>3, <3>4
    <3>6. AllTexts(e) = AllTexts(d)
      BY <3>4, <3>5, AllSame
    <3>7. e = [d EXCEPT !.secs[Len(d.secs)] = WithEndEol(@, style)]
      BY DEF InSection, e, s, l
    <3> QED BY <3>4, <3>6, <3>7 DEF l
  <2>3. Good([d EXCEPT !.pre[Len(d.pre)].eol = style])
    <3> DEFINE k == Len(d.pre)
               x == [d.pre EXCEPT ![k].eol = style]
               e == [d EXCEPT !.pre = x]
    <3>1. IsEntries(x) /\ Texts(x) = Texts(d.pre)
      <4> HIDE DEF k, style
      <4> QED BY <1>0, EolTexts
    <3>2. Whole(e) /\ e.pre = x /\ e.secs = d.secs
      <4> HIDE DEF x
      <4> QED BY <3>1, PreWhole
    <3>3. e = [d EXCEPT !.pre[Len(d.pre)].eol = style]
      OBVIOUS
    <3> HIDE DEF x, e, k, style, l
    <3>4. AllTexts(e) = AllTexts(d)
      BY <3>1, <3>2, AllSame
    <3>5. Len(e.secs) = l
      BY <3>2 DEF l
    <3> QED BY <3>2, <3>3, <3>4, <3>5
  <2> HIDE DEF open, style, Good
  <2> QED BY <2>1, <2>2, <2>3
<1>3. IsEntry(blank) /\ blank.text = BlankText
  BY BlankIs
<1> HIDE DEF ended, blank
<1>4. /\ Whole(ended) /\ Len(ended.secs) = l /\ AllTexts(ended) = AllTexts(d)
      /\ IsDocument(ended) /\ IsDoc(ended) /\ IsEntries(ended.pre) /\ DOMAIN ended.secs = 1 .. l
  BY <1>2, DocDomain DEF Whole, IsDocument
<1>5. Good(apart) \/ More(apart)
  <2>1. d.secs # <<>> => More([ended EXCEPT !.secs[Len(d.secs)].ents = Append(@, blank)])
    <3> SUFFICES ASSUME d.secs # <<>> PROVE More([ended EXCEPT !.secs[Len(d.secs)].ents = Append(@, blank)])
      OBVIOUS
    <3> DEFINE u == ended.secs[l]
               s == [u EXCEPT !.ents = Append(u.ents, blank)]
               e == InSection(ended, l, s)
    <3>1. l \in DOMAIN ended.secs /\ l # 0
      BY <1>0, <1>4
    <3>2. IsSection(u) /\ IsEntries(u.ents)
      BY <1>4, <3>1 DEF IsDocument, IsDoc
    <3>3. e = [ended EXCEPT !.secs[Len(d.secs)].ents = Append(@, blank)]
      BY DEF InSection
    <3> HIDE DEF l, u
    <3>4. SameHead(u, s) /\ IsEntries(s.ents) /\ Block(s) = Block(u) \o <<BlankText>>
      BY <1>3, <3>2, BlockGrows
    <3> HIDE DEF s, e
    <3>5. /\ Whole(e) /\ e.pre = ended.pre /\ DOMAIN e.secs = DOMAIN ended.secs
          /\ Len(e.secs) = Len(ended.secs)
          /\ e.secs[l] = s /\ \A j \in DOMAIN ended.secs : j # l => e.secs[j] = ended.secs[j]
      BY <1>4, <3>1, <3>4, WriteWhole DEF e, u
    <3>7. /\ Whole(ended) /\ Whole(e) /\ Len(e.secs) = Len(ended.secs)
          /\ Len(ended.secs) # 0 /\ Texts(e.pre) = Texts(ended.pre)
      BY <1>4, <3>1, <3>5
    <3>8. \A i \in DOMAIN ended.secs : i # Len(ended.secs) => Block(e.secs[i]) = Block(ended.secs[i])
      BY <1>4, <3>5
    <3>9. Block(e.secs[Len(e.secs)]) = Block(ended.secs[Len(ended.secs)]) \o <<BlankText>>
      BY <1>4, <3>4, <3>5 DEF u
    <3>6. AllTexts(e) = AllTexts(ended) \o <<BlankText>>
      BY <3>7, <3>8, <3>9, AllLonger
    <3> QED BY <1>4, <3>3, <3>5, <3>6
  <2>2. d.secs = <<>> => More([ended EXCEPT !.pre = Append(@, blank)])
    <3> SUFFICES ASSUME d.secs = <<>> PROVE More([ended EXCEPT !.pre = Append(@, blank)])
      OBVIOUS
    <3> DEFINE x == Append(ended.pre, blank)
               e == [ended EXCEPT !.pre = x]
    <3>1. IsEntries(x) /\ Texts(x) = Texts(ended.pre) \o <<BlankText>>
      BY <1>3, <1>4, TextsAppend
    <3>2. l = 0
      BY <1>0
    <3> HIDE DEF x, l
    <3>3. Whole(e) /\ e.pre = x /\ e.secs = ended.secs
      BY <1>4, <3>1, PreWhole
    <3> HIDE DEF e
    <3>5. /\ Whole(ended) /\ Whole(e) /\ Len(e.secs) = Len(ended.secs)
          /\ Len(ended.secs) = 0 /\ Texts(e.pre) = Texts(ended.pre) \o <<BlankText>>
      BY <1>4, <3>1, <3>2, <3>3
    <3>4. AllTexts(e) = AllTexts(ended) \o <<BlankText>>
      BY <3>5, AllLonger
    <3> QED BY <1>4, <3>3, <3>4 DEF e, x
  <2> HIDE DEF bytes, Good, More
  <2> QED BY <1>2, <2>1, <2>2
<1> HIDE DEF apart
<1>6. /\ Whole(apart) /\ IsDoc(apart) /\ IsDocument(apart) /\ IsEntries(apart.pre)
      /\ Len(apart.secs) = l /\ IsList(apart.secs)
      /\ DOMAIN apart.secs = 1 .. l
      /\ \A j \in 1 .. l : IsEntries(apart.secs[j].ents) /\ IsSection(apart.secs[j])
  <2>1. Whole(apart) /\ Len(apart.secs) = l
    BY <1>5
  <2>2. IsDocument(apart) /\ IsDoc(apart) /\ IsEntries(apart.pre)
    BY <2>1 DEF Whole, IsDocument
  <2>3. DOMAIN apart.secs = 1 .. l /\ IsList(apart.secs)
    BY <2>1, <2>2, DocDomain DEF IsDoc
  <2> QED BY <2>1, <2>2, <2>3 DEF IsDocument, IsDoc
<1> DEFINE x == Append(apart.secs, new)
<1>7. IsSection(new) /\ new.name = n /\ new.kind = kind /\ new.ents = <<>>
  BY NewSectionIs
<1> HIDE DEF new
<1>8. /\ IsList(x) /\ Len(x) = l + 1 /\ x[l + 1] = new
      /\ \A i \in 1 .. l : x[i] = apart.secs[i]
  BY <1>6, ListAppend
<1>9. f = [pre |-> apart.pre, secs |-> x, dirty |-> TRUE]
  <2>1. last2 = [apart EXCEPT !.secs = x]
    OBVIOUS
  <2> HIDE DEF x, f
  <2> DEFINE p == apart.pre
             y == apart.dirty
             r == [pre |-> p, secs |-> x, dirty |-> y]
  <2>2. last2 = r
    <3> HIDE DEF last2
    <3> QED BY <1>6, <2>1, DocExcept
  <2>3. \A z : [r EXCEPT !.dirty = z] = [pre |-> p, secs |-> x, dirty |-> z]
    <3> HIDE DEF p, y, last2
    <3> QED BY DocMark
  <2> HIDE DEF last2, r
  <2> QED BY <1>1, <2>2, <2>3
<1> HIDE DEF x, last2, f, l
<1>10. f.pre = apart.pre /\ f.secs = x /\ f = [pre |-> f.pre, secs |-> f.secs, dirty |-> f.dirty]
  BY <1>9
<1>11. DOMAIN x = 1 .. l + 1
  BY <1>8, ListLen
<1>12. IsEntries(<<>>)
  <2> DEFINE z == <<>>
  <2>1. z \in Seq({}) /\ DOMAIN z = {}
    OBVIOUS
  <2> HIDE DEF z
  <2>2. IsList(z)
    BY <2>1, ListOfSeq
  <2>3. IsEntries(z)
    BY <2>1, <2>2 DEF IsEntries
  <2> QED BY <2>3 DEF z
<1>13. \A i \in 1 .. l + 1 : IsSection(x[i]) /\ IsEntries(x[i].ents)
  <2>1. \A i \in 1 .. l + 1 : i \in 1 .. l \/ i = l + 1
    BY <1>0
  <2> QED BY <2>1, <1>6, <1>7, <1>8, <1>12
<1>14. Whole(f)
  BY <1>6, <1>8, <1>10, <1>11, <1>13 DEF Whole, IsDocument, IsDoc
<1>15. /\ Len(f.secs) = Len(apart.secs) + 1 /\ f.pre = apart.pre
       /\ \A i \in DOMAIN apart.secs : Block(f.secs[i]) = Block(apart.secs[i])
       /\ f.secs[Len(f.secs)].ents = <<>> /\ f.secs[Len(f.secs)].name = n
  BY <1>6, <1>7, <1>8, <1>10
<1>16. AllTexts(f) = AllTexts(apart) \o <<HeadText(n)>>
  BY <1>6, <1>14, <1>15, AllAdds
<1>17. AllTexts(apart) = AllTexts(d) \/ AllTexts(apart) = AllTexts(d) \o <<BlankText>>
  BY <1>5
<1> QED BY <1>14, <1>16, <1>17 DEF f

\* The lines of the kinds B are the same, or the old ones and then new ones.
SameLines(d, e, B) == Among(AllTexts(e), B) = Among(AllTexts(d), B)
MoreLines(d, e, B) == IsPrefix(Among(AllTexts(d), B), Among(AllTexts(e), B))

LEMMA PrefixIs == \A L : \A x \in Seq(L), y \in Seq(L) : IsPrefix(x, x) /\ IsPrefix(x, x \o y)
<1> SUFFICES ASSUME NEW L, NEW x \in Seq(L), NEW y \in Seq(L)
             PROVE  IsPrefix(x, x) /\ IsPrefix(x, x \o y)
  OBVIOUS
<1>1. x \o y \in Seq(L) /\ Len(x \o y) = Len(x) + Len(y) /\ Len(x) \in Nat /\ Len(y) \in Nat
      /\ \A j \in 1 .. Len(x) : (x \o y)[j] = x[j]
  OBVIOUS
<1>2. ASSUME NEW z \in Seq(L), Len(x) <= Len(z), \A j \in 1 .. Len(x) : z[j] = x[j]
      PROVE  IsPrefix(x, z)
  <2>1. SubSeq(x, 1, Len(x)) = SubSeq(z, 1, Len(x))
    <3>1. Len(x) \in Nat /\ Len(z) \in Nat
      BY <1>2
    <3>2. /\ SubSeq(x, 1, Len(x)) \in Seq(L) /\ Len(SubSeq(x, 1, Len(x))) = Len(x)
          /\ \A j \in 1 .. Len(x) : SubSeq(x, 1, Len(x))[j] = x[j]
      BY <3>1
    <3>3. /\ SubSeq(z, 1, Len(x)) \in Seq(L) /\ Len(SubSeq(z, 1, Len(x))) = Len(x)
          /\ \A j \in 1 .. Len(x) : SubSeq(z, 1, Len(x))[j] = z[j]
      BY <3>1, <1>2
    <3> DEFINE a == SubSeq(x, 1, Len(x))
               b == SubSeq(z, 1, Len(x))
    <3>4. a \in Seq(L) /\ b \in Seq(L) /\ Len(a) = Len(b) /\ Len(a) = Len(x)
          /\ \A j \in 1 .. Len(x) : a[j] = b[j]
      BY <3>2, <3>3, <1>2
    <3> HIDE DEF a, b
    <3>6. IsList(a) /\ IsList(b)
      BY <3>4, ListOfSeq
    <3>7. /\ DOMAIN a = DOMAIN b /\ DOMAIN a = 1 .. Len(x)
          /\ a = [j \in DOMAIN a |-> a[j]] /\ b = [j \in DOMAIN b |-> b[j]]
      BY <3>4, <3>6, ListLen
    <3>5. a = b
      <4>1. [j \in DOMAIN a |-> a[j]] = [j \in DOMAIN b |-> b[j]]
        BY <3>4, <3>7
      <4> QED BY <3>7, <4>1
    <3> QED BY <3>5 DEF a, b
  <2> QED BY <1>2, <2>1 DEF IsPrefix
<1>3. IsPrefix(x, x)
  BY <1>1, <1>2
<1>4. IsPrefix(x, x \o y)
  <2> DEFINE z == x \o y
  <2>1. z \in Seq(L) /\ Len(x) <= Len(z) /\ \A j \in 1 .. Len(x) : z[j] = x[j]
    BY <1>1
  <2> HIDE DEF z
  <2>2. IsPrefix(x, z)
    BY <1>2, <2>1
  <2> QED BY <2>2 DEF z
<1> QED BY <1>3, <1>4

LEMMA AllIs ==
  ASSUME NEW d, Whole(d), NEW L, EveryText(d) \subseteq L, NEW B
  PROVE  AllTexts(d) \in Seq(L) /\ Among(AllTexts(d), B) \in Seq(L)
<1> DEFINE p == Texts(d.pre)
           ss == Blocks(d)
<1>1. p \in Seq(L) /\ ss \in Seq(Seq(L))
  BY BlockIs
<1> HIDE DEF p, ss
<1>2. FlattenSeq(ss) \in Seq(L)
  BY <1>1, FlattenHas
<1>3. p \o FlattenSeq(ss) \in Seq(L)
  BY <1>1, <1>2
<1>4. AllTexts(d) \in Seq(L)
  BY <1>3 DEF AllTexts, p, ss
<1> HIDE DEF AllTexts
<1> QED BY <1>4, AmongIs

\* The same headers over sections that keep the lines of B.
LEMMA BlocksSame ==
  ASSUME NEW d, Whole(d), NEW e, Whole(e), e.pre = d.pre, Len(e.secs) = Len(d.secs), NEW B,
         \A i \in DOMAIN d.secs :
           e.secs[i].name = d.secs[i].name
           /\ Among(Texts(e.secs[i].ents), B) = Among(Texts(d.secs[i].ents), B)
  PROVE  SameLines(d, e, B)
<1> DEFINE L == EveryText(d) \union EveryText(e)
           n == Len(d.secs)
           p == Texts(d.pre)
           ss == Blocks(d)
           tt == Blocks(e)
<1>0. EveryText(d) \subseteq L /\ EveryText(e) \subseteq L
  OBVIOUS
<1> HIDE DEF L
<1>1. /\ p \in Seq(L) /\ ss \in Seq(Seq(L)) /\ Len(ss) = n /\ n \in Nat
      /\ DOMAIN d.secs = 1 .. n /\ tt \in Seq(Seq(L)) /\ Len(tt) = n /\ DOMAIN e.secs = 1 .. n
      /\ \A i \in DOMAIN d.secs : HeadText(d.secs[i].name) \in L /\ Texts(d.secs[i].ents) \in Seq(L)
      /\ \A i \in DOMAIN e.secs : Texts(e.secs[i].ents) \in Seq(L)
  BY <1>0, BlockIs
<1>2. ASSUME NEW i \in 1 .. n PROVE Among(ss[i], B) = Among(tt[i], B)
  <2> DEFINE h == HeadText(d.secs[i].name)
             x == Texts(d.secs[i].ents)
             y == Texts(e.secs[i].ents)
  <2>1. ss[i] = <<h>> \o x /\ tt[i] = <<h>> \o y
    BY <1>1, <1>2 DEF Blocks, Block
  <2>2. x \in Seq(L) /\ y \in Seq(L) /\ h \in L /\ Among(x, B) = Among(y, B)
    BY <1>1, <1>2
  <2> HIDE DEF h, x, y, ss, tt, n
  <2> DEFINE z == <<h>>
  <2>3. z \in Seq(L)
    BY <2>2
  <2> HIDE DEF z
  <2>4. Among(z \o x, B) = Among(z \o y, B)
    BY <2>2, <2>3, ConcatAgree
  <2> QED BY <2>1, <2>4 DEF z
<1>3. AllTexts(d) = p \o FlattenSeq(ss) /\ AllTexts(e) = p \o FlattenSeq(tt)
  BY DEF AllTexts
<1> HIDE DEF n, p, ss, tt
<1>4. Among(FlattenSeq(ss), B) = Among(FlattenSeq(tt), B)
  BY <1>1, <1>2, FlattenAmong
<1>5. FlattenSeq(ss) \in Seq(L) /\ FlattenSeq(tt) \in Seq(L)
  BY <1>1, FlattenHas
<1> DEFINE u == FlattenSeq(ss)
           v == FlattenSeq(tt)
<1>6. u \in Seq(L) /\ v \in Seq(L) /\ Among(u, B) = Among(v, B)
  BY <1>4, <1>5
<1> HIDE DEF u, v
<1>8. \A x \in Seq(L), y \in Seq(L) : Among(x \o y, B) = Among(x, B) \o Among(y, B)
  BY AmongJoin
<1>7. Among(p \o u, B) = Among(p \o v, B)
  BY <1>1, <1>6, <1>8
<1> QED BY <1>3, <1>7 DEF SameLines, u, v

\* A section added leaves every line before it.
LEMMA AppendLines ==
  ASSUME NEW d, Whole(d), NEW n, IsName(n), NEW kind, NEW B
  PROVE  MoreLines(d, append_section(d, n, kind), B)
<1> DEFINE f == append_section(d, n, kind)
           L == EveryText(d) \union {BlankText, HeadText(n)}
           a == AllTexts(d)
           x == <<BlankText>>
           y == <<HeadText(n)>>
<1>1. a \in Seq(L) /\ Among(a, B) \in Seq(L)
  BY AllIs
<1>2. x \in Seq(L) /\ y \in Seq(L)
  <2> DEFINE u == BlankText
             v == HeadText(n)
  <2>1. u \in L /\ v \in L
    OBVIOUS
  <2> HIDE DEF u, v, L
  <2> QED BY <2>1 DEF u, v
<1>3. AllTexts(f) = a \o y \/ AllTexts(f) = (a \o x) \o y
  BY AppendTexts
<1> HIDE DEF f, L, a, x, y
<1>4. (a \o x) \o y = a \o (x \o y) /\ x \o y \in Seq(L)
  BY <1>1, <1>2, ConcatAssoc DEF Rejoins
<1>5. PICK r \in Seq(L) : AllTexts(f) = a \o r
  BY <1>2, <1>3, <1>4
<1>6. Among(a \o r, B) = Among(a, B) \o Among(r, B)
  BY <1>1, AmongConcat
<1>7. Among(r, B) \in Seq(L)
  BY AmongIs
<1>8. IsPrefix(Among(a, B), Among(a, B) \o Among(r, B))
  BY <1>1, <1>7, PrefixIs
<1> QED BY <1>5, <1>6, <1>8 DEF MoreLines, f, a

\* A section of the document, or of one made behind it, is written to, and
\* keeps the lines of B.
LEMMA WriteLines ==
  ASSUME NEW d, Whole(d), NEW n, IsName(n), NEW kind, NEW base,
         base = d \/ base = append_section(d, n, kind), NEW i \in DOMAIN base.secs,
         NEW s, SameHead(base.secs[i], s), IsEntries(s.ents)
  PROVE  /\ Whole(InSection(base, i, s))
         /\ \A B : Keeps(base.secs[i].ents, s.ents, B) => MoreLines(d, InSection(base, i, s), B)
<1> DEFINE e == InSection(base, i, s)
<1>1. Whole(base)
  BY AppendTexts
<1>2. /\ Whole(e) /\ e.pre = base.pre /\ DOMAIN e.secs = DOMAIN base.secs /\ Len(e.secs) = Len(base.secs)
      /\ e.secs[i] = s /\ \A j \in DOMAIN base.secs : j # i => e.secs[j] = base.secs[j]
  BY <1>1, WriteWhole
<1> HIDE DEF e
<1>3. ASSUME NEW B, Keeps(base.secs[i].ents, s.ents, B) PROVE MoreLines(d, e, B)
  <2>1. MoreLines(d, base, B)
    <3>1. CASE base = d
      <4> DEFINE L == EveryText(d)
      <4>1. Among(AllTexts(d), B) \in Seq(L)
        BY AllIs
      <4> HIDE DEF L
      <4>2. IsPrefix(Among(AllTexts(d), B), Among(AllTexts(d), B))
        BY <4>1, PrefixIs
      <4> QED BY <3>1, <4>2 DEF MoreLines
    <3>2. CASE base = append_section(d, n, kind)
      BY <3>2, AppendLines
    <3> QED BY <3>1, <3>2
  <2>2. \A j \in DOMAIN base.secs :
          e.secs[j].name = base.secs[j].name
          /\ Among(Texts(e.secs[j].ents), B) = Among(Texts(base.secs[j].ents), B)
    BY <1>2, <1>3 DEF SameHead, Keeps
  <2>3. SameLines(base, e, B)
    BY <1>1, <1>2, <2>2, BlocksSame
  <2> QED BY <2>1, <2>3 DEF SameLines, MoreLines
<1> QED BY <1>2, <1>3 DEF e

\* Sections that lost only lines outside B.
LEMMA ThinnedLines ==
  ASSUME NEW d, Whole(d), NEW e, e.pre = d.pre, NEW b, NEW D, Thinned(d, e, b, D)
  PROVE  Whole(e) /\ \A B : (\A t \in D : t \notin B) => MoreLines(d, e, B)
<1>1. IsDoc(d) /\ IsDocument(e) /\ SameHeads(d, e) /\ DOMAIN e.secs = DOMAIN d.secs
  BY DEF Whole, IsDocument, Thinned
<1>2. Whole(e) /\ Len(e.secs) = Len(d.secs)
  BY <1>1 DEF Whole, SameHeads
<1>3. ASSUME NEW B, \A t \in D : t \notin B PROVE MoreLines(d, e, B)
  <2>1. ASSUME NEW i \in DOMAIN d.secs
        PROVE  /\ e.secs[i].name = d.secs[i].name
               /\ Among(Texts(e.secs[i].ents), B) = Among(Texts(d.secs[i].ents), B)
    <3>1. e.secs[i].name = d.secs[i].name
      BY <1>1 DEF SameHeads, SameHead
    <3>2. e.secs[i] = d.secs[i] \/ Keeps(d.secs[i].ents, e.secs[i].ents, B)
      BY <1>3 DEF Thinned
    <3> QED BY <3>1, <3>2 DEF Keeps
  <2>2. SameLines(d, e, B)
    BY <1>2, <2>1, BlocksSame
  <2> DEFINE L == EveryText(d)
  <2>3. Among(AllTexts(d), B) \in Seq(L)
    BY AllIs
  <2> HIDE DEF L
  <2>4. IsPrefix(Among(AllTexts(d), B), Among(AllTexts(d), B))
    BY <2>3, PrefixIs
  <2> QED BY <2>2, <2>4 DEF SameLines, MoreLines
<1> QED BY <1>2, <1>3

\* A file opened is whole.
LEMMA ParseWhole ==
  ASSUME NEW f, IsFile(f)
  PROVE  Whole(parse(f))
<1> DEFINE p == parse(f)
<1>1. PICK X, E : p \in DocsOf(X, E) /\ \A x \in X : IsText(x)
  BY ParseIs
<1>2. IsDocument(p)
  BY ParseLeaves
<1> HIDE DEF p
<1>3. \A e \in EntriesOf(X, E) : IsEntry(e)
  BY DEF EntriesOf, Entry, IsEntry
<1>4. p.pre \in Seq(EntriesOf(X, E))
  BY <1>1 DEF DocsOf
<1>5. IsEntries(p.pre)
  BY <1>3, <1>4, SeqEntries
<1> QED BY <1>2, <1>5 DEF Whole, p

\* The operations on whole sections leave the first lines.
LEMMA PreSame ==
  ASSUME NEW d, IsDoc(d), NEW b, NEW c
  PROVE  /\ clear_binding(d, b, c).pre = d.pre /\ clear_label(d, b, c).pre = d.pre
         /\ remove_chord(d, b, c).pre = d.pre /\ remove_layer(d, b).pre = d.pre
         /\ \A old, new : rename_layer(d, old, new).pre = d.pre
<1>1. \A x : [d EXCEPT !.secs = x].pre = d.pre
  BY DocExcept
<1>2. \A x : [d EXCEPT !.secs = x, !.dirty = TRUE].pre = d.pre
  <2> SUFFICES ASSUME NEW x PROVE [d EXCEPT !.secs = x, !.dirty = TRUE].pre = d.pre
    OBVIOUS
  <2> DEFINE p == d.pre
             s == d.secs
             y == d.dirty
             r == [pre |-> p, secs |-> s, dirty |-> y]
  <2>1. d = r
    BY DEF IsDoc
  <2>2. [r EXCEPT !.secs = x, !.dirty = TRUE].pre = p
    <3> HIDE DEF p, s, y
    <3> QED OBVIOUS
  <2> HIDE DEF r
  <2> QED BY <2>1, <2>2
<1>3. clear_binding(d, b, c).pre = d.pre /\ clear_label(d, b, c).pre = d.pre /\ remove_chord(d, b, c).pre = d.pre
  BY <1>1 DEF clear_binding, clear_label, remove_chord, OnBoard
<1>4. remove_layer(d, b).pre = d.pre
  BY <1>2 DEF remove_layer
<1>5. ASSUME NEW old, NEW new PROVE rename_layer(d, old, new).pre = d.pre
  BY <1>2 DEF rename_layer
<1> QED BY <1>3, <1>4, <1>5

\* B has no line of key c.
Spares(B, c) == \A t \in B : ~(t.k \in {"bind", "label"} /\ t.key = c)

\* The lines an edit of a key writes are its own.
LEMMA TypedLines ==
  ASSUME NEW c, NEW v, NEW t, NEW B, Spares(B, c)
  PROVE  BindText(c, v) \notin B /\ LabelText(c, t) \notin B
<1>1. /\ BindText(c, v).k = "bind" /\ BindText(c, v).key = c
      /\ LabelText(c, t).k = "label" /\ LabelText(c, t).key = c
  BY DEF BindText, LabelText
<1> QED BY <1>1 DEF Spares

\* The operations on a key write a whole document, and leave the other lines.
LEMMA SetLines ==
  ASSUME NEW d, Whole(d), NEW b, HasBoard(d, b), NEW c, NEW v
  PROVE  /\ Whole(set_layer_binding(d, b, c, v))
         /\ \A B : Spares(B, c) => MoreLines(d, set_layer_binding(d, b, c, v), B)
<1>0. IsDocument(d) /\ IsName(PlainName(Main))
  BY PlainIsName DEF Whole
<1> DEFINE e == set_layer_binding(d, b, c, v)
           n == PlainName(Main)
           style == file_eol(d)
<1> HIDE DEF e, n, style
<1>1. PICK base, i : OnMain(d, base, i) /\ e = InSection(base, i, set_or_add_binding(base.secs[i], c, v, style))
  BY <1>0, BindingWhere DEF e, style
<1> DEFINE x == base.secs[i]
           s == set_or_add_binding(x, c, v, style)
<1>2. /\ base = d \/ base = append_section(d, n, "main")
      /\ i \in DOMAIN base.secs /\ IsSection(x) /\ IsEntries(x.ents)
  BY <1>1 DEF OnMain, Target, n
<1> HIDE DEF x
<1>3. SameHead(x, s) /\ \E p : /\ Puts(x.ents, s.ents, p, BindText(c, v))
                               /\ Replaced(x.ents, s.ents, p, BindText(c, v)) => Binds(x.ents[p], c)
  BY <1>2, SetLast
<1> HIDE DEF s
<1>4. PICK p : /\ Puts(x.ents, s.ents, p, BindText(c, v))
               /\ Replaced(x.ents, s.ents, p, BindText(c, v)) => Binds(x.ents[p], c)
  BY <1>3
<1>5. IsEntries(s.ents)
  BY <1>4 DEF Puts, Replaced, Inserted
<1>6. e = InSection(base, i, s) /\ SameHead(base.secs[i], s)
  BY <1>1, <1>3 DEF s, x
<1>7. /\ Whole(InSection(base, i, s))
      /\ \A B : Keeps(base.secs[i].ents, s.ents, B) => MoreLines(d, InSection(base, i, s), B)
  BY <1>0, <1>2, <1>5, <1>6, WriteLines DEF n
<1>8. ASSUME NEW B, Spares(B, c) PROVE Keeps(x.ents, s.ents, B)
  <2>1. BindText(c, v) \notin B
    BY <1>8, TypedLines
  <2>2. Replaced(x.ents, s.ents, p, BindText(c, v)) => x.ents[p].text \notin B
    BY <1>4, <1>8 DEF Binds, Spares
  <2> QED BY <1>2, <1>4, <2>1, <2>2, PutKeeps
<1> QED BY <1>6, <1>7, <1>8 DEF e, x

\* A label written leaves every line of another key.
LEMMA LabelLines ==
  ASSUME NEW d, Whole(d), NEW b, HasBoard(d, b), NEW c, NEW t
  PROVE  /\ Whole(set_label(d, b, c, t))
         /\ \A B : Spares(B, c) => MoreLines(d, set_label(d, b, c, t), B)
<1>0. IsDocument(d) /\ IsName(PlainName(Main))
  BY PlainIsName DEF Whole
<1> DEFINE e == set_label(d, b, c, t)
           n == PlainName(Main)
           style == file_eol(d)
<1> HIDE DEF e, n, style
<1>1. PICK base, i : OnMain(d, base, i) /\ e = InSection(base, i, SectionSetLabel(base.secs[i], c, t, style))
  BY <1>0, LabelWhere DEF e, style
<1> DEFINE x == base.secs[i]
           s == SectionSetLabel(x, c, t, style)
<1>2. /\ base = d \/ base = append_section(d, n, "main")
      /\ i \in DOMAIN base.secs /\ IsSection(x) /\ IsEntries(x.ents)
  BY <1>1 DEF OnMain, Target, n
<1> HIDE DEF x
<1>3. SameHead(x, s) /\ \E p : /\ Puts(x.ents, s.ents, p, LabelText(c, t))
                               /\ Replaced(x.ents, s.ents, p, LabelText(c, t)) => Labels(x.ents[p], c)
  BY <1>2, LabelIs
<1> HIDE DEF s
<1>4. PICK p : /\ Puts(x.ents, s.ents, p, LabelText(c, t))
               /\ Replaced(x.ents, s.ents, p, LabelText(c, t)) => Labels(x.ents[p], c)
  BY <1>3
<1>5. IsEntries(s.ents)
  BY <1>4 DEF Puts, Replaced, Inserted
<1>6. e = InSection(base, i, s) /\ SameHead(base.secs[i], s)
  BY <1>1, <1>3 DEF s, x
<1>7. /\ Whole(InSection(base, i, s))
      /\ \A B : Keeps(base.secs[i].ents, s.ents, B) => MoreLines(d, InSection(base, i, s), B)
  BY <1>0, <1>2, <1>5, <1>6, WriteLines DEF n
<1>8. ASSUME NEW B, Spares(B, c) PROVE Keeps(x.ents, s.ents, B)
  <2>1. LabelText(c, t) \notin B
    BY <1>8, TypedLines
  <2>2. Replaced(x.ents, s.ents, p, LabelText(c, t)) => x.ents[p].text \notin B
    BY <1>4, <1>8 DEF Labels, Spares
  <2> QED BY <1>2, <1>4, <2>1, <2>2, PutKeeps
<1> QED BY <1>6, <1>7, <1>8 DEF e, x

\* An option likewise.
LEMMA OptionLines ==
  ASSUME NEW d, Whole(d), NEW c, NEW v
  PROVE  /\ Whole(set_global_option(d, c, v))
         /\ \A B : Spares(B, c) => MoreLines(d, set_global_option(d, c, v), B)
<1>0. IsDocument(d) /\ IsName(PlainName(<<"global">>))
  BY PlainIsName DEF Whole
<1> DEFINE e == set_global_option(d, c, v)
           n == PlainName(<<"global">>)
           style == file_eol(d)
<1> HIDE DEF e, n, style
<1>1. PICK base, i : /\ Target(d, n, "global", base, i)
                     /\ e = InSection(base, i, set_or_add_binding(base.secs[i], c, v, style))
  BY <1>0, OptionWhere DEF e, style, n
<1> DEFINE x == base.secs[i]
           s == set_or_add_binding(x, c, v, style)
<1>2. /\ base = d \/ base = append_section(d, n, "global")
      /\ i \in DOMAIN base.secs /\ IsSection(x) /\ IsEntries(x.ents)
  BY <1>1 DEF Target
<1> HIDE DEF x
<1>3. SameHead(x, s) /\ \E p : /\ Puts(x.ents, s.ents, p, BindText(c, v))
                               /\ Replaced(x.ents, s.ents, p, BindText(c, v)) => Binds(x.ents[p], c)
  BY <1>2, SetLast
<1> HIDE DEF s
<1>4. PICK p : /\ Puts(x.ents, s.ents, p, BindText(c, v))
               /\ Replaced(x.ents, s.ents, p, BindText(c, v)) => Binds(x.ents[p], c)
  BY <1>3
<1>5. IsEntries(s.ents)
  BY <1>4 DEF Puts, Replaced, Inserted
<1>6. e = InSection(base, i, s) /\ SameHead(base.secs[i], s)
  BY <1>1, <1>3 DEF s, x
<1>7. /\ Whole(InSection(base, i, s))
      /\ \A B : Keeps(base.secs[i].ents, s.ents, B) => MoreLines(d, InSection(base, i, s), B)
  BY <1>0, <1>2, <1>5, <1>6, WriteLines DEF n
<1>8. ASSUME NEW B, Spares(B, c) PROVE Keeps(x.ents, s.ents, B)
  <2>1. BindText(c, v) \notin B
    BY <1>8, TypedLines
  <2>2. Replaced(x.ents, s.ents, p, BindText(c, v)) => x.ents[p].text \notin B
    BY <1>4, <1>8 DEF Binds, Spares
  <2> QED BY <1>2, <1>4, <2>1, <2>2, PutKeeps
<1> QED BY <1>6, <1>7, <1>8 DEF e, x

LEMMA ChordWhole ==
  ASSUME NEW d, Whole(d), NEW b, HasBoard(d, b), NEW c, NEW v
  PROVE  Whole(set_layer_chord(d, b, c, v))
<1>0. IsDocument(d) /\ IsName(PlainName(Main))
  BY PlainIsName DEF Whole
<1> DEFINE e == set_layer_chord(d, b, c, v)
           n == PlainName(Main)
           style == file_eol(d)
<1> HIDE DEF e, n, style
<1>1. PICK base, i, y : /\ OnMain(d, base, i)
                        /\ e = InSection(base, i, set_or_add_binding(base.secs[i], y, v, style))
  BY <1>0, ChordWhere DEF e, style, ChordGoes
<1> DEFINE x == base.secs[i]
           s == set_or_add_binding(x, y, v, style)
<1>2. /\ base = d \/ base = append_section(d, n, "main")
      /\ i \in DOMAIN base.secs /\ IsSection(x) /\ IsEntries(x.ents)
  BY <1>1 DEF OnMain, Target, n
<1> HIDE DEF x
<1>3. SameHead(x, s) /\ \E p : Puts(x.ents, s.ents, p, BindText(y, v))
  BY <1>2, SetLast
<1> HIDE DEF s
<1>5. IsEntries(s.ents)
  BY <1>3 DEF Puts, Replaced, Inserted
<1>6. e = InSection(base, i, s) /\ SameHead(base.secs[i], s)
  BY <1>1, <1>3 DEF s, x
<1>7. Whole(InSection(base, i, s))
  BY <1>0, <1>2, <1>5, <1>6, WriteLines DEF n
<1> QED BY <1>6, <1>7 DEF e

\* Clearing leaves every line of another key, and takes none.
LEMMA ClearLines ==
  ASSUME NEW d, Whole(d), NEW b, NEW c
  PROVE  /\ Whole(clear_binding(d, b, c)) /\ Whole(clear_label(d, b, c)) /\ Whole(remove_chord(d, b, c))
         /\ \A B : Spares(B, c) => /\ MoreLines(d, clear_binding(d, b, c), B)
                                   /\ MoreLines(d, clear_label(d, b, c), B)
<1>0. IsDocument(d) /\ IsDoc(d)
  BY DEF Whole, IsDocument
<1>1. ASSUME NEW e \in {clear_binding(d, b, c), clear_label(d, b, c), remove_chord(d, b, c)} PROVE e.pre = d.pre
  BY <1>0, <1>1, PreSame
<1>2. Whole(clear_binding(d, b, c)) /\ \A B : Spares(B, c) => MoreLines(d, clear_binding(d, b, c), B)
  <2> DEFINE e == clear_binding(d, b, c)
             D == {t \in TextsOf(d) : t.k = "bind" /\ t.key = c}
  <2>0. e.pre = d.pre
    BY <1>1
  <2>1. Thinned(d, e, b, D)
    BY <1>0, ClearsThin
  <2>2. \A B : Spares(B, c) => \A t \in D : t \notin B
    BY DEF Spares
  <2> HIDE DEF e, D
  <2>3. Whole(e) /\ \A B : (\A t \in D : t \notin B) => MoreLines(d, e, B)
    BY <2>0, <2>1, ThinnedLines
  <2> QED BY <2>2, <2>3 DEF e
<1>3. Whole(clear_label(d, b, c)) /\ \A B : Spares(B, c) => MoreLines(d, clear_label(d, b, c), B)
  <2> DEFINE e == clear_label(d, b, c)
             D == {t \in TextsOf(d) : t.k = "label" /\ t.key = c}
  <2>0. e.pre = d.pre
    BY <1>1
  <2>1. Thinned(d, e, b, D)
    BY <1>0, ClearsThin
  <2>2. \A B : Spares(B, c) => \A t \in D : t \notin B
    BY DEF Spares
  <2> HIDE DEF e, D
  <2>3. Whole(e) /\ \A B : (\A t \in D : t \notin B) => MoreLines(d, e, B)
    BY <2>0, <2>1, ThinnedLines
  <2> QED BY <2>2, <2>3 DEF e
<1>4. Whole(remove_chord(d, b, c))
  BY <1>0, <1>1, ChordDocument DEF Whole
<1> QED BY <1>2, <1>3, <1>4

\* An option cleared leaves every line of another.
LEMMA UnglobalLines ==
  ASSUME NEW d, Whole(d), NEW c
  PROVE  /\ Whole(clear_global(d, c))
         /\ \A B : Spares(B, c) => MoreLines(d, clear_global(d, c), B)
<1> DEFINE n == PlainName(<<"global">>)
           i == SelectInSeq(d.secs, LAMBDA s : s.name = PlainName(<<"global">>))
           I == {x \in 1 .. Len(d.secs) : d.secs[x].name = n}
           e == clear_global(d, c)
<1>0. /\ IsDocument(d) /\ IsDoc(d) /\ IsName(n) /\ Len(d.secs) \in Nat /\ DOMAIN d.secs = 1 .. Len(d.secs)
  BY DocDomain, PlainIsName DEF Whole, IsDocument
<1>1. e = IF i = 0 THEN d ELSE InSection(d, i, remove_binding(d.secs[i], c))
  BY DEF clear_global
<1>2. i # 0 => i \in DOMAIN d.secs
  <2>1. i = IF I # {} THEN Min(I) ELSE 0
    BY DEF SelectInSeq
  <2>2. I \in SUBSET Nat /\ I \subseteq DOMAIN d.secs
    BY <1>0
  <2> HIDE DEF i, n, I
  <2> QED BY <2>1, <2>2, MinIs
<1> HIDE DEF i, I, n, e
<1>3. CASE i = 0
  <2> DEFINE L == EveryText(d)
  <2>1. \A B : Among(AllTexts(d), B) \in Seq(L)
    BY AllIs
  <2> HIDE DEF L
  <2>2. \A B : MoreLines(d, d, B)
    BY <2>1, PrefixIs DEF MoreLines
  <2> QED BY <1>1, <1>3, <2>2 DEF e
<1>4. CASE i # 0
  <2> DEFINE x == d.secs[i]
             s == remove_binding(x, c)
  <2>1. i \in DOMAIN d.secs /\ IsSection(x) /\ IsEntries(x.ents)
    BY <1>0, <1>2, <1>4 DEF IsDocument, IsDoc
  <2> HIDE DEF x
  <2>2. /\ SameHead(x, s) /\ IsEntries(s.ents)
        /\ \A B : (\A j \in DOMAIN x.ents : ~Binds(x.ents[j], c) \/ x.ents[j].text \notin B)
                    => Keeps(x.ents, s.ents, B)
    BY <2>1, DropIs
  <2>3. e = InSection(d, i, s)
    BY <1>1, <1>4 DEF x
  <2> HIDE DEF s
  <2>4. /\ Whole(InSection(d, i, s))
        /\ \A B : Keeps(d.secs[i].ents, s.ents, B) => MoreLines(d, InSection(d, i, s), B)
    BY <1>0, <2>1, <2>2, WriteLines DEF x
  <2>5. ASSUME NEW B, Spares(B, c) PROVE Keeps(x.ents, s.ents, B)
    BY <2>2, <2>5 DEF Spares, Binds
  <2> QED BY <2>3, <2>4, <2>5 DEF e, x
<1> QED BY <1>3, <1>4

\* A layer added leaves every line; adding, removing and renaming leave a document.
LEMMA LayersWhole ==
  ASSUME NEW d, Whole(d), Sound(d)
  PROVE  /\ \A n : /\ Whole(add_layer(d, n))
                   /\ \A B : MoreLines(d, add_layer(d, n), B)
         /\ \A b : Whole(remove_layer(d, b))
         /\ \A old, new : CanRename(d, old, new) => Whole(rename_layer(d, old, new))
<1>0. IsDoc(d) /\ IsEntries(d.pre)
  BY DEF Whole, IsDocument
<1>1. ASSUME NEW n PROVE Whole(add_layer(d, n)) /\ \A B : MoreLines(d, add_layer(d, n), B)
  <2> DEFINE m == PlainName(<<n>>)
  <2>1. IsName(m)
    BY PlainIsName
  <2>2. add_layer(d, n) = append_section(d, m, section_kind(m))
    BY DEF add_layer
  <2> HIDE DEF m
  <2> QED BY <2>1, <2>2, AppendTexts, AppendLines
<1>2. ASSUME NEW b PROVE Whole(remove_layer(d, b))
  BY <1>0, PreSame, LayerSound DEF Whole, Sound
<1>3. ASSUME NEW old, NEW new, CanRename(d, old, new) PROVE Whole(rename_layer(d, old, new))
  BY <1>0, <1>3, PreSame, LayerSound DEF Whole, Sound
<1> QED BY <1>1, <1>2, <1>3

\* The lines not of a key, as a part of any list that has them all.
NotOf(L, c) == {t \in L : t.k \in {"blank", "prose", "head"} \/ t.key # c}

\* The lines of the file that are not of a key are a selection of the document's.
LEMMA TextsNotOfIs ==
  ASSUME NEW d, Whole(d), NEW L, EveryText(d) \subseteq L, NEW c
  PROVE  TextsNotOf(d, c) = Among(AllTexts(d), NotOf(L, c))
<1> DEFINE s == AllTexts(d)
           S == {t \in ToSet(FileTexts(d)) : t.k \in {"blank", "prose", "head"} \/ t.key # c}
           T == NotOf(L, c)
<1>1. FileTexts(d) = s /\ s \in Seq(L)
  BY FileTextsAre, AllIs
<1>2. TextsNotOf(d, c) = Among(FileTexts(d), S)
  BY DEF TextsNotOf, FileTexts
<1>3. \A k \in 1 .. Len(s) : s[k] \in ToSet(FileTexts(d)) /\ s[k] \in L
  <2> HIDE DEF s
  <2>1. DOMAIN s = 1 .. Len(s) /\ \A k \in 1 .. Len(s) : s[k] \in L
    BY <1>1
  <2> QED BY <1>1, <2>1 DEF ToSet
<1>4. \A k \in 1 .. Len(s) : s[k] \in S <=> s[k] \in T
  BY <1>3 DEF NotOf
<1> HIDE DEF s, S, T
<1>5. Among(s, S) = Among(s, T)
  BY <1>1, <1>4, AmongSame
<1> QED BY <1>1, <1>2, <1>5 DEF s, T

\* ... and stay in their order, ahead of what is added, when the selections an edit leaves do.
LEMMA OthersFrom ==
  ASSUME NEW d, Whole(d), NEW e, Whole(e), NEW c, \A B : Spares(B, c) => MoreLines(d, e, B)
  PROVE  IsPrefix(TextsNotOf(d, c), TextsNotOf(e, c))
<1> DEFINE L == EveryText(d) \union EveryText(e)
           B == NotOf(L, c)
<1>1. EveryText(d) \subseteq L /\ EveryText(e) \subseteq L
  OBVIOUS
<1>2. Spares(B, c)
  BY DEF Spares, NotOf
<1> HIDE DEF L
<1>3. TextsNotOf(d, c) = Among(AllTexts(d), B) /\ TextsNotOf(e, c) = Among(AllTexts(e), B)
  BY <1>1, TextsNotOfIs
<1> QED BY <1>2, <1>3 DEF MoreLines

LinesKept(d, e, c) == \A B : Spares(B, c) => MoreLines(d, e, B)

LEMMA DidLines ==
  ASSUME Whole(edit), NEW op, NEW b, NEW c, NEW v, NEW d, Mutates(Did(op, b, c, v), d), Whole(d),
         op \in KeyOps => LinesKept(edit, d, c)
  PROVE  Whole(edit') /\ OtherLinesStay
<1>1. edit' = d /\ last' = Did(op, b, c, v)
  BY DEF Mutates
<1>2. last'.op = op /\ last'.key = c
  BY <1>1, DidFields
<1>3. LinesKept(edit, d, c) => IsPrefix(TextsNotOf(edit, c), TextsNotOf(d, c))
  BY OthersFrom DEF LinesKept
<1> QED BY <1>1, <1>2, <1>3 DEF OtherLinesStay

\* The operations that write a value leave the lines of other keys.
LEMMA SetsLines ==
  ASSUME Whole(edit)
  PROVE  /\ \A b, c, v : SetBinding(b, c, v) => Whole(edit') /\ OtherLinesStay
         /\ \A b, k, kind, n : SetLayerAction(b, k, kind, n) => Whole(edit') /\ OtherLinesStay
         /\ \A b, k, n, tap, feel : SetTapHold(b, k, n, tap, feel) => Whole(edit') /\ OtherLinesStay
         /\ \A b, k, v : SetMacro(b, k, v) => Whole(edit') /\ OtherLinesStay
<1>1. ASSUME NEW op, NEW b, HasBoard(edit, b), NEW c, NEW v,
             Mutates(Did(op, b, c, v), set_layer_binding(edit, b, c, v))
      PROVE  Whole(edit') /\ OtherLinesStay
  <2> DEFINE d == set_layer_binding(edit, b, c, v)
  <2>1. Whole(d) /\ LinesKept(edit, d, c)
    BY <1>1, SetLines DEF LinesKept
  <2>2. Mutates(Did(op, b, c, v), d)
    BY <1>1
  <2> HIDE DEF d
  <2> QED BY <2>1, <2>2, DidLines
<1>2. ASSUME NEW b, NEW c, NEW v, SetBinding(b, c, v) PROVE Whole(edit') /\ OtherLinesStay
  BY <1>1, <1>2 DEF SetBinding
<1>3. ASSUME NEW b, NEW k, NEW kind, NEW n, SetLayerAction(b, k, kind, n) PROVE Whole(edit') /\ OtherLinesStay
  BY <1>1, <1>3 DEF SetLayerAction
<1>4. ASSUME NEW b, NEW k, NEW n, NEW tap, NEW feel, SetTapHold(b, k, n, tap, feel)
      PROVE  Whole(edit') /\ OtherLinesStay
  <2> DEFINE v == TapHoldValue(ComposeTapHold(current_tap_hold(edit, b, k), n, tap, feel))
  <2>1. HasBoard(edit, b) /\ Mutates(Did("taphold", b, <<k>>, v), set_layer_binding(edit, b, <<k>>, v))
    BY <1>4 DEF SetTapHold
  <2> HIDE DEF v
  <2> QED BY <1>1, <2>1
<1>5. ASSUME NEW b, NEW k, NEW v, SetMacro(b, k, v) PROVE Whole(edit') /\ OtherLinesStay
  BY <1>1, <1>5 DEF SetMacro
<1> QED BY <1>2, <1>3, <1>4, <1>5

LEMMA OthersLines ==
  ASSUME Whole(edit), Sound(edit)
  PROVE  /\ \A b, c : ClearBinding(b, c) => Whole(edit') /\ OtherLinesStay
         /\ \A b, c, t : SetLabel(b, c, t) => Whole(edit') /\ OtherLinesStay
         /\ \A b, c : ClearLabel(b, c) => Whole(edit') /\ OtherLinesStay
         /\ \A b, c, v : SetChord(b, c, v) => Whole(edit') /\ OtherLinesStay
         /\ \A b, c : RemoveChord(b, c) => Whole(edit') /\ OtherLinesStay
         /\ \A o, v : SetGlobal(o, v) => Whole(edit') /\ OtherLinesStay
         /\ \A o : ClearGlobal(o) => Whole(edit') /\ OtherLinesStay
         /\ \A n : AddLayer(n) => Whole(edit') /\ OtherLinesStay
         /\ \A b : RemoveLayer(b) => Whole(edit') /\ OtherLinesStay
         /\ \A old, new : RenameLayer(old, new) => Whole(edit') /\ OtherLinesStay
<1>1. ASSUME NEW b, NEW c, ClearBinding(b, c) PROVE Whole(edit') /\ OtherLinesStay
  <2> DEFINE d == clear_binding(edit, b, c)
  <2>1. Whole(d) /\ LinesKept(edit, d, c)
    BY ClearLines DEF LinesKept
  <2>2. Mutates(Did("clear", b, c, NoVal), d)
    BY <1>1 DEF ClearBinding
  <2> HIDE DEF d
  <2> QED BY <2>1, <2>2, DidLines
<1>2. ASSUME NEW b, NEW c, NEW t, SetLabel(b, c, t) PROVE Whole(edit') /\ OtherLinesStay
  <2> DEFINE d == set_label(edit, b, c, t)
             v == Custom(t)
  <2>1. Whole(d) /\ LinesKept(edit, d, c)
    BY <1>2, LabelLines DEF LinesKept, SetLabel
  <2>2. Mutates(Did("label", b, c, v), d)
    BY <1>2 DEF SetLabel
  <2> HIDE DEF d, v
  <2> QED BY <2>1, <2>2, DidLines
<1>3. ASSUME NEW b, NEW c, ClearLabel(b, c) PROVE Whole(edit') /\ OtherLinesStay
  <2> DEFINE d == clear_label(edit, b, c)
             v == Custom("")
  <2>1. Whole(d) /\ LinesKept(edit, d, c)
    BY ClearLines DEF LinesKept
  <2>2. Mutates(Did("unlabel", b, c, v), d)
    BY <1>3 DEF ClearLabel
  <2> HIDE DEF d, v
  <2> QED BY <2>1, <2>2, DidLines
<1>4. ASSUME NEW b, NEW c, NEW v, SetChord(b, c, v) PROVE Whole(edit') /\ OtherLinesStay
  <2> DEFINE d == set_layer_chord(edit, b, c, v)
  <2>1. Whole(d)
    BY <1>4, ChordWhole DEF SetChord, CanSetChord
  <2>2. Mutates(Did("chord", b, c, v), d) /\ "chord" \notin KeyOps
    BY <1>4 DEF SetChord, KeyOps
  <2> HIDE DEF d
  <2> QED BY <2>1, <2>2, DidLines
<1>5. ASSUME NEW b, NEW c, RemoveChord(b, c) PROVE Whole(edit') /\ OtherLinesStay
  <2> DEFINE d == remove_chord(edit, b, c)
  <2>1. Whole(d)
    BY ClearLines
  <2>2. Mutates(Did("unchord", b, c, NoVal), d) /\ "unchord" \notin KeyOps
    BY <1>5 DEF RemoveChord, KeyOps
  <2> HIDE DEF d
  <2> QED BY <2>1, <2>2, DidLines
<1>6. ASSUME NEW o, NEW v, SetGlobal(o, v) PROVE Whole(edit') /\ OtherLinesStay
  <2> DEFINE b == <<>>
             c == <<o>>
             d == set_global_option(edit, c, v)
  <2>1. Whole(d) /\ LinesKept(edit, d, c)
    <3> HIDE DEF c
    <3> QED BY OptionLines DEF LinesKept
  <2>2. Mutates(Did("global", b, c, v), d)
    BY <1>6 DEF SetGlobal
  <2> HIDE DEF b, c, d
  <2> QED BY <2>1, <2>2, DidLines
<1>7. ASSUME NEW o, ClearGlobal(o) PROVE Whole(edit') /\ OtherLinesStay
  <2> DEFINE b == <<>>
             c == <<o>>
             d == clear_global(edit, c)
  <2>1. Whole(d) /\ LinesKept(edit, d, c)
    <3> HIDE DEF c
    <3> QED BY UnglobalLines DEF LinesKept
  <2>2. Mutates(Did("unglobal", b, c, NoVal), d)
    BY <1>7 DEF ClearGlobal
  <2> HIDE DEF b, c, d
  <2> QED BY <2>1, <2>2, DidLines
<1>8. ASSUME NEW n, AddLayer(n) PROVE Whole(edit') /\ OtherLinesStay
  <2> DEFINE b == <<n>>
             c == NoKey
             d == add_layer(edit, n)
  <2>1. Whole(d) /\ LinesKept(edit, d, c)
    BY LayersWhole DEF LinesKept
  <2>2. Mutates(Did("add", b, c, NoVal), d)
    BY <1>8 DEF AddLayer
  <2> HIDE DEF b, c, d
  <2> QED BY <2>1, <2>2, DidLines
<1>9. ASSUME NEW b, RemoveLayer(b) PROVE Whole(edit') /\ OtherLinesStay
  <2> DEFINE c == NoKey
             d == remove_layer(edit, b)
  <2>1. Whole(d)
    BY LayersWhole
  <2>2. Mutates(Did("remove", b, c, NoVal), d) /\ "remove" \notin KeyOps
    BY <1>9 DEF RemoveLayer, KeyOps
  <2> HIDE DEF c, d
  <2> QED BY <2>1, <2>2, DidLines
<1>10. ASSUME NEW old, NEW new, RenameLayer(old, new) PROVE Whole(edit') /\ OtherLinesStay
  <2> DEFINE b == <<old>>
             c == <<new>>
             d == rename_layer(edit, old, new)
  <2>1. Whole(d)
    BY <1>10, LayersWhole DEF RenameLayer
  <2>2. Mutates(Did("rename", b, c, NoVal), d) /\ "rename" \notin KeyOps
    BY <1>10 DEF RenameLayer, KeyOps
  <2> HIDE DEF b, c, d
  <2> QED BY <2>1, <2>2, DidLines
<1> QED BY <1>1, <1>2, <1>3, <1>4, <1>5, <1>6, <1>7, <1>8, <1>9, <1>10

\* Every step does.
LEMMA LinesStep ==
  ASSUME Whole(edit), Sound(edit), Next
  PROVE  Whole(edit') /\ OtherLinesStay
<1>1. CASE BindingEdit
  <2>1. PICK b \in BoardsShown, k \in EditKeys :
          \/ \E v \in Values : SetBinding(b, <<k>>, v)
          \/ ClearBinding(b, <<k>>)
          \/ \E t \in LabelTexts : SetLabel(b, <<k>>, t)
          \/ ClearLabel(b, <<k>>)
          \/ \E kind \in Kinds, n \in Targets : SetLayerAction(b, k, kind, n)
          \/ \E n \in HoldTargets, tap \in Taps, feel \in Feels : SetTapHold(b, k, n, tap, feel)
          \/ \E m \in Writable : SetMacro(b, k, Built[m])
    BY <1>1 DEF BindingEdit
  <2> QED BY <2>1, SetsLines, OthersLines
<1>2. CASE ChordEdit
  BY <1>2, OthersLines DEF ChordEdit
<1>3. CASE OtherEdit
  BY <1>3, OthersLines DEF OtherEdit
<1> QED BY <1>1, <1>2, <1>3 DEF Next

\* The document is whole in every state a session reaches.
LEMMA SessionWhole == Spec => []Whole(edit)
<1>1. Init => Whole(edit)
  <2> SUFFICES ASSUME Init PROVE Whole(edit)
    OBVIOUS
  <2>1. \E f : IsFile(f) /\ edit = parse(f)
    BY StarterIsFile, SessionAssumption DEF Init
  <2> QED BY <2>1, ParseWhole
<1>2. Sound(edit) /\ Whole(edit) /\ [Next]_vars => Whole(edit)'
  <2> SUFFICES ASSUME Sound(edit), Whole(edit), [Next]_vars PROVE Whole(edit')
    OBVIOUS
  <2>1. CASE Next
    BY <2>1, LinesStep
  <2>2. CASE UNCHANGED vars
    BY <2>2 DEF vars
  <2> QED BY <2>1, <2>2
<1> QED BY <1>1, <1>2, SessionSound, PTL DEF Spec

\* Whatever the file and the edits before, an edit touches nothing but what it is of: every other key
\* of every board keeps the value keyd gives it, and every line that is not of the key stays, in its
\* order, a section made for it coming behind them all.
THEOREM NothingElse == Spec => NothingElseChanges
<1>1. Sound(edit) /\ Whole(edit) /\ [Next]_vars => [SameElsewhere /\ OtherLinesStay]_vars
  BY ElseStep, LinesStep
<1> QED BY <1>1, SessionSound, SessionWhole, PTL DEF Spec, NothingElseChanges

-----------------------------------------------------------------------------
(* The list of the chords of a board: the last line of each.               *)

\* The chords kept when t comes behind them.
Besides(out, t) == {u \in ToSet(out) : ~(canonical_chord(u.key) = canonical_chord(t.key))}
Kept(x) == KeepLast(x, LAMBDA t, u : canonical_chord(t.key) = canonical_chord(u.key))

\* Kept goes through the lines.
LEMMA KeptSteps ==
  ASSUME NEW L, NEW s \in Seq(L)
  PROVE  \E h : /\ h[0] = <<>>
                /\ \A k \in 1 .. Len(s) : h[k] = Append(Among(h[k - 1], Besides(h[k - 1], s[k])), s[k])
                /\ Kept(s) = h[Len(s)]
                /\ \A k \in 0 .. Len(s) : h[k] \in Seq(L)
<1> DEFINE n == Len(s)
           op(out, t) == Append(Among(out, Besides(out, t)), t)
           d == [k \in 1 .. n |-> [out \in Seq(L) |-> op(out, s[k])]]
           Eqn(it) == it = [T \in SUBSET DOMAIN s |->
                              IF T = {} THEN <<>> ELSE op(it[T \ {Top(T)}], s[Top(T)])]
           it == CHOOSE it : Eqn(it)
<1>1. n \in Nat /\ DOMAIN s = 1 .. n /\ \A k \in 1 .. n : s[k] \in L
  OBVIOUS
<1>2. Kept(s) = it[DOMAIN s]
  BY DEF Kept, KeepLast, Besides, FoldLeft, MapThenFoldSet, Max, Top
<1>0. \A out \in Seq(L), t \in L : op(out, t) \in Seq(L)
  <2> SUFFICES ASSUME NEW out \in Seq(L), NEW t \in L PROVE op(out, t) \in Seq(L)
    OBVIOUS
  <2>1. Among(out, Besides(out, t)) \in Seq(L)
    BY AmongIs
  <2> QED BY <2>1
<1>3. \E jt : Eqn(jt) /\ \A T \in SUBSET (1 .. n) : jt[T] \in Seq(L)
  <2>1. d \in [1 .. n -> [Seq(L) -> Seq(L)]]
    <3> HIDE DEF op
    <3> QED BY <1>0, <1>1
  <2>2. <<>> \in Seq(L)
    OBVIOUS
  <2>3. PICK jt : FoldOf(jt, Seq(L), <<>>, d, n)
    <3> HIDE DEF d, n
    <3> QED BY <2>1, <2>2, <1>1, FoldExists
  <2>4. ASSUME NEW T \in SUBSET (1 .. n), T # {}
        PROVE  d[Top(T)][jt[T \ {Top(T)}]] = op(jt[T \ {Top(T)}], s[Top(T)])
    <3>1. Top(T) \in 1 .. n /\ T \ {Top(T)} \in SUBSET (1 .. n)
      BY <2>4, TopIn, <1>1
    <3> QED BY <3>1, <2>3 DEF FoldOf
  <2>5. jt = [T \in SUBSET (1 .. n) |->
                IF T = {} THEN <<>> ELSE op(jt[T \ {Top(T)}], s[Top(T)])]
    <3> HIDE DEF d, op, n
    <3> QED BY <2>3, <2>4 DEF FoldOf
  <2>6. \A T \in SUBSET (1 .. n) : jt[T] \in Seq(L)
    <3> HIDE DEF d, op, n
    <3> QED BY <2>3 DEF FoldOf
  <2> QED BY <2>5, <2>6, <1>1
<1>4. Eqn(it)
  <2> HIDE DEF Eqn
  <2> QED BY <1>3
<1> DEFINE h == [k \in 0 .. n |-> it[1 .. k]]
<1>5. /\ it[1 .. 0] = <<>>
      /\ \A k \in 1 .. n : it[1 .. k] = op(it[1 .. k - 1], s[k])
  <2> DEFINE o == [T \in SUBSET (1 .. n) |-> op(it[T \ {Top(T)}], s[Top(T)])]
  <2>1. Unfolds(it, <<>>, o, n)
    <3> HIDE DEF it, op
    <3> QED BY <1>4, <1>1 DEF Unfolds
  <2>2. /\ it[1 .. 0] = <<>>
        /\ \A k \in 1 .. n : /\ it[1 .. k] = o[1 .. k]
                             /\ Top(1 .. k) = k
                             /\ (1 .. k) \ {Top(1 .. k)} = 1 .. k - 1
    <3> HIDE DEF it, o, n
    <3> QED BY <2>1, <1>1, FoldAlong
  <2>3. \A k \in 1 .. n : 1 .. k \in SUBSET (1 .. n)
    OBVIOUS
  <2> HIDE DEF it, op
  <2> QED BY <2>2, <2>3
<1>6. /\ h[0] = <<>>
      /\ \A k \in 1 .. n : h[k] = op(h[k - 1], s[k])
      /\ Kept(s) = h[n]
  <2> HIDE DEF it, op
  <2> QED BY <1>1, <1>2, <1>5
<1> HIDE DEF h
<1>7. \A k \in 0 .. n : h[k] \in Seq(L)
  <2> DEFINE N == {k \in Nat : k <= n => h[k] \in Seq(L)}
  <2>1. 0 \in N
    <3>1. h[0] \in Seq(L) /\ 0 \in Nat
      BY <1>6
    <3> HIDE DEF op
    <3> QED BY <3>1
  <2>2. ASSUME NEW k \in Nat, k \in N PROVE k + 1 \in N
    <3> SUFFICES ASSUME k + 1 <= n PROVE h[k + 1] \in Seq(L)
      OBVIOUS
    <3>1. h[k] \in Seq(L) /\ k + 1 \in 1 .. n /\ (k + 1) - 1 = k
      BY <1>1, <2>2
    <3>2. s[k + 1] \in L
      BY <1>1, <3>1
    <3> HIDE DEF op
    <3> QED BY <1>0, <1>6, <3>1, <3>2
  <2>3. \A k \in Nat : k \in N
    <3> HIDE DEF N
    <3> QED BY <2>1, <2>2, NatInSet
  <2> QED BY <1>1, <2>3
<1> QED BY <1>6, <1>7

\* One line more pushes out those like it that came before.
LEMMA KeptAppend ==
  ASSUME NEW L, NEW s \in Seq(L), NEW x \in L
  PROVE  /\ Kept(s) \in Seq(L)
         /\ Kept(Append(s, x)) = Append(Among(Kept(s), Besides(Kept(s), x)), x)
<1> DEFINE t == Append(s, x)
           n == Len(s)
<1>0. /\ t \in Seq(L) /\ Len(t) = n + 1 /\ n \in Nat
      /\ \A k \in 1 .. n : t[k] = s[k]
      /\ t[n + 1] = x
  OBVIOUS
<1> HIDE DEF t
<1>1. PICK g : /\ g[0] = <<>>
               /\ \A k \in 1 .. n : g[k] = Append(Among(g[k - 1], Besides(g[k - 1], s[k])), s[k])
               /\ Kept(s) = g[n]
               /\ \A k \in 0 .. n : g[k] \in Seq(L)
  BY KeptSteps
<1>2. PICK h : /\ h[0] = <<>>
               /\ \A k \in 1 .. Len(t) : h[k] = Append(Among(h[k - 1], Besides(h[k - 1], t[k])), t[k])
               /\ Kept(t) = h[Len(t)]
  BY <1>0, KeptSteps
<1>3. g[n] = h[n]
  <2>1. ASSUME NEW k \in 1 .. n, g[k - 1] = h[k - 1] PROVE g[k] = h[k]
    <3>1. k \in 1 .. Len(t) /\ t[k] = s[k]
      BY <1>0
    <3>2. h[k] = Append(Among(h[k - 1], Besides(h[k - 1], t[k])), t[k])
      BY <1>2, <3>1
    <3>3. g[k] = Append(Among(g[k - 1], Besides(g[k - 1], s[k])), s[k])
      BY <1>1
    <3> QED BY <2>1, <3>1, <3>2, <3>3
  <2> QED BY <1>0, <1>1, <1>2, <2>1, StepsAgree
<1>4. Kept(t) = Append(Among(h[n], Besides(h[n], x)), x)
  BY <1>0, <1>2
<1>5. n \in 0 .. n
  BY <1>0
<1> QED BY <1>1, <1>3, <1>4, <1>5 DEF t

LEMMA KeptNothing == Kept(<<>>) = <<>>
<1> DEFINE s == <<>>
<1>1. s \in Seq({}) /\ Len(s) = 0
  OBVIOUS
<1> HIDE DEF s
<1>2. Kept(s) = <<>>
  BY <1>1, KeptSteps
<1> QED BY <1>2 DEF s

\* The lines of L with the chord of t.
Like(L, t) == {u \in L : canonical_chord(u.key) = canonical_chord(t.key)}

\* Kept are the lines behind which there is no other of the same chord.
LEMMA KeptAre ==
  ASSUME NEW L
  PROVE  \A x \in Seq(L) : \A t \in L : t \in ToSet(Kept(x)) <=> Final(Among(x, Like(L, t)), t)
<1> DEFINE Good(x) == \A t \in L : t \in ToSet(Kept(x)) <=> Final(Among(x, Like(L, t)), t)
           G == {x \in Seq(L) : Good(x)}
<1>1. Good(<<>>)
  <2> DEFINE z == <<>>
  <2>1. Kept(z) = z /\ ToSet(z) = {} /\ \A C : Among(z, C) = z
    BY KeptNothing, AmongEmpty DEF ToSet
  <2>2. \A t : ~Final(z, t)
    BY DEF Final
  <2> HIDE DEF z
  <2>3. Good(z)
    BY <2>1, <2>2
  <2> QED BY <2>3 DEF z
<1>2. ASSUME NEW x \in Seq(L), NEW e \in L, Good(x) PROVE Good(Append(x, e))
  <2> SUFFICES ASSUME NEW t \in L
               PROVE  t \in ToSet(Kept(Append(x, e))) <=> Final(Among(Append(x, e), Like(L, t)), t)
    OBVIOUS
  <2> DEFINE y   == Append(x, e)
             out == Kept(x)
             w   == Among(out, Besides(out, e))
             C   == Like(L, t)
             a   == Among(x, C)
  <2>1. out \in Seq(L) /\ Kept(y) = Append(w, e)
    BY KeptAppend
  <2>2. w \in Seq(L) /\ ToSet(w) = ToSet(out) \intersect Besides(out, e)
    BY <2>1, AmongIs
  <2>3. ToSet(Kept(y)) = ToSet(w) \union {e}
    <3> HIDE DEF w
    <3> QED BY <2>1, <2>2, AppendSet
  <2>4. t \in ToSet(Kept(y)) <=> t = e \/ (t \in ToSet(out) /\ canonical_chord(t.key) # canonical_chord(e.key))
    <3> HIDE DEF w, y, out
    <3> QED BY <2>2, <2>3 DEF Besides
  <2>5. Among(y, C) = IF e \in C THEN Append(a, e) ELSE a
    BY AmongAppend
  <2>6. a \in Seq(L)
    BY AmongIs
  <2>7. t \in ToSet(out) <=> Final(a, t)
    BY <1>2
  <2>8. CASE e \in C
    <3>1. canonical_chord(e.key) = canonical_chord(t.key)
      BY <2>8 DEF Like
    <3>2. Final(Append(a, e), t) <=> t = e
      <4> HIDE DEF a
      <4> QED BY <2>6 DEF Final
    <3> HIDE DEF a, y, out
    <3> QED BY <2>4, <2>5, <2>8, <3>1, <3>2 DEF y
  <2>9. CASE e \notin C
    <3>1. canonical_chord(e.key) # canonical_chord(t.key)
      BY <2>9 DEF Like
    <3> HIDE DEF a, out
    <3> QED BY <2>4, <2>5, <2>7, <2>9, <3>1
  <2> QED BY <2>8, <2>9
<1>3. \A x \in Seq(L) : x \in G
  <2>1. <<>> \in G /\ \A x \in Seq(L), e \in L : x \in G => Append(x, e) \in G
    <3> HIDE DEF Good
    <3> QED BY <1>1, <1>2
  <2> HIDE DEF G
  <2> QED BY <2>1, SeqInSet
<1> QED BY <1>3

\* The lines of a board that hold c's chord, in the order keyd reads them.
ChordLines(d, b, L, c) == Among(FlattenSeq(Rows(d, Boards(d, b))), ChordsOf(L, c))

\* The list of the chords of a board has the line in force of each.
LEMMA ChordsAre ==
  ASSUME NEW d, IsDocument(d), NEW L, TextsOf(d) \subseteq L, NEW b
  PROVE  \A t : t \in ToSet(chords(d, b)) <=> Final(ChordLines(d, b, L, t.key), t)
<1> DEFINE x == FlattenSeq(Rows(d, Boards(d, b)))
           V == Valued(L)
           C == {t \in V : is_chord_key(t.key)}
           y == Among(x, V)
           z == Among(x, C)
<1>1. x \in Seq(L)
  <2>1. Rows(d, Boards(d, b)) \in Seq(Seq(L))
    BY RowsAre
  <2> QED BY <2>1, FlattenHas
<1> HIDE DEF x
<1>2. bindings(x) = y /\ y \in Seq(L) /\ ToSet(y) \subseteq V
  BY <1>1, SelectionsAre, AmongIs
<1>3. z \in Seq(L) /\ ToSet(z) \subseteq C
  BY <1>1, AmongIs
<1>4. Among(y, {t \in ToSet(y) : is_chord_key(t.key)}) = z
  <2>1. Among(y, C) = z
    BY <1>1, AmongTwice
  <2> DEFINE D == {t \in ToSet(y) : is_chord_key(t.key)}
  <2>2. \A k \in 1 .. Len(y) : y[k] \in D <=> y[k] \in C
    <3> HIDE DEF y, V
    <3> QED BY <1>2 DEF ToSet
  <2> HIDE DEF y, C, D
  <2>3. Among(y, D) = Among(y, C)
    BY <1>2, <2>2, AmongSame
  <2> QED BY <2>1, <2>3 DEF D
<1>5. chords(d, b) = Kept(z)
  <2>1. chords(d, b) = ChordsIn(bindings(x))
    BY ListsFrom DEF x
  <2> HIDE DEF y, z
  <2> QED BY <1>2, <1>4, <2>1 DEF ChordsIn, Kept
<1>6. z \in Seq(C)
  <2> HIDE DEF z, C
  <2>1. \A k \in 1 .. Len(z) : z[k] \in C
    BY <1>3 DEF ToSet
  <2> QED BY <1>3, <2>1
<1>7. ASSUME NEW t PROVE t \in ToSet(Kept(z)) <=> Final(ChordLines(d, b, L, t.key), t)
  <2> DEFINE B == ChordsOf(L, t.key)
  <2>1. B = Like(C, t) /\ B \subseteq C
    BY DEF ChordsOf, Like
  <2>2. Among(z, B) = Among(x, B)
    <3> HIDE DEF B, C
    <3> QED BY <1>1, <2>1, AmongTwice
  <2>3. Kept(z) \in Seq(C)
    <3> HIDE DEF z, C
    <3>1. CASE z = <<>>
      <4>1. Kept(z) = Kept(<<>>)
        BY <3>1
      <4>2. <<>> \in Seq(C)
        OBVIOUS
      <4> QED BY <4>1, <4>2, KeptNothing
    <3>2. CASE z # <<>>
      <4>1. PICK r \in Seq(C), e \in C : z = Append(r, e)
        BY <1>6, <3>2, SequenceEmptyOrAppend
      <4>2. Kept(r) \in Seq(C) /\ z = Append(r, e)
        BY <4>1, KeptAppend
      <4>3. Among(Kept(r), Besides(Kept(r), e)) \in Seq(C)
        BY <4>2, AmongIs
      <4>4. Kept(z) = Append(Among(Kept(r), Besides(Kept(r), e)), e)
        BY <4>1, <4>2, KeptAppend
      <4> QED BY <4>1, <4>3, <4>4
    <3> QED BY <3>1, <3>2
  <2>4. t \in ToSet(Kept(z)) => t \in C
    <3> DEFINE k == Kept(z)
    <3> HIDE DEF k, C
    <3>1. k \in Seq(C)
      BY <2>3 DEF k
    <3>2. t \in ToSet(k) => t \in C
      BY <3>1 DEF ToSet
    <3> QED BY <3>2 DEF k
  <2>5. Final(Among(z, B), t) => t \in C
    <3>1. Among(z, B) \in Seq(C)
      <4> HIDE DEF z, C, B
      <4> QED BY <1>6, AmongIs
    <3> DEFINE a == Among(z, B)
    <3> HIDE DEF a, C
    <3>2. a \in Seq(C)
      BY <3>1 DEF a
    <3>3. Final(a, t) => t \in C
      BY <3>2 DEF Final
    <3> QED BY <3>3 DEF a
  <2>6. t \in C => (t \in ToSet(Kept(z)) <=> Final(Among(z, Like(C, t)), t))
    <3> HIDE DEF z, C
    <3> QED BY <1>6, KeptAre
  <2>7. Among(x, B) = ChordLines(d, b, L, t.key)
    BY DEF ChordLines, x
  <2> HIDE DEF B, C, z
  <2> QED BY <2>1, <2>2, <2>4, <2>5, <2>6, <2>7
<1> QED BY <1>5, <1>7

\* The last line of c's chord has the value v in e, and those of every other chord are as in d.
ChordIs(d, e, b, L, c, v) ==
  /\ IsDocument(e)
  /\ \E t : /\ canonical_chord(t.key) = canonical_chord(c) /\ t.val = v
            /\ Final(ChordLines(e, b, L, c), t)
  /\ \A c2 : canonical_chord(c2) # canonical_chord(c)
               => ChordLines(e, b, L, c2) = ChordLines(d, b, L, c2)

\* A line written for a chord of the board is the last of that chord, and the lines of every other
\* chord are as they were.
LEMMA ChordSet ==
  ASSUME NEW d, IsDocument(d), NEW b, HasBoard(d, b), NEW c, is_chord_key(c), NEW v, v # NoVal,
         NEW L, TextsOf(set_layer_chord(d, b, c, v)) \subseteq L
  PROVE  ChordIs(d, set_layer_chord(d, b, c, v), b, L, c, v)
<1>1. PICK base, i, x : ChordGoes(d, b, c, v, base, i, x)
  BY ChordWhere
<1> DEFINE e == set_layer_chord(d, b, c, v)
           s == base.secs[i]
           t == set_or_add_binding(s, x, v, file_eol(d))
           P == Boards(base, b)
           text == BindText(x, v)
           M == L \union {text}
           C == ChordsOf(M, c)
<1>0. TextsOf(e) \subseteq L
  OBVIOUS
<1>3. IsDocument(base) /\ IsDoc(base) /\ i \in DOMAIN base.secs /\ IsSection(s) /\ IsEntries(s.ents)
  BY <1>1 DEF ChordGoes, OnMain, Target, IsDocument
<1> HIDE DEF t
<1>4. PICK p : /\ SameHead(s, t) /\ is_chord_key(x) /\ canonical_chord(x) = canonical_chord(c)
               /\ Puts(s.ents, t.ents, p, text)
               /\ Replaced(s.ents, t.ents, p, text) => Binds(s.ents[p], x)
               /\ \A j \in DOMAIN t.ents : j > p => ~SameChord(t.ents[j], c)
  <2>1. x = Spelt(s, c)
    BY <1>1 DEF ChordGoes
  <2> HIDE DEF s, text
  <2> QED BY <1>3, <2>1, SetLastChord DEF t, text
<1>2. text \in C /\ text.val = v /\ text.key = x
      /\ \A u \in C : u.k = "bind" /\ is_chord_key(u.key) /\ canonical_chord(u.key) = canonical_chord(c)
  BY <1>4 DEF ChordsOf, Valued, BindText
<1> HIDE DEF M, C, text
<1>5. \A j \in DOMAIN t.ents : j > p => t.ents[j].text \notin C
  BY <1>2, <1>4 DEF SameChord
<1>6. \A j \in DOMAIN base.secs : j > i /\ j \in P =>
        \A k \in DOMAIN base.secs[j].ents : base.secs[j].ents[k].text \notin C
  <2> SUFFICES ASSUME NEW j \in DOMAIN base.secs, j > i, j \in P,
                      NEW k \in DOMAIN base.secs[j].ents
               PROVE  base.secs[j].ents[k].text \notin C
    OBVIOUS
  <2> DEFINE u == base.secs[j]
  <2>1. ChordAt(u, c) = 0
    BY <1>1 DEF ChordGoes, Boards
  <2>2. IsEntries(u.ents) /\ k \in DOMAIN u.ents
    BY <1>3 DEF IsDocument
  <2>4. ~SameChord(u.ents[k], c)
    <3> HIDE DEF u
    <3>1. DOMAIN u.ents = 1 .. Len(u.ents) /\ Len(u.ents) \in Nat
          /\ \A q \in DOMAIN u.ents : q > ChordAt(u, c) => ~SameChord(u.ents[q], c)
      BY <2>2, ChordsHere
    <3>2. k > 0
      BY <2>2, <3>1
    <3> QED BY <2>1, <2>2, <3>1, <3>2
  <2> QED BY <1>2, <2>4 DEF SameChord
<1>7. i \in P
  BY <1>1, <1>3 DEF ChordGoes, Boards
<1>8. e = InSection(base, i, t)
  BY <1>1 DEF ChordGoes, t
<1> HIDE DEF e, P
<1>9. IsDocument(e) /\ SameHeads(base, e) /\ text \in TextsOf(e)
      /\ Final(Among(FlattenSeq(Rows(e, P)), C), text)
  BY <1>2, <1>3, <1>4, <1>5, <1>6, <1>7, <1>8, LandsLast
<1>10. P = Boards(e, b)
  BY <1>3, <1>9, SameBoards DEF P
<1>11. C = ChordsOf(L, c)
  <2>1. M = L
    BY <1>0, <1>9 DEF M
  <2> QED BY <2>1 DEF C
<1>12. Final(ChordLines(e, b, L, c), text)
  BY <1>9, <1>10, <1>11 DEF ChordLines
<1>13. ASSUME NEW c2, canonical_chord(c2) # canonical_chord(c)
       PROVE  ChordLines(e, b, L, c2) = ChordLines(d, b, L, c2)
  <2> DEFINE B == ChordsOf(L, c2)
  <2>1. No("blank", B) /\ \A u \in B : canonical_chord(u.key) = canonical_chord(c2)
    BY DEF ChordsOf, Valued, No
  <2> HIDE DEF B
  <2>2. text \notin B /\ (Replaced(s.ents, t.ents, p, text) => s.ents[p].text \notin B)
    BY <1>2, <1>4, <1>13, <2>1 DEF Binds
  <2>3. IsEntries(t.ents)
    BY <1>4 DEF Puts, Replaced, Inserted
  <2>4. Keeps(s.ents, t.ents, B)
    <3> HIDE DEF s
    <3> QED BY <1>3, <1>4, <2>2, PutKeeps
  <2>5. IsName(PlainName(Main)) /\ Target(d, PlainName(Main), "main", base, i)
    BY <1>1, PlainIsName DEF ChordGoes, OnMain
  <2>6. Stays(d, e, Boards(e, b), B)
    BY <1>4, <1>8, <2>1, <2>3, <2>4, <2>5, WriteStays
  <2>7. \A j \in DOMAIN d.secs : j \in Boards(d, b) <=> j \in Boards(e, b)
    <3>1. DOMAIN d.secs \subseteq DOMAIN e.secs
      BY <1>9, <2>6, DocDomain DEF Stays, IsDocument
    <3>2. \A j \in DOMAIN d.secs : e.secs[j].kind = d.secs[j].kind /\ e.secs[j].name = d.secs[j].name
      BY <2>6 DEF Stays, SameHead
    <3> QED BY <3>1, <3>2 DEF Boards, feeds_board
  <2>8. Among(FlattenSeq(Rows(d, Boards(d, b))), B) = Among(FlattenSeq(Rows(e, Boards(e, b))), B)
    BY <2>6, <2>7, RowsStay
  <2> QED BY <2>8 DEF ChordLines, B
<1>14. canonical_chord(text.key) = canonical_chord(c) /\ text.val = v
  BY <1>2, <1>4
<1>15. ChordIs(d, e, b, L, c, v)
  BY <1>9, <1>12, <1>13, <1>14 DEF ChordIs
<1> QED BY <1>15 DEF e

\* A chord removed is gone, and the lines of every other chord are as they were.
LEMMA ChordGone ==
  ASSUME NEW d, IsDocument(d), NEW b, NEW c, NEW L
  PROVE  LET e == remove_chord(d, b, c)
         IN  /\ IsDocument(e) /\ ChordLines(e, b, L, c) = <<>>
             /\ \A c2 : canonical_chord(c2) # canonical_chord(c)
                          => ChordLines(e, b, L, c2) = ChordLines(d, b, L, c2)
<1> DEFINE e == remove_chord(d, b, c)
           C == ChordsOf(L, c)
           D == {t \in TextsOf(d) : /\ t.k = "bind" /\ is_chord_key(t.key)
                                    /\ canonical_chord(t.key) = canonical_chord(c)}
<1>0. IsDoc(d) /\ \A i \in DOMAIN d.secs : IsSection(d.secs[i]) /\ IsEntries(d.secs[i].ents)
  BY DEF IsDocument, IsDoc
<1>1. IsDocument(e) /\ SameHeads(d, e) /\ DOMAIN e.secs = DOMAIN d.secs
  BY ClearedSections
<1>2. \A i \in DOMAIN d.secs : e.secs[i] = IF feeds_board(d.secs[i], b) THEN DropChord(d.secs[i], c) ELSE d.secs[i]
  BY ClearedSections
<1>3. Thinned(d, e, b, D)
  BY ClearsThin
<1> HIDE DEF e, D
<1>4. Boards(e, b) = Boards(d, b)
  BY <1>0, <1>1, SameBoards
<1>5. ChordLines(e, b, L, c) = <<>>
  <2>1. \A j \in DOMAIN e.secs : j \in Boards(d, b) => Among(Texts(e.secs[j].ents), C) = <<>>
    <3> SUFFICES ASSUME NEW j \in DOMAIN e.secs, j \in Boards(d, b)
                 PROVE  Among(Texts(e.secs[j].ents), C) = <<>>
      OBVIOUS
    <3>1. e.secs[j] = DropChord(d.secs[j], c) /\ IsSection(d.secs[j]) /\ IsEntries(d.secs[j].ents)
      BY <1>0, <1>1, <1>2 DEF Boards
    <3>2. IsEntries(e.secs[j].ents) /\ \A k \in DOMAIN e.secs[j].ents : ~SameChord(e.secs[j].ents[k], c)
      BY <3>1, DropIs
    <3>3. \A u \in C : u.k = "bind" /\ is_chord_key(u.key) /\ canonical_chord(u.key) = canonical_chord(c)
      BY DEF ChordsOf, Valued
    <3>4. \A k \in DOMAIN e.secs[j].ents : e.secs[j].ents[k].text \notin C
      BY <3>2, <3>3 DEF SameChord
    <3> HIDE DEF C
    <3> QED BY <3>2, <3>4, NoneAmong
  <2> HIDE DEF C
  <2>2. Among(FlattenSeq(Rows(e, Boards(d, b))), C) = <<>>
    BY <1>1, <2>1, NoneInForce
  <2> QED BY <1>4, <2>2 DEF ChordLines, C
<1>6. ASSUME NEW c2, canonical_chord(c2) # canonical_chord(c)
      PROVE  ChordLines(e, b, L, c2) = ChordLines(d, b, L, c2)
  <2> DEFINE B == ChordsOf(L, c2)
  <2>1. \A u \in B : canonical_chord(u.key) = canonical_chord(c2)
    BY DEF ChordsOf
  <2> HIDE DEF B
  <2>2. \A u \in D : u \notin B
    BY <1>6, <2>1 DEF D
  <2>3. \A i \in DOMAIN d.secs : Among(Texts(e.secs[i].ents), B) = Among(Texts(d.secs[i].ents), B)
    <3> SUFFICES ASSUME NEW i \in DOMAIN d.secs, e.secs[i] # d.secs[i]
                 PROVE  Among(Texts(e.secs[i].ents), B) = Among(Texts(d.secs[i].ents), B)
      OBVIOUS
    <3>1. Keeps(d.secs[i].ents, e.secs[i].ents, B)
      BY <1>3, <2>2 DEF Thinned
    <3> QED BY <3>1 DEF Keeps
  <2>4. Stays(d, e, Boards(e, b), B)
    BY <1>1, <2>3 DEF Stays, SameHeads
  <2>5. Among(FlattenSeq(Rows(d, Boards(d, b))), B) = Among(FlattenSeq(Rows(e, Boards(e, b))), B)
    BY <1>4, <2>4, RowsStay
  <2> QED BY <2>5 DEF ChordLines, B
<1> QED BY <1>1, <1>5, <1>6 DEF e

\* The chords a board has, in any spelling, and their values.
Canons(d, b) == {<<canonical_chord(t.key), t.val>> : t \in ToSet(chords(d, b))}
Gone(c, o)   == {canonical_chord(c)} \union (IF o = <<>> THEN {} ELSE {canonical_chord(o)})

\* Two documents with the same lines of every chord but some, the one with a line in force for c and
\* none for the others.
LEMMA CanonsFollow ==
  ASSUME NEW d, IsDocument(d), NEW f, IsDocument(f), NEW L, TextsOf(d) \subseteq L, TextsOf(f) \subseteq L,
         NEW b, NEW G, NEW c, canonical_chord(c) \in G, NEW t0, canonical_chord(t0.key) = canonical_chord(c),
         Final(ChordLines(f, b, L, c), t0),
         \A c2 : canonical_chord(c2) \notin G => ChordLines(f, b, L, c2) = ChordLines(d, b, L, c2),
         \A c2 : canonical_chord(c2) \in G /\ canonical_chord(c2) # canonical_chord(c)
                   => ChordLines(f, b, L, c2) = <<>>
  PROVE  Canons(f, b) = {p \in Canons(d, b) : p[1] \notin G} \union {<<canonical_chord(c), t0.val>>}
<1>1. \A t : t \in ToSet(chords(d, b)) <=> Final(ChordLines(d, b, L, t.key), t)
  BY ChordsAre
<1>2. \A t : t \in ToSet(chords(f, b)) <=> Final(ChordLines(f, b, L, t.key), t)
  BY ChordsAre
<1>3. \A t : canonical_chord(t.key) = canonical_chord(c) => ChordLines(f, b, L, t.key) = ChordLines(f, b, L, c)
  BY DEF ChordLines, ChordsOf
<1>4. \A t : canonical_chord(t.key) = canonical_chord(c) => (t \in ToSet(chords(f, b)) <=> t = t0)
  BY <1>2, <1>3 DEF Final
<1>5. \A t : canonical_chord(t.key) \notin G => (t \in ToSet(chords(f, b)) <=> t \in ToSet(chords(d, b)))
  BY <1>1, <1>2
<1>6. \A t : canonical_chord(t.key) \in G /\ canonical_chord(t.key) # canonical_chord(c) => t \notin ToSet(chords(f, b))
  BY <1>2 DEF Final
<1> DEFINE Q == {p \in Canons(d, b) : p[1] \notin G}
           p0 == <<canonical_chord(c), t0.val>>
<1>7. \A p \in Canons(f, b) : p \in Q \/ p = p0
  <2> SUFFICES ASSUME NEW t \in ToSet(chords(f, b)), NEW p, p = <<canonical_chord(t.key), t.val>>
               PROVE  p \in Q \/ p = p0
    BY DEF Canons
  <2>1. CASE canonical_chord(t.key) = canonical_chord(c)
    BY <1>4, <2>1
  <2>2. CASE canonical_chord(t.key) \notin G
    <3>1. t \in ToSet(chords(d, b)) /\ p[1] = canonical_chord(t.key)
      BY <1>5, <2>2
    <3> QED BY <2>2, <3>1 DEF Canons
  <2> QED BY <1>6, <2>1, <2>2
<1>8. p0 \in Canons(f, b)
  <2>1. t0 \in ToSet(chords(f, b))
    BY <1>4
  <2>2. p0 = <<canonical_chord(t0.key), t0.val>>
    OBVIOUS
  <2> HIDE DEF p0
  <2> QED BY <2>1, <2>2 DEF Canons
<1>9. \A p \in Q : p \in Canons(f, b)
  <2> SUFFICES ASSUME NEW t \in ToSet(chords(d, b)), NEW p, p = <<canonical_chord(t.key), t.val>>, p[1] \notin G
               PROVE  p \in Canons(f, b)
    BY DEF Canons
  <2>1. canonical_chord(t.key) \notin G
    OBVIOUS
  <2>2. t \in ToSet(chords(f, b))
    BY <1>5, <2>1
  <2> QED BY <2>2 DEF Canons
<1> HIDE DEF Q, p0
<1>10. Canons(f, b) = Q \union {p0}
  BY <1>7, <1>8, <1>9
<1> QED BY <1>10 DEF Q, p0

\* A chord set, and the one it was loaded from removed if it is another.
LEMMA ChordReplaced ==
  ASSUME NEW d, IsDocument(d), NEW b, HasBoard(d, b), NEW c, is_chord_key(c), NEW v, v # NoVal, NEW o
  PROVE  LET set   == set_layer_chord(d, b, c, v)
             moved == o # <<>> /\ canonical_chord(o) # canonical_chord(c)
             f     == IF moved THEN remove_chord(set, b, o) ELSE set
         IN  Canons(f, b) = {p \in Canons(d, b) : p[1] \notin Gone(c, o)} \union {<<canonical_chord(c), v>>}
<1> DEFINE set   == set_layer_chord(d, b, c, v)
           moved == o # <<>> /\ canonical_chord(o) # canonical_chord(c)
           f     == IF moved THEN remove_chord(set, b, o) ELSE set
           L     == (TextsOf(d) \union TextsOf(set)) \union TextsOf(f)
           G     == Gone(c, o)
<1>1. TextsOf(d) \subseteq L /\ TextsOf(set) \subseteq L /\ TextsOf(f) \subseteq L
  OBVIOUS
<1>2. moved => f = remove_chord(set, b, o)
  OBVIOUS
<1>3. ~moved => f = set
  OBVIOUS
<1> HIDE DEF L, f
<1>4. /\ IsDocument(set)
      /\ \E t : /\ canonical_chord(t.key) = canonical_chord(c) /\ t.val = v
                /\ Final(ChordLines(set, b, L, c), t)
      /\ \A c2 : canonical_chord(c2) # canonical_chord(c)
                   => ChordLines(set, b, L, c2) = ChordLines(d, b, L, c2)
  <2>1. TextsOf(set_layer_chord(d, b, c, v)) \subseteq L
    BY <1>1
  <2>2. ChordIs(d, set_layer_chord(d, b, c, v), b, L, c, v)
    BY <2>1, ChordSet
  <2>3. ChordIs(d, set, b, L, c, v)
    BY <2>2
  <2> HIDE DEF set
  <2> QED BY <2>3 DEF ChordIs
<1> HIDE DEF set
<1>5. PICK t0 : /\ canonical_chord(t0.key) = canonical_chord(c) /\ t0.val = v
                /\ Final(ChordLines(set, b, L, c), t0)
  BY <1>4
<1>6. canonical_chord(c) \in G
  BY DEF Gone
<1>7. /\ IsDocument(f) /\ Final(ChordLines(f, b, L, c), t0)
      /\ \A c2 : canonical_chord(c2) \notin G => ChordLines(f, b, L, c2) = ChordLines(d, b, L, c2)
      /\ \A c2 : canonical_chord(c2) \in G /\ canonical_chord(c2) # canonical_chord(c)
                    => ChordLines(f, b, L, c2) = <<>>
  <2>1. CASE moved
    <3>1. /\ IsDocument(f) /\ ChordLines(f, b, L, o) = <<>>
          /\ \A c2 : canonical_chord(c2) # canonical_chord(o)
                       => ChordLines(f, b, L, c2) = ChordLines(set, b, L, c2)
      BY <1>2, <1>4, <2>1, ChordGone
    <3>2. G = {canonical_chord(c), canonical_chord(o)}
      BY <2>1 DEF Gone
    <3>3. Final(ChordLines(f, b, L, c), t0)
      BY <1>5, <2>1, <3>1
    <3>4. \A c2 : canonical_chord(c2) = canonical_chord(o) => ChordLines(f, b, L, c2) = ChordLines(f, b, L, o)
      BY DEF ChordLines, ChordsOf
    <3> HIDE DEF G
    <3>5. \A c2 : canonical_chord(c2) \notin G => ChordLines(f, b, L, c2) = ChordLines(d, b, L, c2)
      BY <1>4, <3>1, <3>2
    <3>6. \A c2 : canonical_chord(c2) \in G /\ canonical_chord(c2) # canonical_chord(c)
                    => ChordLines(f, b, L, c2) = <<>>
      BY <3>1, <3>2, <3>4
    <3> QED BY <3>1, <3>3, <3>5, <3>6
  <2>2. CASE ~moved
    <3>1. f = set /\ G = {canonical_chord(c)}
      BY <1>3, <2>2 DEF Gone
    <3> HIDE DEF G
    <3>2. \A c2 : canonical_chord(c2) \in G <=> canonical_chord(c2) = canonical_chord(c)
      BY <3>1
    <3>3. /\ IsDocument(f) /\ Final(ChordLines(f, b, L, c), t0)
          /\ \A c2 : canonical_chord(c2) # canonical_chord(c)
                       => ChordLines(f, b, L, c2) = ChordLines(d, b, L, c2)
      BY <1>4, <1>5, <3>1
    <3> QED BY <3>2, <3>3
  <2> QED BY <2>1, <2>2
<1> HIDE DEF G
<1>8. Canons(f, b) = {p \in Canons(d, b) : p[1] \notin G} \union {<<canonical_chord(c), t0.val>>}
  BY ONLY IsDocument(d), <1>1, <1>5, <1>6, <1>7, CanonsFollow
<1> QED BY <1>5, <1>8 DEF G, f, set

\* No other callback sets a chord.
LEMMA ChordsElsewhere ==
  ASSUME EditNext, last'.op = "chord", edits' # edits
  PROVE  \E v \in Values : AddChord(v)
<1>1. ASSUME NEW op, NEW b, NEW c, NEW v, NEW d, Mutates(Did(op, b, c, v), d) PROVE op = "chord"
  <2>1. Did(op, b, c, v).op = op
    BY DidFields
  <2> QED BY <1>1, <2>1 DEF Mutates
<1>2. UNCHANGED vars => FALSE
  BY DEF vars
<1>3. ~FocusNext
  BY <1>2 DEF FocusNext, SelectKey, PickEditLayer, SetBoardMode, EditGlobal, vars
<1>4. ~LayerNext
  <2>1. \A n : ~CreateLayer(n)
    BY <1>1 DEF CreateLayer, AddLayer
  <2>2. \A n : ~Rename(n)
    BY <1>1 DEF Rename, RenameLayer
  <2>3. ~AskDelete /\ ~CancelDelete
    BY <1>2 DEF AskDelete, CancelDelete
  <2>4. ~ConfirmDelete
    BY <1>1 DEF ConfirmDelete, RemoveLayer
  <2> QED BY <2>1, <2>2, <2>3, <2>4 DEF LayerNext
<1>5. ~KeyNext
  <2>1. \A v : ~ApplyBinding(v)
    BY <1>1 DEF ApplyBinding, SetBinding
  <2>2. ~MakeTransparent
    BY <1>1 DEF MakeTransparent, ClearBinding
  <2>3. \A n, tap, f : ~ApplyTapHold(n, tap, f)
    BY <1>1 DEF ApplyTapHold, SetTapHold
  <2>4. \A kind, n : ~ApplyLayerAction(kind, n)
    BY <1>1 DEF ApplyLayerAction, SetLayerAction
  <2>5. \A t : ~LabelKey(t)
    BY <1>1 DEF LabelKey, SetLabel
  <2>6. ~UnlabelKey
    BY <1>1 DEF UnlabelKey, ClearLabel
  <2>7. \A t : ~MacroAdd(t)
    BY <1>2 DEF MacroAdd, vars
  <2>8. \A i : ~MacroRemove(i) /\ ~MacroMove(i)
    BY <1>2 DEF MacroRemove, MacroMove, vars
  <2>9. \A r : ~ApplyMacro(r)
    BY <1>1 DEF ApplyMacro, SetMacro
  <2> QED BY <2>1, <2>2, <2>3, <2>4, <2>5, <2>6, <2>7, <2>8, <2>9 DEF KeyNext
<1>6. (\A k : ~ToggleMember(k)) /\ (\A row : ~EditChord(row)) /\ ~ClearKeys
  BY <1>2 DEF ToggleMember, EditChord, ClearKeys, Build, vars
<1>7. \A row : ~RemoveChordRow(row)
  BY <1>1 DEF RemoveChordRow, RemoveChord
<1>8. (\A o, v : ~SetOption(o, v)) /\ \A o : ~ClearOption(o)
  BY <1>1 DEF SetOption, SetGlobal, ClearOption, ClearGlobal
<1> QED BY <1>3, <1>4, <1>5, <1>6, <1>7, <1>8 DEF EditNext, ChordNext

\* Committing a chord that was loaded for editing replaces it, whatever keys it has now and however
\* often and in whatever order of its keys the file spells it, and leaves the others of the layer.
THEOREM ChordHolds == PanelSpec => ChordEditReplaces
<1> DEFINE A == last'.op = "chord" /\ edits' # edits =>
                  LET gone == {canonical_chord(picks)} \union (IF orig = <<>> THEN {} ELSE {canonical_chord(orig)})
                  IN  Canon(edit') = {p \in Canon(edit) : p[1] \notin gone}
                                       \union {<<canonical_chord(picks), last'.val>>}
<1>1. ASSUME ScreenInv, EditNext PROVE A
  <2> SUFFICES ASSUME last'.op = "chord", edits' # edits
               PROVE  LET gone == {canonical_chord(picks)} \union (IF orig = <<>> THEN {} ELSE {canonical_chord(orig)})
                      IN  Canon(edit') = {p \in Canon(edit) : p[1] \notin gone}
                                           \union {<<canonical_chord(picks), last'.val>>}
    OBVIOUS
  <2>1. PICK v \in Values : AddChord(v)
    BY <1>1, ChordsElsewhere
  <2> DEFINE set   == set_layer_chord(edit, layer, picks, v)
             moved == orig # <<>> /\ canonical_chord(orig) # canonical_chord(picks)
             f     == IF moved THEN remove_chord(set, layer, orig) ELSE set
  <2>2. CanSetChord(layer, picks) /\ Mutates(Did("chord", layer, picks, v), f)
    BY <2>1 DEF AddChord
  <2>3. HasBoard(edit, layer) /\ is_chord_key(picks)
    BY <2>2 DEF CanSetChord, is_chord_key
  <2>4. edit' = f /\ last'.val = v
    <3>1. Did("chord", layer, picks, v).val = v
      BY DidFields
    <3> HIDE DEF f
    <3> QED BY <2>2, <3>1 DEF Mutates
  <2>5. IsDocument(edit) /\ v # NoVal
    BY <1>1, ValueTyped DEF ScreenInv, Sound
  <2>6. Canons(f, layer) = {p \in Canons(edit, layer) : p[1] \notin Gone(picks, orig)} \union {<<canonical_chord(picks), v>>}
    BY <2>3, <2>5, ChordReplaced
  <2>7. Canon(edit') = Canons(f, layer) /\ Canon(edit) = Canons(edit, layer)
    <3> HIDE DEF f
    <3> QED BY <2>4 DEF Canon, Canons
  <2> HIDE DEF f
  <2> QED BY <2>4, <2>6, <2>7 DEF Gone
<1>2. ScreenInv /\ [EditNext]_<<vars, panel>> => [A]_<<vars, panel>>
  BY <1>1
<1> QED BY <1>2, ScreenInit, ScreenStep, PTL DEF PanelSpec, ChordEditReplaces

-----------------------------------------------------------------------------
(* What the board draws.                                                   *)

\* v is what the one line of a key says, or no line is of it.
Only(s, c, v) ==
  \/ v = NoVal /\ \A t \in ToSet(s) : t.key # c
  \/ \E t \in ToSet(s) : t.key = c /\ v = t.val /\ \A u \in ToSet(s) : u.key = c => u = t

LastWith(s, c) == LastOf(s, LAMBDA t : t.key = c)

\* The last line of a key that has one line at most.
LEMMA OneLine ==
  ASSUME NEW L, NEW s \in Seq(L), NEW c,
         Cardinality({i \in DOMAIN s : s[i].key = c}) <= 1
  PROVE  Only(s, c, LastWith(s, c))
<1> DEFINE n == Len(s)
           I == {i \in 1 .. n : s[i].key = c}
           k == IF I # {} THEN Max(I) ELSE 0
           v == IF k = 0 THEN NoVal ELSE s[k].val
<1>1. n \in Nat /\ DOMAIN s = 1 .. n /\ ToSet(s) = {s[i] : i \in 1 .. n}
  BY DEF ToSet
<1>2. LastWith(s, c) = v
  BY DEF LastWith, LastOf, SelectLastInSeq
<1>3. I \in SUBSET (1 .. n) /\ IsFiniteSet(I)
  <2>1. IsFiniteSet(1 .. n)
    BY <1>1, FS_Interval
  <2>2. I \in SUBSET (1 .. n)
    OBVIOUS
  <2> HIDE DEF I, n
  <2> QED BY <2>1, <2>2, FS_Subset
<1>4. Cardinality(I) <= 1 /\ Cardinality(I) \in Nat
  BY <1>1, <1>3, FS_CardinalityType
<1> HIDE DEF n, v
<1>5. CASE I = {}
  BY <1>1, <1>2, <1>5 DEF Only, v
<1>6. CASE I # {}
  <2>1. Max(I) \in I
    BY <1>1, <1>3, <1>6, MaxIs
  <2>2. \A i \in I : i = Max(I)
    <3>1. Cardinality(I) = 1
      <4> HIDE DEF I
      <4>1. Cardinality(I) # 0
        BY <1>3, <1>6, FS_EmptySet
      <4> QED BY <1>4, <4>1
    <3>2. PICK x : I = {x}
      BY <1>3, <3>1, FS_Singleton
    <3> QED BY <2>1, <3>2
  <2>3. k = Max(I) /\ k # 0
    BY <1>1, <1>6, <2>1
  <2>4. v = s[k].val /\ s[k] \in ToSet(s) /\ s[k].key = c
    BY <1>1, <2>1, <2>3 DEF v
  <2>5. \A u \in ToSet(s) : u.key = c => u = s[k]
    BY <1>1, <2>2, <2>3
  <2> QED BY <1>2, <2>4, <2>5 DEF Only
<1> QED BY <1>5, <1>6

\* get finds a line of the key, if there is one.
LEMMA GetIs ==
  ASSUME NEW L, NEW s \in Seq(L), NEW c
  PROVE  \/ get(s, c) = NoVal /\ \A t \in ToSet(s) : t.key # c
         \/ \E t \in ToSet(s) : t.key = c /\ get(s, c) = t.val
<1> DEFINE n == Len(s)
           I == {i \in 1 .. n : s[i].key = c}
           k == IF I # {} THEN Min(I) ELSE 0
           v == IF k = 0 THEN NoVal ELSE s[k].val
<1>1. n \in Nat /\ DOMAIN s = 1 .. n /\ ToSet(s) = {s[i] : i \in 1 .. n}
  BY DEF ToSet
<1>2. get(s, c) = v
  BY DEF get, SelectInSeq
<1> HIDE DEF n, v
<1>3. I \in SUBSET Nat
  BY <1>1
<1>4. CASE I = {}
  BY <1>1, <1>2, <1>4 DEF v
<1>5. CASE I # {}
  <2>1. k \in I /\ k # 0
    <3>1. Min(I) \in I
      <4> HIDE DEF I
      <4> QED BY <1>3, <1>5, MinIs
    <3> QED BY <1>1, <1>5, <3>1
  <2>2. v = s[k].val /\ s[k] \in ToSet(s) /\ s[k].key = c
    BY <1>1, <2>1 DEF v
  <2> QED BY <1>2, <2>2
<1> QED BY <1>4, <1>5

\* get of a selection of the lines, where the key has one line or none.
LEMMA GetOnly ==
  ASSUME NEW L, NEW s \in Seq(L), NEW c, NEW v, Only(s, c, v), NEW S
  PROVE  LET w == get(Among(s, S), c)
         IN  /\ w = NoVal \/ w = v
             /\ v = NoVal => w = NoVal
             /\ \A t \in ToSet(s) : t.key = c /\ t \in S => w = v
             /\ \A t \in ToSet(s) : t.key = c /\ t \notin S => w = NoVal
<1> DEFINE a == Among(s, S)
<1>1. a \in Seq(L) /\ ToSet(a) = ToSet(s) \intersect S
  BY AmongIs
<1> HIDE DEF a
<1>2. \/ get(a, c) = NoVal /\ \A t \in ToSet(a) : t.key # c
      \/ \E t \in ToSet(a) : t.key = c /\ get(a, c) = t.val
  BY <1>1, GetIs
<1>3. CASE v = NoVal /\ \A t \in ToSet(s) : t.key # c
  BY <1>1, <1>2, <1>3 DEF a
<1>4. CASE \E t \in ToSet(s) : t.key = c /\ v = t.val /\ \A u \in ToSet(s) : u.key = c => u = t
  <2>1. PICK t \in ToSet(s) : t.key = c /\ v = t.val /\ \A u \in ToSet(s) : u.key = c => u = t
    BY <1>4
  <2>2. CASE t \in S
    <3>1. t \in ToSet(a) /\ \A u \in ToSet(a) : u.key = c => u = t
      BY <1>1, <2>1, <2>2
    <3>2. get(a, c) = v
      BY <1>2, <2>1, <3>1
    <3> QED BY <2>1, <2>2, <3>2 DEF a
  <2>3. CASE t \notin S
    <3>1. \A u \in ToSet(a) : u.key # c
      BY <1>1, <2>1, <2>3
    <3>2. get(a, c) = NoVal
      BY <1>2, <3>1
    <3> QED BY <2>1, <2>3, <3>2 DEF a
  <2> QED BY <2>2, <2>3
<1> QED BY <1>3, <1>4 DEF Only

\* A cap, and what tells its value before a label is put over it.
IsCap(c) == c = [main |-> c.main, ghost |-> c.ghost, tint |-> c.tint, state |-> c.state,
                 hold |-> c.hold, chord |-> c.chord, emits |-> c.emits]
Conveys(c, v) ==
  \/ v = c.main
  \/ v.fn \in TapHoldFns \union {"overloadi", "layer"} /\ Parts(v) \intersect {c.hold, c.main} # {}
  \/ is_noop(v) /\ c.state = "dim"
  \/ v.fn = "toggle" /\ c.chord = "toggle"
Unbound == {"legend", "nothing", "custom"}
Idle(c) == c.main.fn \in Unbound /\ c.ghost.fn \in Unbound

CapOf(m, g, t, s, h, b, o) ==
  [main |-> m, ghost |-> g, tint |-> t, state |-> s, hold |-> h, chord |-> b, emits |-> o]

LEMMA CapOfIs ==
  ASSUME NEW m, NEW g, NEW t, NEW s, NEW h, NEW b, NEW o
  PROVE  LET c == CapOf(m, g, t, s, h, b, o)
         IN  /\ c.main = m /\ c.ghost = g /\ c.tint = t /\ c.state = s /\ c.hold = h
             /\ c.chord = b /\ c.emits = o /\ IsCap(c)
<1> DEFINE c == CapOf(m, g, t, s, h, b, o)
<1>1. /\ c.main = m /\ c.ghost = g /\ c.tint = t /\ c.state = s /\ c.hold = h
      /\ c.chord = b /\ c.emits = o
  BY DEF CapOf
<1> QED BY <1>1 DEF IsCap, CapOf

LEMMA CapExcept ==
  ASSUME NEW c, IsCap(c), NEW x, NEW y
  PROVE  LET d == [c EXCEPT !.ghost = x, !.main = y]
             e == [c EXCEPT !.chord = x]
         IN  /\ d.main = y /\ d.ghost = x /\ d.state = c.state /\ d.hold = c.hold /\ d.chord = c.chord
             /\ e.main = c.main /\ e.ghost = c.ghost /\ e.state = c.state /\ e.hold = c.hold /\ e.chord = x
             /\ IsCap(e)
<1> DEFINE m == c.main
           g == c.ghost
           t == c.tint
           s == c.state
           h == c.hold
           b == c.chord
           o == c.emits
           r == CapOf(m, g, t, s, h, b, o)
           d == [c EXCEPT !.ghost = x, !.main = y]
           e == [c EXCEPT !.chord = x]
<1>1. c = r
  BY DEF IsCap, CapOf
<1> HIDE DEF m, g, t, s, h, b, o
<1>2. [r EXCEPT !.ghost = x, !.main = y] = CapOf(y, x, t, s, h, b, o)
  <2>1. [CapOf(m, g, t, s, h, b, o) EXCEPT !.ghost = x] = CapOf(m, x, t, s, h, b, o)
    BY DEF CapOf
  <2>2. [CapOf(m, x, t, s, h, b, o) EXCEPT !.main = y] = CapOf(y, x, t, s, h, b, o)
    BY DEF CapOf
  <2> QED BY <2>1, <2>2
<1>20. [r EXCEPT !.chord = x] = CapOf(m, g, t, s, h, x, o)
  BY DEF CapOf
<1> HIDE DEF r
<1>21. d = CapOf(y, x, t, s, h, b, o) /\ e = CapOf(m, g, t, s, h, x, o)
  BY <1>1, <1>2, <1>20
<1> HIDE DEF d, e
<1>3. /\ d.main = y /\ d.ghost = x /\ d.state = s /\ d.hold = h /\ d.chord = b
      /\ e.main = m /\ e.ghost = g /\ e.state = s /\ e.hold = h /\ e.chord = x /\ IsCap(e)
  BY <1>21, CapOfIs
<1> QED BY <1>3 DEF d, e, m, g, s, h, b

\* A cap with its badge.
Badged(c, x) == [c EXCEPT !.chord = x]
SameBut(e, c, x) ==
  /\ IsCap(e) /\ e.main = c.main /\ e.ghost = c.ghost
  /\ e.state = c.state /\ e.hold = c.hold /\ e.chord = x

LEMMA BadgedIs ==
  ASSUME NEW c, IsCap(c), NEW x
  PROVE  SameBut(Badged(c, x), c, x)
BY CapExcept DEF Badged, SameBut

\* A label hides nothing of what the cap tells.
LEMMA LabelTells ==
  ASSUME NEW c, IsCap(c), NEW labels, NEW k
  PROVE  LET d == apply_label(c, labels, k)
         IN  /\ \A v : Conveys(c, v) => Tells(d, v)
             /\ Idle(c) => {d.main.fn, d.ghost.fn} \subseteq Unbound
<1> DEFINE d == apply_label(c, labels, k)
           t == label_for(labels, k)
           e == [c EXCEPT !.ghost = c.main, !.main = Custom(t)]
<1>1. d = IF t = "" THEN c ELSE e
  BY DEF apply_label
<1>2. /\ e.main = Custom(t) /\ e.ghost = c.main /\ e.state = c.state /\ e.hold = c.hold /\ e.chord = c.chord
  BY CapExcept
<1> HIDE DEF d, e, t
<1>3. /\ c.main \in {d.main, d.ghost} /\ d.state = c.state /\ d.hold = c.hold /\ d.chord = c.chord
      /\ Idle(c) => d.main.fn \in Unbound /\ d.ghost.fn \in Unbound
  <2>1. Custom(t).fn \in Unbound
    BY DEF Custom, Unbound
  <2> QED BY <1>1, <1>2, <2>1 DEF Idle
<1>4. \A v : Conveys(c, v) => Tells(d, v)
  BY <1>3 DEF Conveys, Tells
<1> QED BY <1>3, <1>4 DEF d

\* The fields of the caps a board is drawn with.
LEMMA CapAt ==
  ASSUME NEW k
  PROVE  /\ IsCap(cap_at(k)) /\ cap_at(k).main = Legend /\ cap_at(k).ghost = Nothing
         /\ Idle(cap_at(k))
<1> DEFINE m == Legend
           g == Nothing
           t == <<>>
           s == "normal"
           b == ""
           o == {canonical(k)} \cap PRIMARY
<1>1. cap_at(k) = CapOf(m, g, t, s, g, b, o)
  BY DEF cap_at, CapOf
<1> HIDE DEF m, g, t, s, b, o
<1>2. cap_at(k).main = m /\ cap_at(k).ghost = g /\ IsCap(cap_at(k))
  BY <1>1, CapOfIs
<1>3. Legend.fn \in Unbound /\ Nothing.fn \in Unbound
  BY DEF Unbound, Legend, Nothing
<1> QED BY <1>2, <1>3 DEF Idle, m, g

\* The ways a cap is drawn.
Acting(c, m, g, t)      == [c EXCEPT !.main = m, !.ghost = g, !.tint = t]
Tapping(c, m, h, t, o)  == [c EXCEPT !.main = m, !.hold = h, !.tint = t, !.emits = o]
Rebound(c, m, g, t, o)  == [c EXCEPT !.main = m, !.ghost = g, !.tint = t, !.emits = o]
Blanked(c, m, s, o)     == [c EXCEPT !.main = m, !.state = s, !.emits = o]
Held(c, s, t, o)        == [c EXCEPT !.state = s, !.tint = t, !.emits = o]
Dimmed(c, s)            == [c EXCEPT !.state = s]
Tinted(c, t)            == [c EXCEPT !.tint = t]

LEMMA CapDrawn ==
  ASSUME NEW c, IsCap(c), NEW m, NEW g, NEW t, NEW o, NEW s, NEW h
  PROVE  /\ LET d == Acting(c, m, g, t) IN IsCap(d) /\ d.main = m /\ d.ghost = g
         /\ LET d == Tapping(c, m, h, t, o) IN IsCap(d) /\ d.main = m /\ d.hold = h
         /\ LET d == Rebound(c, m, g, t, o) IN IsCap(d) /\ d.main = m /\ d.ghost = g
         /\ LET d == Blanked(c, m, s, o) IN IsCap(d) /\ d.state = s
         /\ LET d == Held(c, s, t, o) IN IsCap(d) /\ d.main = c.main /\ d.ghost = c.ghost
         /\ LET d == Dimmed(c, s) IN IsCap(d) /\ d.main = c.main /\ d.ghost = c.ghost
         /\ LET d == Tinted(c, t) IN IsCap(d)
<1> DEFINE M == c.main
           G == c.ghost
           T == c.tint
           S == c.state
           H == c.hold
           B == c.chord
           O == c.emits
           r == CapOf(M, G, T, S, H, B, O)
           d1 == Acting(c, m, g, t)
           d2 == Tapping(c, m, h, t, o)
           d3 == Rebound(c, m, g, t, o)
           d4 == Blanked(c, m, s, o)
           d5 == Held(c, s, t, o)
           d6 == Dimmed(c, s)
           d7 == Tinted(c, t)
<1>1. c = r
  BY DEF IsCap, CapOf
<1> HIDE DEF M, G, T, S, H, B, O
<1>21. [r EXCEPT !.main = m, !.ghost = g, !.tint = t] = CapOf(m, g, t, S, H, B, O)
  <2>1. [CapOf(M, G, T, S, H, B, O) EXCEPT !.main = m] = CapOf(m, G, T, S, H, B, O)
    BY DEF CapOf
  <2>2. [CapOf(m, G, T, S, H, B, O) EXCEPT !.ghost = g] = CapOf(m, g, T, S, H, B, O)
    BY DEF CapOf
  <2>3. [CapOf(m, g, T, S, H, B, O) EXCEPT !.tint = t] = CapOf(m, g, t, S, H, B, O)
    BY DEF CapOf
  <2> QED BY <2>1, <2>2, <2>3
<1>22. [r EXCEPT !.main = m, !.hold = h, !.tint = t, !.emits = o] = CapOf(m, G, t, S, h, B, o)
  <2>1. [CapOf(M, G, T, S, H, B, O) EXCEPT !.main = m] = CapOf(m, G, T, S, H, B, O)
    BY DEF CapOf
  <2>2. [CapOf(m, G, T, S, H, B, O) EXCEPT !.hold = h] = CapOf(m, G, T, S, h, B, O)
    BY DEF CapOf
  <2>3. [CapOf(m, G, T, S, h, B, O) EXCEPT !.tint = t] = CapOf(m, G, t, S, h, B, O)
    BY DEF CapOf
  <2>4. [CapOf(m, G, t, S, h, B, O) EXCEPT !.emits = o] = CapOf(m, G, t, S, h, B, o)
    BY DEF CapOf
  <2> QED BY <2>1, <2>2, <2>3, <2>4
<1>23. [r EXCEPT !.main = m, !.ghost = g, !.tint = t, !.emits = o] = CapOf(m, g, t, S, H, B, o)
  <2>1. [CapOf(M, G, T, S, H, B, O) EXCEPT !.main = m] = CapOf(m, G, T, S, H, B, O)
    BY DEF CapOf
  <2>2. [CapOf(m, G, T, S, H, B, O) EXCEPT !.ghost = g] = CapOf(m, g, T, S, H, B, O)
    BY DEF CapOf
  <2>3. [CapOf(m, g, T, S, H, B, O) EXCEPT !.tint = t] = CapOf(m, g, t, S, H, B, O)
    BY DEF CapOf
  <2>4. [CapOf(m, g, t, S, H, B, O) EXCEPT !.emits = o] = CapOf(m, g, t, S, H, B, o)
    BY DEF CapOf
  <2> QED BY <2>1, <2>2, <2>3, <2>4
<1>24. [r EXCEPT !.main = m, !.state = s, !.emits = o] = CapOf(m, G, T, s, H, B, o)
  <2>1. [CapOf(M, G, T, S, H, B, O) EXCEPT !.main = m] = CapOf(m, G, T, S, H, B, O)
    BY DEF CapOf
  <2>2. [CapOf(m, G, T, S, H, B, O) EXCEPT !.state = s] = CapOf(m, G, T, s, H, B, O)
    BY DEF CapOf
  <2>3. [CapOf(m, G, T, s, H, B, O) EXCEPT !.emits = o] = CapOf(m, G, T, s, H, B, o)
    BY DEF CapOf
  <2> QED BY <2>1, <2>2, <2>3
<1>25. [r EXCEPT !.state = s, !.tint = t, !.emits = o] = CapOf(M, G, t, s, H, B, o)
  <2>1. [CapOf(M, G, T, S, H, B, O) EXCEPT !.state = s] = CapOf(M, G, T, s, H, B, O)
    BY DEF CapOf
  <2>2. [CapOf(M, G, T, s, H, B, O) EXCEPT !.tint = t] = CapOf(M, G, t, s, H, B, O)
    BY DEF CapOf
  <2>3. [CapOf(M, G, t, s, H, B, O) EXCEPT !.emits = o] = CapOf(M, G, t, s, H, B, o)
    BY DEF CapOf
  <2> QED BY <2>1, <2>2, <2>3
<1>26. [r EXCEPT !.state = s] = CapOf(M, G, T, s, H, B, O)
  BY DEF CapOf
<1>27. [r EXCEPT !.tint = t] = CapOf(M, G, t, S, H, B, O)
  BY DEF CapOf
<1> HIDE DEF r
<1>3. /\ d1 = CapOf(m, g, t, S, H, B, O) /\ d2 = CapOf(m, G, t, S, h, B, o)
      /\ d3 = CapOf(m, g, t, S, H, B, o) /\ d4 = CapOf(m, G, T, s, H, B, o)
      /\ d5 = CapOf(M, G, t, s, H, B, o) /\ d6 = CapOf(M, G, T, s, H, B, O)
      /\ d7 = CapOf(M, G, t, S, H, B, O)
  BY <1>1, <1>21, <1>22, <1>23, <1>24, <1>25, <1>26, <1>27
     DEF Acting, Tapping, Rebound, Blanked, Held, Dimmed, Tinted
<1> HIDE DEF d1, d2, d3, d4, d5, d6, d7
<1>5. /\ IsCap(d1) /\ d1.main = m /\ d1.ghost = g
      /\ IsCap(d2) /\ d2.main = m /\ d2.hold = h
      /\ IsCap(d3) /\ d3.main = m /\ d3.ghost = g
      /\ IsCap(d4) /\ d4.state = s
      /\ IsCap(d5) /\ d5.main = M /\ d5.ghost = G
      /\ IsCap(d6) /\ d6.main = M /\ d6.ghost = G
      /\ IsCap(d7)
  BY <1>3, CapOfIs
<1> QED BY <1>5 DEF d1, d2, d3, d4, d5, d6, d7, M, G

\* The cap of a layer's board tells the key's binding there, and none that it
\* does not have.
TellsOrIdle(c, v, quiet) ==
  /\ v # NoVal /\ ~quiet => Tells(c, v)
  /\ v = NoVal => {c.main.fn, c.ghost.fn} \subseteq Unbound

\* ... but in the game layer, whose caps show the key's own legend.
LEMMA OverlayTells ==
  ASSUME NEW l, NEW k, NEW v, NEW src, NEW holds
  PROVE  TellsOrIdle(OverlayCap(l, k, v, src, holds), v, l.name = <<"game">>)
<1> DEFINE cap  == cap_at(k)
           at   == SelectInSeq(holds, LAMBDA h : h.key = <<k>>)
           game == l.name = <<"game">>
           d1   == style_noop(cap)
           d2   == [cap EXCEPT !.tint = src]
           d3   == [cap EXCEPT !.main = v, !.ghost = Legend, !.tint = src, !.emits = output_chord(v)]
           d4   == [cap EXCEPT !.state = "hold", !.tint = holds[at].of, !.emits = {}]
           d5   == [cap EXCEPT !.state = "dim"]
           drawn == CASE v # NoVal /\ is_noop(v) -> d1
                      [] v # NoVal /\ ~is_noop(v) /\ game -> d2
                      [] v # NoVal /\ ~is_noop(v) /\ ~game -> d3
                      [] v = NoVal /\ at # 0 -> d4
                      [] OTHER -> d5
           badge == IF InChord(l.combos, k) # 0 THEN "combo" ELSE ""
           done  == [drawn EXCEPT !.chord = badge]
           c     == OverlayCap(l, k, v, src, holds)
<1>1. c = apply_label(done, l.labels, <<k>>)
  BY DEF OverlayCap
<1>2. IsCap(cap) /\ Idle(cap)
  BY CapAt
<1> DEFINE g  == Legend
           n  == Nothing
           o  == output_chord(v)
           e  == {}
           sd == "dim"
           sh == "hold"
           of == holds[at].of
<1> HIDE DEF cap, at, badge
<1>3. /\ IsCap(d1) /\ d1.state = "dim"
      /\ IsCap(d2)
      /\ IsCap(d3) /\ d3.main = v
      /\ IsCap(d4) /\ d4.main = cap.main /\ d4.ghost = cap.ghost
      /\ IsCap(d5) /\ d5.main = cap.main /\ d5.ghost = cap.ghost
  <2>1. IsCap(d1) /\ d1.state = sd
    <3> DEFINE d == Blanked(cap, n, sd, e)
    <3>1. d1 = d
      BY DEF style_noop, Blanked
    <3> HIDE DEF d1, n, sd, e
    <3>2. IsCap(d) /\ d.state = sd
      BY <1>2, CapDrawn
    <3> HIDE DEF d
    <3> QED BY <3>1, <3>2
  <2>2. IsCap(d2)
    <3>1. d2 = Tinted(cap, src)
      BY DEF Tinted
    <3> HIDE DEF d2
    <3> QED BY <1>2, <3>1, CapDrawn
  <2>3. IsCap(d3) /\ d3.main = v
    <3> DEFINE d == Rebound(cap, v, g, src, o)
    <3>1. d3 = d
      BY DEF Rebound
    <3> HIDE DEF d3, g, o
    <3>2. IsCap(d) /\ d.main = v
      BY <1>2, CapDrawn
    <3> HIDE DEF d
    <3> QED BY <3>1, <3>2
  <2>4. IsCap(d4) /\ d4.main = cap.main /\ d4.ghost = cap.ghost
    <3> DEFINE d == Held(cap, sh, of, e)
    <3>1. d4 = d
      BY DEF Held
    <3> HIDE DEF d4, sh, of, e
    <3>2. IsCap(d) /\ d.main = cap.main /\ d.ghost = cap.ghost
      BY <1>2, CapDrawn
    <3> HIDE DEF d
    <3> QED BY <3>1, <3>2
  <2>5. IsCap(d5) /\ d5.main = cap.main /\ d5.ghost = cap.ghost
    <3>1. d5 = Dimmed(cap, sd)
      BY DEF Dimmed
    <3> HIDE DEF d5, sd
    <3> QED BY <1>2, <3>1, CapDrawn
  <2> QED BY <2>1, <2>2, <2>3, <2>4, <2>5
<1> HIDE DEF d1, d2, d3, d4, d5
<1>4. /\ IsCap(drawn)
      /\ v # NoVal /\ ~game => v = drawn.main \/ (is_noop(v) /\ drawn.state = "dim")
      /\ v = NoVal => Idle(drawn)
  <2>1. CASE v # NoVal /\ is_noop(v)
    <3>1. drawn = d1
      BY <2>1
    <3> QED BY <1>3, <2>1, <3>1
  <2>2. CASE v # NoVal /\ ~is_noop(v) /\ game
    <3>1. drawn = d2
      BY <2>2
    <3> QED BY <1>3, <2>2, <3>1
  <2>3. CASE v # NoVal /\ ~is_noop(v) /\ ~game
    <3>1. drawn = d3
      BY <2>3
    <3> QED BY <1>3, <2>3, <3>1
  <2>4. CASE v = NoVal /\ at # 0
    <3>1. drawn = d4
      BY <2>4
    <3> QED BY <1>2, <1>3, <2>4, <3>1 DEF Idle
  <2>5. CASE v = NoVal /\ at = 0
    <3>1. drawn = d5
      BY <2>5
    <3> QED BY <1>2, <1>3, <2>5, <3>1 DEF Idle
  <2> QED BY <2>1, <2>2, <2>3, <2>4, <2>5
<1> HIDE DEF drawn
<1>5. /\ IsCap(done) /\ done.main = drawn.main /\ done.ghost = drawn.ghost
      /\ done.state = drawn.state /\ done.hold = drawn.hold
  <2>1. done = Badged(drawn, badge)
    BY DEF Badged
  <2> HIDE DEF done
  <2>2. SameBut(Badged(drawn, badge), drawn, badge)
    BY <1>4, BadgedIs
  <2> QED BY <2>1, <2>2 DEF SameBut
<1> HIDE DEF done
<1>6. /\ v # NoVal /\ ~game => Conveys(done, v)
      /\ v = NoVal => Idle(done)
  <2>1. Idle(drawn) => Idle(done)
    BY <1>5 DEF Idle
  <2>2. v = done.main \/ (is_noop(v) /\ done.state = "dim") => Conveys(done, v)
    BY DEF Conveys
  <2> QED BY <1>4, <1>5, <2>1, <2>2
<1>7. /\ \A x : Conveys(done, x) => Tells(c, x)
      /\ Idle(done) => {c.main.fn, c.ghost.fn} \subseteq Unbound
  BY <1>1, <1>5, LabelTells
<1> HIDE DEF c
<1>8. (v # NoVal /\ ~game => Tells(c, v)) /\ (v = NoVal => {c.main.fn, c.ghost.fn} \subseteq Unbound)
  BY <1>6, <1>7
<1>9. TellsOrIdle(c, v, game)
  BY <1>8 DEF TellsOrIdle
<1> QED BY <1>9 DEF c

\* What a key holds is a part of its value.
LEMMA HoldIs ==
  ASSUME NEW t, IsHold(t.val), NEW mods
  PROVE  /\ HoldOf(t, mods).key = t.key
         /\ t.val.fn \in TapHoldFns \union {"overloadi", "layer"}
         /\ HoldOf(t, mods).target \in Parts(t.val)
<1> DEFINE v == t.val
           g == IF v.fn = "overloadi" THEN NestedTarget(v) ELSE v.args[1]
           h == v.args[2]
<1>1. HoldOf(t, mods).key = t.key /\ HoldOf(t, mods).target = g
  BY DEF HoldOf
<1>2. v.fn \in TapHoldFns \union {"overloadi", "layer"}
  BY DEF IsHold
<1> HIDE DEF v
<1>3. CASE v.fn # "overloadi"
  <2>1. 1 \in DOMAIN v.args
    BY <1>3 DEF IsHold, HasArg, OneArg, v
  <2>2. g \in Args(v)
    BY <1>3, <2>1 DEF Args
  <2> QED BY <1>1, <1>2, <2>2 DEF Parts, v
<1>4. CASE v.fn = "overloadi"
  <2>1. v.fn \notin TapHoldFns /\ v.fn # "layer"
    BY <1>4 DEF TapHoldFns
  <2>2. 2 \in DOMAIN v.args /\ NestedTarget(v) # Nothing
    BY <2>1 DEF IsHold, HasArg, v
  <2>3. h \in Args(v)
    BY <2>2 DEF Args
  <2>4. NestedTarget(v) = h \/ (NestedTarget(v) = h.args[1] /\ 1 \in DOMAIN h.args)
    <3>1. CASE h.fn = "layer" /\ OneArg(h)
      BY <3>1 DEF NestedTarget, OneArg, HasArg
    <3>2. CASE ~(h.fn = "layer" /\ OneArg(h)) /\ h.fn \in TapHoldFns \ {"lettermod"} /\ HasArg(h, 1)
      BY <3>2 DEF NestedTarget, HasArg
    <3>3. CASE ~(h.fn = "layer" /\ OneArg(h)) /\ ~(h.fn \in TapHoldFns \ {"lettermod"} /\ HasArg(h, 1))
      BY <2>2, <3>3 DEF NestedTarget
    <3> QED BY <3>1, <3>2, <3>3
  <2>5. g \in Parts(v)
    <3>1. g = NestedTarget(v)
      BY <1>4
    <3>2. CASE NestedTarget(v) = h
      BY <2>3, <3>1, <3>2 DEF Parts
    <3>3. CASE NestedTarget(v) = h.args[1] /\ 1 \in DOMAIN h.args
      <4>1. h.args[1] \in Args(h)
        BY <3>3 DEF Args
      <4> QED BY <2>3, <3>1, <3>3, <4>1 DEF Parts
    <3> QED BY <2>4, <3>2, <3>3
  <2> QED BY <1>1, <1>2, <2>5 DEF v
<1> QED BY <1>3, <1>4

HoldsOf(H, mods) == [i \in DOMAIN H |-> HoldOf(H[i], mods)]
LastHold(hs, c)  == SelectLastInSeq(hs, LAMBDA x : x.key = c)

\* The hold found for a key that has one line or none.
LEMMA HeldAt ==
  ASSUME NEW L, NEW s \in Seq(L), NEW c, NEW v, Only(s, c, v), NEW S, NEW mods,
         \A t \in ToSet(s) \intersect S : IsHold(t.val)
  PROVE  LET hs == HoldsOf(Among(s, S), mods)
             h  == LastHold(hs, c)
         IN  \/ h = 0 /\ \A t \in ToSet(s) : t.key = c => t \notin S
             \/ h # 0 /\ \E t \in ToSet(s) \intersect S :
                           t.key = c /\ t.val = v /\ hs[h] = HoldOf(t, mods)
<1> DEFINE H  == Among(s, S)
           n  == Len(H)
           hs == [i \in DOMAIN H |-> HoldOf(H[i], mods)]
           I  == {i \in 1 .. Len(hs) : hs[i].key = c}
           h  == IF I # {} THEN Max(I) ELSE 0
<1>1. LastHold(hs, c) = h
  BY DEF LastHold, SelectLastInSeq
<1>2. H \in Seq(L) /\ ToSet(H) = ToSet(s) \intersect S
  BY AmongIs
<1> HIDE DEF H
<1>3. n \in Nat /\ DOMAIN H = 1 .. n /\ ToSet(H) = {H[i] : i \in 1 .. n} /\ IsList(H)
  BY <1>2, ListOfSeq DEF ToSet
<1>4. Len(hs) = n
  <2>1. DOMAIN hs = DOMAIN H /\ hs = [i \in DOMAIN H |-> hs[i]]
    OBVIOUS
  <2> HIDE DEF hs
  <2> QED BY <1>3, <2>1, ListMap
<1>5. \A i \in 1 .. n : hs[i] = HoldOf(H[i], mods) /\ hs[i].key = H[i].key
  BY <1>2, <1>3, HoldIs
<1> HIDE DEF hs, n
<1>6. I \in SUBSET (1 .. n)
  BY <1>4
<1>7. I = {} => \A t \in ToSet(s) : t.key = c => t \notin S
  BY <1>2, <1>3, <1>4, <1>5
<1>8. ASSUME I # {}
      PROVE  h # 0 /\ \E t \in ToSet(s) \intersect S : t.key = c /\ t.val = v /\ hs[h] = HoldOf(t, mods)
  <2>1. Max(I) \in I
    <3> HIDE DEF I
    <3> QED BY <1>3, <1>6, <1>8, MaxIs
  <2>2. h \in 1 .. n /\ h \in I
    BY <1>6, <1>8, <2>1
  <2>3. H[h] \in ToSet(s) \intersect S /\ H[h].key = c /\ hs[h] = HoldOf(H[h], mods)
    BY <1>2, <1>3, <1>5, <2>2
  <2>4. H[h].val = v
    BY <2>3 DEF Only
  <2>5. h # 0
    BY <1>3, <2>2
  <2> HIDE DEF h, I
  <2> QED BY <2>3, <2>4, <2>5
<1> HIDE DEF h
<1>9. \/ h = 0 /\ \A t \in ToSet(s) : t.key = c => t \notin S
      \/ h # 0 /\ \E t \in ToSet(s) \intersect S : t.key = c /\ t.val = v /\ hs[h] = HoldOf(t, mods)
  <2>1. I = {} => h = 0
    BY DEF h
  <2> QED BY <1>7, <1>8, <2>1
<1> QED BY <1>1, <1>9 DEF hs, H, HoldsOf

\* A badge is on every key of a chord.
LEMMA BadgeIs ==
  ASSUME NEW L, NEW s \in Seq(L), NEW k, NEW t \in ToSet(s), t.key = <<k>>
  PROVE  InChord(s, k) # 0
<1> DEFINE n == Len(s)
           I == {i \in 1 .. n : Contains(s[i].key, k)}
<1>1. n \in Nat /\ DOMAIN s = 1 .. n
  OBVIOUS
<1>2. InChord(s, k) = IF I # {} THEN Max(I) ELSE 0
  BY DEF InChord, SelectLastInSeq
<1>3. PICK i \in 1 .. n : s[i] = t
  BY <1>1 DEF ToSet
<1>4. Contains(<<k>>, k)
  BY DEF Contains
<1>5. I \in SUBSET (1 .. n) /\ I # {}
  BY <1>3, <1>4
<1> HIDE DEF I, n
<1>6. Max(I) \in I
  BY <1>1, <1>5, MaxIs
<1>7. Max(I) # 0
  BY <1>1, <1>5, <1>6
<1> QED BY <1>2, <1>5, <1>7

\* The lines of [main], as the Config sorts them.
Sorted(s, l) == Among(s, {t \in ToSet(s) : ListOf(t) = l})
SortedAs(cfg, s, mods) ==
  /\ cfg.holds = HoldsOf(Sorted(s, "holds"), mods)
  /\ cfg.chords = Sorted(s, "chords") /\ cfg.remaps = Sorted(s, "remaps")

LEMMA BaseTells ==
  ASSUME NEW L, NEW s \in Seq(L), NEW k, NEW v, Only(s, <<k>>, v),
         \A t \in ToSet(s) : t.val # NoVal, NEW cfg, NEW mods, SortedAs(cfg, s, mods)
  PROVE  LET c == BaseCap(cfg, k)
         IN  /\ v # NoVal => Tells(c, v)
             /\ v = NoVal => {c.main.fn, c.ghost.fn} \subseteq Unbound
<1> DEFINE cap  == cap_at(k)
           hs   == cfg.holds
           h    == LastHold(hs, <<k>>)
           hold == hs[h]
           w    == get(cfg.remaps, <<k>>)
           d1 == [cap EXCEPT !.main = hold.target, !.ghost = Legend, !.tint = <<hold.kind, hold.target>>]
           d2 == [cap EXCEPT !.main = hold.tap, !.hold = hold.target, !.tint = <<hold.kind, hold.target>>,
                             !.emits = Glow(hold.tap, @)]
           d3 == style_noop(cap)
           d4 == [cap EXCEPT !.main = w, !.ghost = Legend, !.tint = <<"remap">>, !.emits = Glow(w, @)]
           drawn == CASE h # 0 /\ hold.tap = Nothing -> d1
                      [] h # 0 /\ hold.tap # Nothing -> d2
                      [] h = 0 /\ w # NoVal /\ is_noop(w) -> d3
                      [] h = 0 /\ w # NoVal /\ ~is_noop(w) -> d4
                      [] OTHER -> cap
           badge == IF InChord(cfg.chords, k) # 0 THEN "toggle"
                    ELSE IF InChord(cfg.combos, k) # 0 THEN "combo" ELSE ""
           done  == [drawn EXCEPT !.chord = badge]
           c     == BaseCap(cfg, k)
<1>1. c = apply_label(done, cfg.labels, <<k>>)
  BY DEF BaseCap, LastHold
<1>2. IsCap(cap) /\ Idle(cap)
  BY CapAt
\* What the lists have of the key.
<1>3. \/ h = 0 /\ \A t \in ToSet(s) : t.key = <<k>> => ListOf(t) # "holds"
      \/ h # 0 /\ hold.target \in Parts(v) /\ v.fn \in TapHoldFns \union {"overloadi", "layer"}
  <2> DEFINE S == {t \in ToSet(s) : ListOf(t) = "holds"}
             H == Among(s, S)
             m == HoldsOf(H, mods)
             a == LastHold(m, <<k>>)
  <2>1. hs = m
    BY DEF SortedAs, Sorted
  <2>2. \A t \in S : IsHold(t.val)
    BY DEF ListOf
  <2>3. ToSet(s) \intersect S = S
    OBVIOUS
  <2>4. \/ a = 0 /\ \A t \in ToSet(s) : t.key = <<k>> => t \notin S
        \/ a # 0 /\ \E t \in ToSet(s) \intersect S :
                      t.key = <<k>> /\ t.val = v /\ m[a] = HoldOf(t, mods)
    <3> HIDE DEF S
    <3>1. \A t \in ToSet(s) \intersect S : IsHold(t.val)
      BY <2>2
    <3> QED BY <3>1, HeldAt
  <2>5. h = a /\ hold = m[a]
    BY <2>1
  <2>6. CASE a = 0 /\ \A t \in ToSet(s) : t.key = <<k>> => t \notin S
    BY <2>5, <2>6
  <2>7. CASE a # 0 /\ \E t \in ToSet(s) \intersect S :
                        t.key = <<k>> /\ t.val = v /\ m[a] = HoldOf(t, mods)
    <3> HIDE DEF a, m, S, h, hs
    <3>1. PICK t \in ToSet(s) \intersect S : t.key = <<k>> /\ t.val = v /\ m[a] = HoldOf(t, mods)
      BY <2>7
    <3>2. IsHold(t.val)
      BY <2>2, <2>3
    <3> QED BY <2>5, <2>7, <3>1, <3>2, HoldIs
  <2> HIDE DEF a, h
  <2> QED BY <2>4, <2>6, <2>7
<1>4. /\ w = NoVal \/ w = v
      /\ v = NoVal => w = NoVal
      /\ \A t \in ToSet(s) : t.key = <<k>> /\ ListOf(t) = "remaps" => w = v
      /\ \A t \in ToSet(s) : t.key = <<k>> /\ ListOf(t) # "remaps" => w = NoVal
  <2> DEFINE S == {t \in ToSet(s) : ListOf(t) = "remaps"}
  <2>1. w = get(Among(s, S), <<k>>)
    BY DEF SortedAs, Sorted
  <2>2. \A t \in ToSet(s) : t \in S <=> ListOf(t) = "remaps"
    OBVIOUS
  <2> HIDE DEF S, w
  <2> QED BY <2>1, <2>2, GetOnly
<1>5. \A t \in ToSet(s) : t.key = <<k>> /\ ListOf(t) = "chords" => badge = "toggle" /\ t.val.fn = "toggle"
  <2> DEFINE S == {t \in ToSet(s) : ListOf(t) = "chords"}
  <2>1. cfg.chords = Among(s, S)
    BY DEF SortedAs, Sorted
  <2> SUFFICES ASSUME NEW t \in ToSet(s), t.key = <<k>>, ListOf(t) = "chords"
               PROVE  badge = "toggle" /\ t.val.fn = "toggle"
    OBVIOUS
  <2>2. t \in ToSet(s) \intersect S
    OBVIOUS
  <2>3. t.val.fn = "toggle"
    BY DEF ListOf
  <2> HIDE DEF S
  <2>4. Among(s, S) \in Seq(L) /\ t \in ToSet(Among(s, S))
    BY <2>2, AmongIs
  <2>5. InChord(cfg.chords, k) # 0
    BY <2>1, <2>4, BadgeIs
  <2> QED BY <2>3, <2>5
<1>6. \A t \in ToSet(s) : t.key = <<k>> => ListOf(t) \in {"holds", "remaps", "chords"}
  <2>1. ~is_chord_key(<<k>>)
    BY OnePartList DEF is_chord_key
  <2> QED BY <2>1 DEF ListOf
<1> HIDE DEF c, cap, w, badge
\* The ways it is drawn.
<1>7. IsCap(d1) /\ d1.main = hold.target
  <2> DEFINE g == Legend
             x == <<hold.kind, hold.target>>
             y == hold.target
  <2>1. d1 = Acting(cap, y, g, x)
    BY DEF Acting
  <2> HIDE DEF d1, g, x, y
  <2>2. IsCap(d1) /\ d1.main = y
    BY <1>2, <2>1, CapDrawn
  <2> QED BY <2>2 DEF y
<1>8. IsCap(d2) /\ d2.hold = hold.target
  <2> DEFINE x == <<hold.kind, hold.target>>
             y == hold.target
             z == hold.tap
             o == Glow(hold.tap, cap.emits)
  <2>1. d2 = Tapping(cap, z, y, x, o)
    BY DEF Tapping
  <2> HIDE DEF d2, x, y, z, o
  <2>2. IsCap(d2) /\ d2.hold = y
    BY <1>2, <2>1, CapDrawn
  <2> QED BY <2>2 DEF y
<1>9. IsCap(d3) /\ d3.state = "dim"
  <2> DEFINE n == Nothing
             sd == "dim"
             e == {}
  <2>1. d3 = Blanked(cap, n, sd, e)
    BY DEF style_noop, Blanked
  <2> HIDE DEF d3, n, sd, e
  <2>2. IsCap(d3) /\ d3.state = sd
    BY <1>2, <2>1, CapDrawn
  <2> QED BY <2>2 DEF sd
<1>10. IsCap(d4) /\ d4.main = w
  <2> DEFINE g == Legend
             x == <<"remap">>
             o == Glow(w, cap.emits)
  <2>1. d4 = Rebound(cap, w, g, x, o)
    BY DEF Rebound
  <2> HIDE DEF d4, g, x, o
  <2>2. IsCap(d4) /\ d4.main = w
    BY <1>2, <2>1, CapDrawn
  <2> QED BY <2>2
<1> HIDE DEF d1, d2, d3, d4, h, hs
<1>11. /\ IsCap(drawn)
       /\ h # 0 => drawn.main = hold.target \/ drawn.hold = hold.target
       /\ h = 0 /\ w # NoVal => drawn.main = w \/ (is_noop(w) /\ drawn.state = "dim")
       /\ h = 0 /\ w = NoVal => drawn = cap
  <2>1. CASE h # 0 /\ hold.tap = Nothing
    <3>1. drawn = d1
      BY <2>1
    <3> QED BY <1>7, <2>1, <3>1
  <2>2. CASE h # 0 /\ hold.tap # Nothing
    <3>1. drawn = d2
      BY <2>2
    <3> QED BY <1>8, <2>2, <3>1
  <2>3. CASE h = 0 /\ w # NoVal /\ is_noop(w)
    <3>1. drawn = d3
      BY <2>3
    <3> QED BY <1>9, <2>3, <3>1
  <2>4. CASE h = 0 /\ w # NoVal /\ ~is_noop(w)
    <3>1. drawn = d4
      BY <2>4
    <3> QED BY <1>10, <2>4, <3>1
  <2>5. CASE h = 0 /\ w = NoVal
    <3>1. drawn = cap
      BY <2>5
    <3> QED BY <1>2, <2>5, <3>1
  <2> QED BY <2>1, <2>2, <2>3, <2>4, <2>5
<1> HIDE DEF drawn, hold
<1>12. /\ IsCap(done) /\ done.main = drawn.main /\ done.ghost = drawn.ghost
       /\ done.state = drawn.state /\ done.hold = drawn.hold /\ done.chord = badge
  <2>1. done = Badged(drawn, badge)
    BY DEF Badged
  <2> HIDE DEF done
  <2>2. SameBut(Badged(drawn, badge), drawn, badge)
    BY <1>11, BadgedIs
  <2> QED BY <2>1, <2>2 DEF SameBut
<1> HIDE DEF done
<1>13. \/ v = NoVal /\ \A t \in ToSet(s) : t.key # <<k>>
       \/ v # NoVal /\ \E t \in ToSet(s) : t.key = <<k>> /\ v = t.val
  BY DEF Only
<1>14. v # NoVal => Conveys(done, v)
  <2> SUFFICES ASSUME v # NoVal PROVE Conveys(done, v)
    OBVIOUS
  <2>1. PICK t \in ToSet(s) : t.key = <<k>> /\ v = t.val
    BY <1>13
  <2>2. CASE h # 0
    BY <1>3, <1>11, <1>12, <2>2 DEF Conveys
  <2>3. CASE h = 0 /\ ListOf(t) = "remaps"
    <3>1. w = v
      BY <1>4, <2>1, <2>3
    <3> QED BY <1>11, <1>12, <2>3, <3>1 DEF Conveys
  <2>4. CASE h = 0 /\ ListOf(t) = "chords"
    <3>1. badge = "toggle" /\ v.fn = "toggle"
      BY <1>5, <2>1, <2>4
    <3> QED BY <1>12, <3>1 DEF Conveys
  <2>5. CASE h = 0 /\ ListOf(t) = "holds"
    BY <1>3, <2>1, <2>5
  <2> QED BY <1>6, <2>1, <2>2, <2>3, <2>4, <2>5
<1>15. v = NoVal => Idle(done)
  <2> SUFFICES ASSUME v = NoVal PROVE Idle(done)
    OBVIOUS
  <2>1. NoVal.fn \notin TapHoldFns \union {"overloadi", "layer"}
    BY DEF NoVal, TapHoldFns
  <2>2. h = 0
    BY <1>3, <2>1
  <2>3. w = NoVal
    BY <1>4
  <2> QED BY <1>2, <1>11, <1>12, <2>2, <2>3 DEF Idle
<1>16. /\ \A x : Conveys(done, x) => Tells(c, x)
       /\ Idle(done) => {c.main.fn, c.ghost.fn} \subseteq Unbound
  BY <1>1, <1>12, LabelTells
<1>17. (v # NoVal => Tells(c, v)) /\ (v = NoVal => {c.main.fn, c.ghost.fn} \subseteq Unbound)
  BY <1>14, <1>15, <1>16
<1> QED BY <1>17 DEF c

\* The lines derive reads a layer from.
LayerTexts(d, b) == TextsIn(d, LAMBDA s : s.kind \in {"layer", "composite"} /\ s.name.parts = b)

\* The lines a board is drawn from are those keyd merges.
LEMMA DrawnLines ==
  ASSUME NEW d, Sound(d)
  PROVE  /\ ~NamedMain(d) => BoardLines(d, Main) = bindings(TextsIn(d, LAMBDA s : s.kind = "main"))
         /\ \A b : b # Main => BoardLines(d, b) = bindings(LayerTexts(d, b))
         /\ \A b : /\ BoardLines(d, b) \in Seq(TextsOf(d))
                   /\ \A t \in ToSet(BoardLines(d, b)) : t.val # NoVal
<1>1. \A b : TextsIn(d, LAMBDA u : feeds_board(u, b)) = FlattenSeq(Rows(d, Boards(d, b)))
  <2> SUFFICES ASSUME NEW b
               PROVE  TextsIn(d, LAMBDA u : feeds_board(u, b)) = FlattenSeq(Rows(d, Boards(d, b)))
    OBVIOUS
  <2>1. [i \in DOMAIN d.secs |->
            IF feeds_board(d.secs[i], b)
            THEN [j \in DOMAIN d.secs[i].ents |-> d.secs[i].ents[j].text] ELSE <<>>]
          = Rows(d, Boards(d, b))
    BY DEF Rows, Boards, Texts
  <2> QED BY <2>1 DEF TextsIn
<1>2. TextsIn(d, LAMBDA u : u.kind = "main") = FlattenSeq(Rows(d, KindSecs(d, "main")))
  <2>1. [i \in DOMAIN d.secs |->
            IF d.secs[i].kind = "main"
            THEN [j \in DOMAIN d.secs[i].ents |-> d.secs[i].ents[j].text] ELSE <<>>]
          = Rows(d, KindSecs(d, "main"))
    BY DEF Rows, KindSecs, Texts
  <2> QED BY <2>1 DEF TextsIn
<1>3. \A b : LayerTexts(d, b) = FlattenSeq(Rows(d, LayerSecs(d, b)))
  <2> SUFFICES ASSUME NEW b
               PROVE  LayerTexts(d, b) = FlattenSeq(Rows(d, LayerSecs(d, b)))
    OBVIOUS
  <2>1. [i \in DOMAIN d.secs |->
            IF d.secs[i].kind \in {"layer", "composite"} /\ d.secs[i].name.parts = b
            THEN [j \in DOMAIN d.secs[i].ents |-> d.secs[i].ents[j].text] ELSE <<>>]
          = Rows(d, LayerSecs(d, b))
    BY DEF Rows, LayerSecs, Texts
  <2> QED BY <2>1 DEF TextsIn, LayerTexts
<1>4. \A i \in DOMAIN d.secs : d.secs[i].kind = "main" => d.secs[i].name.parts = Main
  BY DEF Sound, Fits, FitsName
<1>5. ~NamedMain(d) => Boards(d, Main) = KindSecs(d, "main")
  <2>1. is_board("main")
    BY DEF is_board, BoardKinds
  <2> QED BY <1>4, <2>1 DEF NamedMain, Boards, KindSecs, feeds_board
<1>6. \A b : b # Main => Boards(d, b) = LayerSecs(d, b)
  BY <1>4 DEF Boards, LayerSecs, feeds_board, is_board, BoardKinds
<1>7. \A b : BoardLines(d, b) \in Seq(TextsOf(d)) /\ \A t \in ToSet(BoardLines(d, b)) : t.val # NoVal
  <2> SUFFICES ASSUME NEW b
               PROVE  BoardLines(d, b) \in Seq(TextsOf(d)) /\ \A t \in ToSet(BoardLines(d, b)) : t.val # NoVal
    OBVIOUS
  <2> DEFINE x == FlattenSeq(Rows(d, Boards(d, b)))
             L == TextsOf(d)
  <2>1. x \in Seq(L)
    <3>1. Rows(d, Boards(d, b)) \in Seq(Seq(L))
      BY RowsAre DEF Sound
    <3> QED BY <3>1, FlattenHas
  <2>2. BoardLines(d, b) = bindings(x)
    BY <1>1 DEF BoardLines
  <2> HIDE DEF x, L
  <2>3. BoardLines(d, b) = Among(x, Valued(L))
    BY <2>1, <2>2, SelectionsAre
  <2>4. BoardLines(d, b) \in Seq(L) /\ ToSet(BoardLines(d, b)) \subseteq Valued(L)
    BY <2>1, <2>3, AmongIs
  <2> QED BY <2>4 DEF Valued, L
<1>8. ~NamedMain(d) => BoardLines(d, Main) = bindings(TextsIn(d, LAMBDA s : s.kind = "main"))
  BY <1>1, <1>2, <1>5 DEF BoardLines
<1>9. \A b : b # Main => BoardLines(d, b) = bindings(LayerTexts(d, b))
  BY <1>1, <1>3, <1>6 DEF BoardLines
<1> QED BY <1>7, <1>8, <1>9

\* The lists the base board is drawn from, and the keys of a layer's.
LEMMA DrawnLists ==
  ASSUME NEW d, Sound(d)
  PROVE  /\ ~NamedMain(d) => \E mods : SortedAs(derive(d), BoardLines(d, Main), mods)
         /\ \A b : b # Main => DerivedLayer(d, b).keys =
              Among(BoardLines(d, b), {t \in ToSet(BoardLines(d, b)) : ~is_chord_key(t.key)})
<1>1. ASSUME NEW b, b # Main
      PROVE  DerivedLayer(d, b).keys =
              Among(BoardLines(d, b), {t \in ToSet(BoardLines(d, b)) : ~is_chord_key(t.key)})
  <2> DEFINE x == bindings(LayerTexts(d, b))
  <2>1. DerivedLayer(d, b).keys = Among(x, {t \in ToSet(x) : ~is_chord_key(t.key)})
    BY DEF DerivedLayer, LayerTexts
  <2>2. BoardLines(d, b) = x
    BY <1>1, DrawnLines
  <2> QED BY <2>1, <2>2
<1>2. ASSUME ~NamedMain(d) PROVE \E mods : SortedAs(derive(d), BoardLines(d, Main), mods)
  <2> DEFINE x == bindings(TextsIn(d, LAMBDA s : s.kind = "main"))
             of(l) == Among(x, {t \in ToSet(x) : ListOf(t) = l})
             ls   == [i \in DOMAIN LayerNames(d) |-> DerivedLayer(d, LayerNames(d)[i])]
             mods == {ls[i].name[1] : i \in {j \in DOMAIN ls : ls[j].mods # "" /\ Len(ls[j].name) = 1}}
             cfg  == derive(d)
  <2>1. /\ cfg.holds = [i \in DOMAIN of("holds") |-> HoldOf(of("holds")[i], mods)]
        /\ cfg.chords = of("chords") /\ cfg.remaps = of("remaps")
    BY DEF derive
  <2>2. BoardLines(d, Main) = x
    BY <1>2, DrawnLines
  <2> HIDE DEF x, mods, cfg
  <2>3. SortedAs(cfg, x, mods)
    BY <2>1 DEF SortedAs, Sorted, HoldsOf
  <2> QED BY <2>2, <2>3 DEF cfg
<1> QED BY <1>1, <1>2

\* The caps of the boards of a sheet; the slots that have a key.
HasKey(k) == k # ""
CapOn(cfg, l, k) == IF Len(l.name) > 1 THEN CompositeCap(cfg, l, k) ELSE LayerCap(cfg, l, k)

IsSheet(sheet, cfg, k) ==
  /\ Len(sheet) \in Nat /\ Len(sheet) >= 1
  /\ sheet[1].name = <<>> /\ sheet[1].caps[k] = BaseCap(cfg, k)
  /\ \A i \in 2 .. Len(sheet) :
       \E l \in ToSet(cfg.layers) : sheet[i].name = l.name /\ sheet[i].caps[k] = CapOn(cfg, l, k)

\* A sequence with one more in front.
LEMMA ConsIs ==
  ASSUME NEW T, NEW x, NEW s \in Seq(T)
  PROVE  /\ Len(<<x>> \o s) = Len(s) + 1 /\ (<<x>> \o s)[1] = x
         /\ \A i \in 2 .. Len(s) + 1 : (<<x>> \o s)[i] = s[i - 1] /\ i - 1 \in 1 .. Len(s)
<1>1. <<x>> \in Seq(T \union {x}) /\ s \in Seq(T \union {x}) /\ Len(<<x>>) = 1 /\ <<x>>[1] = x
  OBVIOUS
<1>2. Len(s) \in Nat
  OBVIOUS
<1> QED BY <1>1, <1>2

LEMMA SheetIs ==
  ASSUME NEW cfg, IsList(cfg.layers), NEW slots, NEW k \in slots, HasKey(k)
  PROVE  IsSheet(build(cfg, slots), cfg, k)
<1> DEFINE caps(cap(_)) == [x \in slots |-> IF x = "" THEN BlankCap ELSE cap(x)]
           base     == Board(<<>>, caps(LAMBDA x : BaseCap(cfg, x)))
           board(l) == Board(l.name, caps(LAMBDA x : CapOn(cfg, l, x)))
           P == {l \in ToSet(cfg.layers) : l.name # <<"game">>}
           G == {l \in ToSet(cfg.layers) : l.name = <<"game">>}
           L == {cfg.layers[i] : i \in DOMAIN cfg.layers}
           plain == Among(cfg.layers, P)
           game  == Among(cfg.layers, G)
           over  == plain \o game
           tail  == [i \in DOMAIN over |-> board(over[i])]
           sheet == build(cfg, slots)
<1>1. sheet = <<base>> \o tail
  BY DEF build, CapOn
<1>2. base.name = <<>> /\ base.caps[k] = BaseCap(cfg, k)
  BY DEF Board, HasKey
<1>3. \A l : board(l).name = l.name /\ board(l).caps[k] = CapOn(cfg, l, k)
  BY DEF Board, HasKey
<1>4. cfg.layers \in Seq(L) /\ ToSet(cfg.layers) = L
  BY DEF IsList, ToSet
<1> HIDE DEF P, G
<1>5. plain \in Seq(L) /\ game \in Seq(L)
  BY <1>4, AmongIs
<1> HIDE DEF plain, game, base, board, sheet, L, caps, tail
<1>6. over \in Seq(L)
  BY <1>5
<1> HIDE DEF over
<1>7. Len(over) \in Nat /\ DOMAIN over = 1 .. Len(over) /\ \A i \in DOMAIN over : over[i] \in L
  BY <1>6
<1>8. DOMAIN tail = 1 .. Len(over) /\ (\A i \in 1 .. Len(over) : tail[i] = board(over[i]))
  BY <1>7 DEF tail
<1>9. IsList(tail) /\ Len(tail) = Len(over)
  <2>1. IsList(over) /\ DOMAIN tail = DOMAIN over /\ tail = [i \in DOMAIN over |-> tail[i]]
    BY <1>6, ListOfSeq DEF tail
  <2> QED BY <2>1, ListMap
<1>10. /\ Len(sheet) = Len(over) + 1 /\ sheet[1] = base
       /\ \A i \in 2 .. Len(sheet) : sheet[i] = tail[i - 1] /\ i - 1 \in 1 .. Len(over)
  BY <1>1, <1>9, ConsIs DEF IsList
<1>11. \A i \in 2 .. Len(sheet) :
         \E l \in ToSet(cfg.layers) : sheet[i].name = l.name /\ sheet[i].caps[k] = CapOn(cfg, l, k)
  <2> SUFFICES ASSUME NEW i \in 2 .. Len(sheet)
               PROVE  \E l \in ToSet(cfg.layers) :
                        sheet[i].name = l.name /\ sheet[i].caps[k] = CapOn(cfg, l, k)
    OBVIOUS
  <2>1. sheet[i] = board(over[i - 1]) /\ over[i - 1] \in ToSet(cfg.layers)
    BY <1>4, <1>7, <1>8, <1>10
  <2> QED BY <1>3, <2>1
<1>12. Len(sheet) \in Nat /\ Len(sheet) >= 1
  BY <1>7, <1>10
<1>13. sheet[1].name = <<>> /\ sheet[1].caps[k] = BaseCap(cfg, k)
  BY <1>2, <1>10
<1>14. IsSheet(sheet, cfg, k)
  BY <1>11, <1>12, <1>13 DEF IsSheet
<1> QED BY <1>14 DEF sheet

LEMMA LayersAre ==
  ASSUME NEW d, Sound(d)
  PROVE  /\ IsList(derive(d).layers)
         /\ \A l \in ToSet(derive(d).layers) : l = DerivedLayer(d, l.name)
<1> DEFINE cfg   == derive(d)
           names == LayerNames(d)
<1>1. cfg.layers = [i \in DOMAIN names |-> DerivedLayer(d, names[i])]
  BY DeriveIs
<1>2. IsList(names)
  <2>1. IsList(d.secs)
    BY DEF Sound, IsDocument, IsDoc
  <2> QED BY <2>1, OnceNamesIs, ListOfSeq DEF LayerNames
<1> HIDE DEF cfg, names
<1>3. IsList(cfg.layers)
  <2>1. DOMAIN cfg.layers = DOMAIN names /\ cfg.layers = [i \in DOMAIN names |-> cfg.layers[i]]
    BY <1>1
  <2> QED BY <1>2, <2>1, ListMap
<1>4. \A l \in ToSet(cfg.layers) : l = DerivedLayer(d, l.name)
  <2>1. \A l \in ToSet(cfg.layers) : \E n : l = DerivedLayer(d, n)
    BY <1>1 DEF ToSet
  <2>2. \A n : DerivedLayer(d, n).name = n
    BY DEF DerivedLayer
  <2> QED BY <2>1, <2>2
<1> QED BY <1>3, <1>4 DEF cfg

\* The cap drawn for a key of a board.
LEMMA CapShown ==
  ASSUME NEW d, Sound(d), NEW b, b # Main, b # <<>>, NEW slots, NEW k \in slots, HasKey(k),
         BoardAt(build(derive(d), slots), b) # 0
  PROVE  build(derive(d), slots)[BoardAt(build(derive(d), slots), b)].caps[k]
           = CapOn(derive(d), DerivedLayer(d, b), k)
<1> DEFINE cfg   == derive(d)
           sheet == build(cfg, slots)
           I     == {i \in 1 .. Len(sheet) : sheet[i].name = b}
           at    == BoardAt(sheet, b)
<1>1. at = IF I # {} THEN Min(I) ELSE 0
  BY DEF BoardAt, SelectInSeq
<1>2. IsList(cfg.layers) /\ \A l \in ToSet(cfg.layers) : l = DerivedLayer(d, l.name)
  BY LayersAre
<1> HIDE DEF cfg, I, at
<1>3. /\ Len(sheet) \in Nat /\ sheet[1].name = <<>>
      /\ \A i \in 2 .. Len(sheet) :
           \E l \in ToSet(cfg.layers) : sheet[i].name = l.name /\ sheet[i].caps[k] = CapOn(cfg, l, k)
  <2> HIDE DEF sheet
  <2>1. IsList(cfg.layers)
    BY <1>2
  <2>2. IsSheet(build(cfg, slots), cfg, k)
    BY <2>1, SheetIs
  <2>3. IsSheet(sheet, cfg, k)
    BY <2>2 DEF sheet
  <2> QED BY <2>3 DEF IsSheet
<1> HIDE DEF sheet
<1>4. at # 0
  BY DEF at, sheet, cfg
<1>5. I # {} /\ at = Min(I)
  BY <1>1, <1>4
<1>6. at \in I
  <2>1. I \in SUBSET Nat
    BY <1>3 DEF I
  <2> QED BY <1>5, <2>1, MinIs
<1>7. at \in 2 .. Len(sheet) /\ sheet[at].name = b
  BY <1>3, <1>6 DEF I
<1>8. sheet[at].caps[k] = CapOn(cfg, DerivedLayer(d, b), k)
  BY <1>2, <1>3, <1>7
<1> QED BY <1>8 DEF at, sheet, cfg

\* The preview of one board and one key.
Previews(d, sheet, b, k) ==
  BoardAt(sheet, b) # 0 /\ LinesOf(d, b, k) <= 1 =>
    IF KeydValue(d, b, <<k>>) # NoVal THEN Tells(sheet[BoardAt(sheet, b)].caps[k], KeydValue(d, b, <<k>>))
    ELSE Len(b) = 1 => {sheet[BoardAt(sheet, b)].caps[k].main.fn, sheet[BoardAt(sheet, b)].caps[k].ghost.fn}
                         \subseteq Unbound

LEMMA LongIsNot ==
  ASSUME NEW b, IsList(b), Len(b) > 1
  PROVE  ~(Len(b) = 1)
<1> DEFINE n == Len(b)
<1>1. n \in Nat
  BY DEF IsList
<1>2. n > 1
  OBVIOUS
<1> HIDE DEF n
<1>3. ~(n = 1)
  BY <1>1, <1>2
<1> QED BY <1>3 DEF n

LEMMA BoardPreviews ==
  ASSUME NEW d, Sound(d), ~NamedMain(d), NEW slots, NEW b, IsList(b), b # <<>>, b # <<"game">>,
         NEW k \in slots, HasKey(k)
  PROVE  Previews(d, build(derive(d), slots), b, k)
<1> DEFINE cfg   == derive(d)
           sheet == build(cfg, slots)
           at    == BoardAt(sheet, b)
           v     == KeydValue(d, b, <<k>>)
           L     == TextsOf(d)
           s     == BoardLines(d, b)
           c     == sheet[at].caps[k]
           l     == DerivedLayer(d, b)
<1>1. s \in Seq(L) /\ \A t \in ToSet(s) : t.val # NoVal
  BY DrawnLines
<1> SUFFICES ASSUME at # 0, LinesOf(d, b, k) <= 1
             PROVE  /\ v # NoVal => Tells(c, v)
                    /\ v = NoVal /\ Len(b) = 1 => {c.main.fn, c.ghost.fn} \subseteq Unbound
  BY DEF Previews
<1>2. Only(s, <<k>>, v)
  <2> DEFINE q == <<k>>
             w == LastWith(s, q)
  <2>1. v = w
    BY DEF KeydValue, LastWith
  <2>2. Cardinality({i \in DOMAIN s : s[i].key = q}) <= 1
    BY DEF LinesOf
  <2> HIDE DEF s, v, q, L
  <2>3. Only(s, q, w)
    BY <1>1, <2>2, OneLine
  <2> QED BY <2>1, <2>3 DEF q
<1>3. CASE b = Main
  <2>1. PICK mods : SortedAs(cfg, s, mods)
    BY <1>3, DrawnLists
  <2>2. at = 1
    BY <1>3 DEF BoardAt
  <2>3. c = BaseCap(cfg, k)
    <3>1. IsList(cfg.layers)
      BY LayersAre
    <3> HIDE DEF cfg, at
    <3>2. IsSheet(build(cfg, slots), cfg, k)
      BY <3>1, SheetIs
    <3>3. sheet[1].caps[k] = BaseCap(cfg, k)
      BY <3>2 DEF IsSheet
    <3> QED BY <2>2, <3>3
  <2> HIDE DEF cfg, s, v, L, c
  <2> QED BY <1>1, <1>2, <2>1, <2>3, BaseTells
<1>4. CASE b # Main
  <2> DEFINE S   == {t \in ToSet(s) : ~is_chord_key(t.key)}
             own == get(l.keys, <<k>>)
  <2>1. c = CapOn(cfg, l, k)
    <3> HIDE DEF at
    <3>1. at # 0
      OBVIOUS
    <3> QED BY <1>4, <3>1, CapShown DEF at
  <2>2. l.keys = Among(s, S) /\ l.name = b
    <3>1. l.name = b
      BY DEF DerivedLayer
    <3> QED BY <1>4, <3>1, DrawnLists
  <2>3. \A t \in ToSet(s) : t.key = <<k>> => t \in S
    <3>1. ~is_chord_key(<<k>>)
      BY OnePartList DEF is_chord_key
    <3> QED BY <3>1
  <2> HIDE DEF S, l, c, cfg, at, sheet, s, v, L
  <2>4. own = v
    <3>1. /\ v = NoVal => own = NoVal
          /\ \A t \in ToSet(s) : t.key = <<k>> /\ t \in S => own = v
      BY <1>1, <1>2, <2>2, GetOnly
    <3>2. v = NoVal \/ \E t \in ToSet(s) : t.key = <<k>>
      BY <1>2 DEF Only
    <3> QED BY <2>3, <3>1, <3>2
  <2>5. ~(l.name = <<"game">>)
    BY <2>2
  <2>6. CASE Len(b) > 1
    <3> SUFFICES ASSUME v # NoVal PROVE Tells(c, v)
      <4>1. ~(Len(b) = 1)
        BY <2>6, LongIsNot
      <4> QED BY <4>1
    <3> DEFINE hs == FlattenSeq([j \in DOMAIN l.name |-> Holder(cfg, l.name[j])])
               o  == OverlayCap(l, k, v, l.name, hs)
    <3>1. c = CompositeCap(cfg, l, k)
      BY <2>1, <2>2, <2>6 DEF CapOn
    <3>2. get(l.keys, <<k>>) # NoVal /\ get(l.keys, <<k>>) = v
      BY <2>4 DEF own
    <3>3. CompositeCap(cfg, l, k) = o
      BY <3>2 DEF CompositeCap
    <3> HIDE DEF hs
    <3>4. TellsOrIdle(o, v, l.name = <<"game">>)
      BY OverlayTells
    <3> HIDE DEF o
    <3>5. TellsOrIdle(c, v, l.name = <<"game">>)
      BY <3>1, <3>3, <3>4
    <3> QED BY <2>5, <3>5 DEF TellsOrIdle
  <2>7. CASE ~(Len(b) > 1)
    <3> DEFINE hs == Holder(cfg, l.name[1])
               o  == OverlayCap(l, k, v, l.name, hs)
    <3>1. c = LayerCap(cfg, l, k)
      BY <2>1, <2>2, <2>7 DEF CapOn
    <3>2. c = o
      BY <2>4, <3>1 DEF LayerCap, own
    <3> HIDE DEF hs
    <3>3. TellsOrIdle(o, v, l.name = <<"game">>)
      BY OverlayTells
    <3> HIDE DEF o
    <3>4. TellsOrIdle(c, v, l.name = <<"game">>)
      BY <3>2, <3>3
    <3> QED BY <2>5, <3>4 DEF TellsOrIdle
  <2> QED BY <2>6, <2>7
<1> QED BY <1>3, <1>4

\* The name of a section is a list that is not empty, and so is a board's.
LEMMA BoardNames ==
  ASSUME NEW d, Sound(d), NEW b \in AllBoards(d)
  PROVE  IsList(b) /\ b # <<>>
<1>1. CASE b = Main
  <2>1. IsList(<<"main">>) /\ <<"main">> # <<>>
    BY OnePartList
  <2> QED BY <1>1, <2>1 DEF Main
<1>2. CASE b # Main
  <2>1. IsDoc(d)
    BY DEF Sound, IsDocument
  <2>2. b \in Defined(d)
    BY <1>2, <2>1, EditableAre DEF AllBoards
  <2> QED BY <2>2 DEF Defined, Sound, Fits, FitsName
<1> QED BY <1>1, <1>2

\* In a document of which this holds, every cap the preview draws tells what
\* keyd has.
LEMMA SheetTells ==
  ASSUME Sound(edit)
  PROVE  PreviewTellsKeyd
<1> DEFINE sheet == build(derive(edit), EditKeys)
<1>1. ASSUME NEW k \in EditKeys PROVE HasKey(k)
  BY SessionAssumption, Zenon DEF HasKey
<1>2. ASSUME ~NamedMain(edit), NEW b \in AllBoards(edit) \ {<<"game">>}, NEW k \in EditKeys
      PROVE  Previews(edit, build(derive(edit), EditKeys), b, k)
  <2>1. IsList(b) /\ b # <<>>
    BY BoardNames
  <2>2. b # <<"game">>
    OBVIOUS
  <2>3. HasKey(k)
    BY <1>1
  <2> QED BY <1>2, <2>1, <2>2, <2>3, BoardPreviews
<1>3. \/ NamedMain(edit)
      \/ \A b \in AllBoards(edit) \ {<<"game">>}, k \in EditKeys :
           Previews(edit, build(derive(edit), EditKeys), b, k)
  BY <1>2
<1> QED BY <1>3 DEF PreviewTellsKeyd, Previews, Unbound

\* The preview tells keyd's bindings, in every state of a session.
THEOREM PreviewHolds == Spec => []PreviewTellsKeyd
BY SheetTells, SessionSound, PTL

-----------------------------------------------------------------------------
(* The value the forms show is the one the editor reads back.              *)

\* The value of a section is that of the last line that has one.
LEMMA ReadsLast ==
  ASSUME NEW s, IsEntries(s.ents), NEW c, NEW p \in DOMAIN s.ents, HasValue(s.ents[p], c),
         \A j \in DOMAIN s.ents : j > p => ~Binds(s.ents[j], c)
  PROVE  get_binding(s, c) = s.ents[p].text.val
<1> DEFINE x == s.ents
           I == {j \in 1 .. Len(x) : HasValue(x[j], c)}
           k == IF I # {} THEN Max(I) ELSE 0
<1>1. Len(x) \in Nat /\ DOMAIN x = 1 .. Len(x)
  BY ListLen DEF IsEntries
<1>2. get_binding(s, c) = IF k = 0 THEN NoVal ELSE x[k].text.val
  BY DEF get_binding, SelectLastInSeq
<1>3. I \in SUBSET (1 .. Len(x)) /\ p \in I /\ \A j \in I : ~(j > p)
  BY <1>1 DEF HasValue
<1> HIDE DEF I, x
<1>4. k \in 0 .. Len(x) /\ (k # 0 => k \in I) /\ \A j \in 1 .. Len(x) : j > k => j \notin I
  BY <1>1, <1>3, LastIn
<1> HIDE DEF k
<1>5. k = p
  BY <1>1, <1>3, <1>4
<1>6. k # 0
  BY <1>1, <1>3, <1>5
<1> QED BY <1>2, <1>5, <1>6 DEF x

LEMMA ReadsNone ==
  ASSUME NEW s, IsEntries(s.ents), NEW c, \A j \in DOMAIN s.ents : ~Binds(s.ents[j], c)
  PROVE  get_binding(s, c) = NoVal
<1> DEFINE x == s.ents
           I == {j \in 1 .. Len(x) : HasValue(x[j], c)}
           k == IF I # {} THEN Max(I) ELSE 0
<1>1. Len(x) \in Nat /\ DOMAIN x = 1 .. Len(x)
  BY ListLen DEF IsEntries
<1>2. get_binding(s, c) = IF k = 0 THEN NoVal ELSE x[k].text.val
  BY DEF get_binding, SelectLastInSeq
<1>3. I = {}
  BY <1>1 DEF HasValue
<1> QED BY <1>2, <1>3

\* The value read back is that of the last section of the board that has one.
LEMMA CurrentIs ==
  ASSUME NEW d, IsDocument(d), NEW b, NEW c
  PROVE  /\ \A i \in DOMAIN d.secs :
              /\ feeds_board(d.secs[i], b) /\ get_binding(d.secs[i], c) # NoVal
              /\ \A j \in DOMAIN d.secs : j > i /\ feeds_board(d.secs[j], b) => get_binding(d.secs[j], c) = NoVal
              => current_binding(d, b, c) = get_binding(d.secs[i], c)
         /\ (\A i \in DOMAIN d.secs : feeds_board(d.secs[i], b) => get_binding(d.secs[i], c) = NoVal)
              => current_binding(d, b, c) = NoVal
<1> DEFINE k == ValuedAt(d, b, c)
<1>1. IsDoc(d) /\ Len(d.secs) \in Nat /\ DOMAIN d.secs = 1 .. Len(d.secs)
  BY DocDomain DEF IsDocument
<1>2. current_binding(d, b, c) = IF k = 0 THEN NoVal ELSE get_binding(d.secs[k], c)
  BY DEF current_binding, ValuedAt
<1>3. /\ k # 0 => k \in DOMAIN d.secs /\ feeds_board(d.secs[k], b) /\ get_binding(d.secs[k], c) # NoVal
      /\ \A j \in DOMAIN d.secs : j > k /\ feeds_board(d.secs[j], b) => get_binding(d.secs[j], c) = NoVal
  BY <1>1, SectionsAt
<1> HIDE DEF k
<1>4. ASSUME NEW i \in DOMAIN d.secs, feeds_board(d.secs[i], b), get_binding(d.secs[i], c) # NoVal,
             \A j \in DOMAIN d.secs : j > i /\ feeds_board(d.secs[j], b) => get_binding(d.secs[j], c) = NoVal
      PROVE  k = i /\ k # 0
  <2>1. ~(i > k) /\ i # 0
    BY <1>1, <1>3, <1>4
  <2>2. k # 0 => ~(k > i)
    BY <1>3, <1>4
  <2>3. k \in 1 .. Len(d.secs) \/ k = 0
    BY <1>1, <1>3
  <2> QED BY <1>1, <1>4, <2>1, <2>2, <2>3
<1> QED BY <1>2, <1>3, <1>4

\* A value that is set is read back, and of one that is cleared none is.
LEMMA ReadsBack ==
  ASSUME NEW d, IsDocument(d), NEW b, NEW c
  PROVE  /\ \A v : HasBoard(d, b) /\ v # NoVal => current_binding(set_layer_binding(d, b, c, v), b, c) = v
         /\ current_binding(clear_binding(d, b, c), b, c) = NoVal
<1>1. ASSUME NEW v, HasBoard(d, b), v # NoVal
      PROVE  current_binding(set_layer_binding(d, b, c, v), b, c) = v
  <2> DEFINE e == set_layer_binding(d, b, c, v)
             text == BindText(c, v)
  <2>1. PICK base, i :
          /\ OnMain(d, base, i) /\ feeds_board(base.secs[i], b)
          /\ e = InSection(base, i, set_or_add_binding(base.secs[i], c, v, file_eol(d)))
          /\ \A j \in DOMAIN base.secs : j > i /\ feeds_board(base.secs[j], b)
                                           => get_binding(base.secs[j], c) = NoVal
    BY <1>1, BindingWhere
  <2> DEFINE s == base.secs[i]
             t == set_or_add_binding(s, c, v, file_eol(d))
             y == [base.secs EXCEPT ![i] = t]
  <2>2. text.k = "bind" /\ text.key = c /\ text.val = v
    BY DEF BindText
  <2> HIDE DEF text
  <2>3. IsDocument(base) /\ IsDoc(base) /\ i \in DOMAIN base.secs /\ IsSection(s) /\ IsEntries(s.ents)
    BY <2>1 DEF OnMain, Target, IsDocument
  <2>4. e = [base EXCEPT !.secs = y]
    BY <2>1 DEF InSection
  <2> HIDE DEF t, e
  <2>5. PICK p : /\ SameHead(s, t) /\ Puts(s.ents, t.ents, p, text)
                 /\ \A j \in DOMAIN t.ents : j > p => ~Binds(t.ents[j], c)
    <3> HIDE DEF s
    <3> QED BY <2>3, SetLast DEF t, text
  <2>6. DOMAIN y = DOMAIN base.secs /\ y[i] = t /\ \A j \in DOMAIN base.secs : j # i => y[j] = base.secs[j]
    BY <2>3
  <2>7. feeds_board(t, b)
    BY <2>1, <2>5 DEF SameHead, feeds_board, is_board
  <2> HIDE DEF y, s
  <2>8. e.secs = y
    BY <2>3, <2>4, DocExcept
  <2>9. IsEntries(t.ents) /\ p \in DOMAIN t.ents /\ t.ents[p].text = text
    <3>1. Len(s.ents) \in Nat /\ DOMAIN s.ents = 1 .. Len(s.ents)
      BY <2>3, ListLen DEF IsEntries
    <3>2. IsEntries(t.ents) => Len(t.ents) \in Nat /\ DOMAIN t.ents = 1 .. Len(t.ents)
      BY ListLen DEF IsEntries
    <3> QED BY <2>5, <3>1, <3>2 DEF Puts, Replaced, Inserted
  <2>10. HasValue(t.ents[p], c)
    BY <1>1, <2>2, <2>9 DEF HasValue, Binds
  <2>11. get_binding(t, c) = v
    BY <2>2, <2>5, <2>9, <2>10, ReadsLast
  <2>12. IsDocument(e)
    <3>1. SameHeads(base, e)
      <4>1. e = InSection(base, i, t)
        BY <2>1 DEF t, s
      <4> QED BY <2>3, <2>5, <4>1, InSectionKeeps DEF s
    <3>2. IsDoc(e)
      BY <3>1 DEF SameHeads
    <3>3. \A j \in DOMAIN e.secs : IsEntries(e.secs[j].ents)
      BY <2>3, <2>6, <2>8, <2>9 DEF IsDocument
    <3> QED BY <3>2, <3>3 DEF IsDocument
  <2>13. /\ i \in DOMAIN e.secs /\ feeds_board(e.secs[i], b) /\ get_binding(e.secs[i], c) = v
         /\ \A j \in DOMAIN e.secs : j > i /\ feeds_board(e.secs[j], b) => get_binding(e.secs[j], c) = NoVal
    <3>1. Len(base.secs) \in Nat /\ DOMAIN base.secs = 1 .. Len(base.secs)
      BY <2>3, DocDomain
    <3> QED BY <2>1, <2>3, <2>6, <2>7, <2>8, <2>11, <3>1
  <2>14. current_binding(e, b, c) = v
    BY <1>1, <2>12, <2>13, CurrentIs
  <2> QED BY <2>14 DEF e
<1>2. current_binding(clear_binding(d, b, c), b, c) = NoVal
  <2> DEFINE e == clear_binding(d, b, c)
  <2>1. IsDocument(e) /\ SameHeads(d, e) /\ DOMAIN e.secs = DOMAIN d.secs
    BY ClearedSections
  <2>2. \A i \in DOMAIN d.secs : e.secs[i] = IF feeds_board(d.secs[i], b) THEN remove_binding(d.secs[i], c) ELSE d.secs[i]
    BY ClearedSections
  <2> HIDE DEF e
  <2>3. ASSUME NEW i \in DOMAIN e.secs, feeds_board(e.secs[i], b)
        PROVE  get_binding(e.secs[i], c) = NoVal
    <3>1. IsSection(d.secs[i]) /\ IsEntries(d.secs[i].ents) /\ SameHead(d.secs[i], e.secs[i])
      BY <2>1, <2>3 DEF IsDocument, IsDoc, SameHeads
    <3>2. feeds_board(d.secs[i], b)
      BY <2>3, <3>1 DEF SameHead, feeds_board, is_board
    <3>3. e.secs[i] = remove_binding(d.secs[i], c)
      BY <2>1, <2>2, <2>3, <3>2
    <3>4. IsEntries(e.secs[i].ents) /\ \A j \in DOMAIN e.secs[i].ents : ~Binds(e.secs[i].ents[j], c)
      BY <3>1, <3>3, DropIs
    <3> QED BY <3>4, ReadsNone
  <2>4. current_binding(e, b, c) = NoVal
    BY <2>1, <2>3, CurrentIs
  <2> QED BY <2>4 DEF e
<1> QED BY <1>1, <1>2

-----------------------------------------------------------------------------
(* The forms show the key.                                                 *)

IsForm(s) == s = [binding |-> s.binding, label |-> s.label, macro |-> s.macro,
                  tapHold |-> s.tapHold, layerAction |-> s.layerAction]

\* What form s, of a draft for f, shows of key k of board b.
Shows(s, f, d, b, k) ==
  /\ s.binding = current_binding(d, b, <<k>>)
  /\ s.label = current_label(d, b, <<k>>)
  /\ s.macro = current_macro(d, b, k).ok
  /\ f = <<b, k>>

\* No key is selected while the forms of chords or of options are up.
FormsInv ==
  /\ IsForm(shown)
  /\ chordMode \/ globalForm => phys = ""
  /\ phys # "" => Shows(shown, draftOf, edit, layer, phys)

LEMMA FormOf ==
  ASSUME NEW a, NEW b, NEW c, NEW d, NEW e
  PROVE  LET s == [binding |-> a, label |-> b, macro |-> c, tapHold |-> d, layerAction |-> e]
         IN  IsForm(s) /\ s.binding = a /\ s.label = b /\ s.macro = c
BY DEF IsForm

LEMMA FormSet ==
  ASSUME NEW s, IsForm(s), NEW x
  PROVE  /\ [s EXCEPT !.label = x] = [binding |-> s.binding, label |-> x, macro |-> s.macro,
                                      tapHold |-> s.tapHold, layerAction |-> s.layerAction]
         /\ [s EXCEPT !.binding = x] = [binding |-> x, label |-> s.label, macro |-> s.macro,
                                        tapHold |-> s.tapHold, layerAction |-> s.layerAction]
         /\ [s EXCEPT !.macro = x] = [binding |-> s.binding, label |-> s.label, macro |-> x,
                                      tapHold |-> s.tapHold, layerAction |-> s.layerAction]
<1> DEFINE a == s.binding
           b == s.label
           c == s.macro
           d == s.tapHold
           e == s.layerAction
           r == [binding |-> a, label |-> b, macro |-> c, tapHold |-> d, layerAction |-> e]
<1>1. s = r
  BY DEF IsForm
<1>2. /\ [r EXCEPT !.label = x] = [binding |-> a, label |-> x, macro |-> c, tapHold |-> d, layerAction |-> e]
      /\ [r EXCEPT !.binding = x] = [binding |-> x, label |-> b, macro |-> c, tapHold |-> d, layerAction |-> e]
      /\ [r EXCEPT !.macro = x] = [binding |-> a, label |-> b, macro |-> x, tapHold |-> d, layerAction |-> e]
  <2> HIDE DEF a, b, c, d, e
  <2> QED OBVIOUS
<1> HIDE DEF r
<1> QED BY <1>1, <1>2

\* A field of what the forms show replaced.
LEMMA FormExcept ==
  ASSUME NEW s, IsForm(s), NEW x
  PROVE  LET l == [s EXCEPT !.label = x]
             v == [s EXCEPT !.binding = x]
             m == [s EXCEPT !.macro = x]
         IN  /\ IsForm(l) /\ l.label = x /\ l.binding = s.binding /\ l.macro = s.macro
             /\ IsForm(v) /\ v.label = s.label /\ v.binding = x /\ v.macro = s.macro
             /\ IsForm(m) /\ m.label = s.label /\ m.binding = s.binding /\ m.macro = x
<1> DEFINE l == [s EXCEPT !.label = x]
           v == [s EXCEPT !.binding = x]
           m == [s EXCEPT !.macro = x]
<1>1. l = [binding |-> s.binding, label |-> x, macro |-> s.macro,
           tapHold |-> s.tapHold, layerAction |-> s.layerAction]
  BY FormSet
<1>2. v = [binding |-> x, label |-> s.label, macro |-> s.macro,
           tapHold |-> s.tapHold, layerAction |-> s.layerAction]
  BY FormSet
<1>3. m = [binding |-> s.binding, label |-> s.label, macro |-> x,
           tapHold |-> s.tapHold, layerAction |-> s.layerAction]
  BY FormSet
<1> HIDE DEF l, v, m
<1>4. IsForm(l) /\ l.label = x /\ l.binding = s.binding /\ l.macro = s.macro
  BY <1>1, FormOf
<1>5. IsForm(v) /\ v.label = s.label /\ v.binding = x /\ v.macro = s.macro
  BY <1>2, FormOf
<1>6. IsForm(m) /\ m.label = s.label /\ m.binding = s.binding /\ m.macro = x
  BY <1>3, FormOf
<1> QED BY <1>4, <1>5, <1>6 DEF l, v, m

\* What a selection seeds the forms with.
LEMMA SeedIs ==
  ASSUME NEW d, NEW b, NEW k
  PROVE  /\ IsForm(Seed(d, b, k)) /\ Shows(Seed(d, b, k), <<b, k>>, d, b, k)
         /\ IsForm(NotShown)
BY FormOf DEF Seed, Shows, NotShown

\* Nothing is selected.
LEMMA Unselected ==
  ASSUME Deselected
  PROVE  FormsInv'
BY SeedIs DEF Deselected, FormsInv

\* The callbacks that edit nothing, and those of the layers.
LEMMA SelectingForms ==
  ASSUME FormsInv, FocusNext
  PROVE  FormsInv'
<1>1. ASSUME NEW k \in EditKeys, SelectKey(k) PROVE FormsInv'
  <2>1. CASE phys = k
    BY <1>1, <2>1, Unselected DEF SelectKey
  <2>2. CASE phys # k
    <3>1. /\ layer' = layer /\ chordMode' = FALSE /\ globalForm' = FALSE /\ ~chordMode /\ ~globalForm
          /\ phys' = k /\ shown' = Seed(edit', layer, k) /\ draftOf' = <<layer, k>>
      BY <1>1, <2>2 DEF SelectKey, SeedForms, SeedMacro, mode
    <3> QED BY <3>1, SeedIs DEF FormsInv
  <2> QED BY <2>1, <2>2
<1>2. ASSUME NEW i \in DOMAIN lists.layers, PickEditLayer(lists.layers[i]) PROVE FormsInv'
  <2> DEFINE b == lists.layers[i]
  <2>1. /\ layer' = b /\ phys' = phys /\ chordMode' = chordMode /\ globalForm' = FALSE
        /\ IF phys # "" THEN shown' = Seed(edit', b, phys) /\ draftOf' = <<b, phys>>
                        ELSE shown' = shown
    BY <1>2 DEF PickEditLayer, SeedForms, SeedMacro, form
  <2> HIDE DEF b
  <2> QED BY <2>1, SeedIs DEF FormsInv
<1>3. ASSUME SetBoardMode PROVE FormsInv'
  BY <1>3, Unselected DEF SetBoardMode
<1>4. ASSUME EditGlobal PROVE FormsInv'
  <2>1. CASE globalForm
    <3>1. phys' = phys /\ phys = "" /\ shown' = shown
      BY <1>4, <2>1 DEF EditGlobal, FormsInv, form
    <3> QED BY <3>1 DEF FormsInv
  <2>2. CASE ~globalForm
    BY <1>4, <2>2, Unselected DEF EditGlobal
  <2> QED BY <2>1, <2>2
<1> QED BY <1>1, <1>2, <1>3, <1>4 DEF FocusNext

LEMMA StillForms ==
  ASSUME FormsInv, UNCHANGED <<edit, layer, phys, mode, shown, draftOf>>
  PROVE  FormsInv'
<1>1. /\ edit' = edit /\ layer' = layer /\ phys' = phys /\ chordMode' = chordMode
      /\ globalForm' = globalForm /\ shown' = shown /\ draftOf' = draftOf
  BY DEF mode
<1> QED BY <1>1 DEF FormsInv

LEMMA LayersForm ==
  ASSUME FormsInv, LayerNext
  PROVE  FormsInv'
<1>1. ASSUME NEW b, Refocus(b) PROVE FormsInv'
  BY <1>1, Unselected DEF Refocus
<1>2. ASSUME AskDelete \/ CancelDelete PROVE FormsInv'
  BY <1>2, StillForms DEF AskDelete, CancelDelete, vars, form
<1>3. ASSUME NEW n \in NewNames, CreateLayer(n) \/ Rename(n) PROVE FormsInv'
  BY <1>1, <1>3 DEF CreateLayer, Rename
<1>4. ASSUME ConfirmDelete PROVE FormsInv'
  BY <1>1, <1>4 DEF ConfirmDelete
<1> QED BY <1>2, <1>3, <1>4 DEF LayerNext

\* The chords and the options, while no key is selected.
LEMMA ChordsForm ==
  ASSUME FormsInv, ChordNext
  PROVE  FormsInv'
<1>1. ASSUME phys = "", UNCHANGED <<phys, shown>> PROVE FormsInv'
  BY <1>1 DEF FormsInv
<1>2. ASSUME ChordForm \/ globalForm PROVE phys = ""
  BY <1>2 DEF ChordForm, FormsInv
<1>3. ASSUME NEW k \in Members, ToggleMember(k) PROVE FormsInv'
  BY <1>1, <1>2, <1>3 DEF ToggleMember, Build, form
<1>4. ASSUME NEW i \in DOMAIN lists.chords, EditChord(lists.chords[i]) \/ RemoveChordRow(lists.chords[i])
      PROVE  FormsInv'
  BY <1>1, <1>2, <1>4 DEF EditChord, RemoveChordRow, Build, ChordsCommitted, form
<1>5. ASSUME ClearKeys PROVE FormsInv'
  BY <1>1, <1>2, <1>5 DEF ClearKeys, Build, form
<1>6. ASSUME NEW v \in Values, AddChord(v) PROVE FormsInv'
  BY <1>1, <1>2, <1>6 DEF AddChord, ChordsCommitted, form
<1>7. ASSUME NEW o \in Options, NEW v \in Values, SetOption(o, v) PROVE FormsInv'
  BY <1>1, <1>2, <1>7 DEF SetOption, OptionCommitted, form
<1>8. ASSUME NEW o \in Options, ClearOption(o) PROVE FormsInv'
  BY <1>1, <1>2, <1>8 DEF ClearOption, OptionCommitted, form
<1> QED BY <1>3, <1>4, <1>5, <1>6, <1>7, <1>8 DEF ChordNext

\* The key's own callbacks: those that give it a value leave its label.
LEMMA KeysForm ==
  ASSUME ScreenInv, FormsInv, KeyNext
  PROVE  FormsInv'
<1>0. IsDocument(edit) /\ IsForm(shown)
  BY DEF ScreenInv, Sound, FormsInv
<1>1. ASSUME NEW v, edit' \in {set_layer_binding(edit, layer, <<phys>>, v), clear_binding(edit, layer, <<phys>>)}
      PROVE  \A b, c : current_label(edit', b, c) = current_label(edit, b, c)
  <2> DEFINE x == <<phys>>
  <2>1. edit' \in {set_layer_binding(edit, layer, x, v), clear_binding(edit, layer, x)}
    BY <1>1
  <2> HIDE DEF x
  <2> QED BY <1>0, <2>1, ValueKeepsLabel
<1>2. ASSUME KeyForm, NEW v,
             edit' \in {set_layer_binding(edit, layer, <<phys>>, v), clear_binding(edit, layer, <<phys>>)}
      PROVE  shown.label = current_label(edit', layer, <<phys>>)
  <2>1. shown.label = current_label(edit, layer, <<phys>>)
    BY <1>2 DEF KeyForm, FormsInv, Shows
  <2>2. \A b, c : current_label(edit', b, c) = current_label(edit, b, c)
    BY <1>1, <1>2
  <2> QED BY <2>1, <2>2
<1>3. ASSUME KeyForm, NEW z, Reseeded(z), z = current_binding(edit', layer, <<phys>>), NEW v,
             edit' \in {set_layer_binding(edit, layer, <<phys>>, v), clear_binding(edit, layer, <<phys>>)}
      PROVE  FormsInv'
  <2> DEFINE s == Seed(edit', layer, phys)
             x == shown.label
             u == [s EXCEPT !.label = x]
             l == [u EXCEPT !.binding = z]
  <2>1. x = current_label(edit', layer, <<phys>>)
    BY <1>2, <1>3
  <2>2. IsForm(s) /\ Shows(s, <<layer, phys>>, edit', layer, phys)
    BY SeedIs
  <2>3. /\ shown' = l /\ draftOf' = <<layer, phys>> /\ layer' = layer /\ phys' = phys
        /\ chordMode' = chordMode /\ globalForm' = globalForm /\ ~chordMode /\ ~globalForm
    BY <1>3 DEF Reseeded, SeedMacro, Rest, KeyForm, mode
  <2> HIDE DEF s, x
  <2>4. IsForm(u) /\ u.label = x /\ u.binding = s.binding /\ u.macro = s.macro
    BY <2>2, FormExcept
  <2> HIDE DEF u
  <2>5. IsForm(u)
    BY <2>4
  <2>6. IsForm(l) /\ l.label = u.label /\ l.binding = z /\ l.macro = u.macro
    BY <2>5, FormExcept
  <2> HIDE DEF l
  <2> QED BY <1>3, <2>1, <2>2, <2>3, <2>4, <2>6 DEF FormsInv, Shows
<1>4. ASSUME KeyForm, Relabelled, NEW t,
             edit' \in {set_label(edit, layer, <<phys>>, t), clear_label(edit, layer, <<phys>>)}
      PROVE  FormsInv'
  <2> DEFINE z == <<phys>>
             x == current_label(edit', layer, z)
             l == [shown EXCEPT !.label = x]
  <2>1. edit' \in {set_label(edit, layer, z, t), clear_label(edit, layer, z)}
    BY <1>4
  <2>2. /\ shown' = l /\ draftOf' = draftOf /\ layer' = layer /\ phys' = phys /\ phys # ""
        /\ chordMode' = chordMode /\ globalForm' = globalForm /\ ~chordMode /\ ~globalForm
    BY <1>4 DEF Relabelled, Rest, KeyForm, mode
  <2>3. /\ shown.binding = current_binding(edit, layer, z) /\ draftOf = <<layer, phys>>
        /\ shown.macro = ParseMacro(current_binding(edit, layer, z)).ok
    BY <2>2 DEF FormsInv, Shows, current_macro
  <2> HIDE DEF z
  <2>4. current_binding(edit', layer, z) = current_binding(edit, layer, z)
    BY <1>0, <2>1, LabelKeepsValue
  <2> HIDE DEF x
  <2>5. IsForm(l) /\ l.label = x /\ l.binding = shown.binding /\ l.macro = shown.macro
    BY <1>0, FormExcept
  <2> HIDE DEF l
  <2>6. Shows(shown', draftOf', edit', layer', phys')
    BY <2>2, <2>3, <2>4, <2>5 DEF Shows, current_macro, x, z
  <2> QED BY <2>2, <2>5, <2>6 DEF FormsInv
<1>5. ASSUME NEW v \in Values, ApplyBinding(v) PROVE FormsInv'
  <2> DEFINE c == <<phys>>
  <2>1. KeyForm /\ Reseeded(v) /\ HasBoard(edit, layer) /\ edit' = set_layer_binding(edit, layer, c, v)
    BY <1>5 DEF ApplyBinding, SetBinding, Mutates
  <2>2. v # NoVal
    BY ValueTyped
  <2> HIDE DEF c
  <2>3. current_binding(set_layer_binding(edit, layer, c, v), layer, c) = v
    <3>1. \A w : HasBoard(edit, layer) /\ w # NoVal
                   => current_binding(set_layer_binding(edit, layer, c, w), layer, c) = w
      BY <1>0, ReadsBack
    <3> QED BY <2>1, <2>2, <3>1
  <2>4. v = current_binding(edit', layer, c)
    BY <2>1, <2>3
  <2> QED BY <1>3, <2>1, <2>4 DEF c
<1>6. ASSUME MakeTransparent PROVE FormsInv'
  <2>1. KeyForm /\ Reseeded(NoVal) /\ edit' = clear_binding(edit, layer, <<phys>>)
    BY <1>6 DEF MakeTransparent, ClearBinding, Mutates
  <2>2. NoVal = current_binding(edit', layer, <<phys>>)
    BY <1>0, <2>1, ReadsBack
  <2> QED BY <1>3, <2>1, <2>2
<1>7. ASSUME NEW n \in HoldTargets, NEW tap \in Taps, NEW f \in Feels, ApplyTapHold(n, tap, f)
      PROVE  FormsInv'
  <2> DEFINE v == TapHoldValue(ComposeTapHold(current_tap_hold(edit, layer, phys), n, tap, f))
             z == current_binding(edit', layer, <<phys>>)
  <2>1. KeyForm /\ Reseeded(z) /\ edit' = set_layer_binding(edit, layer, <<phys>>, v)
    BY <1>7 DEF ApplyTapHold, ReadBack, SetTapHold, Mutates
  <2> HIDE DEF v
  <2> QED BY <1>3, <2>1
<1>8. ASSUME NEW kind \in Kinds, NEW n \in Targets, ApplyLayerAction(kind, n) PROVE FormsInv'
  <2> DEFINE v == Call(kind, <<Atom(n)>>)
             z == current_binding(edit', layer, <<phys>>)
  <2>1. KeyForm /\ Reseeded(z) /\ edit' = set_layer_binding(edit, layer, <<phys>>, v)
    BY <1>8 DEF ApplyLayerAction, ReadBack, SetLayerAction, Mutates
  <2> HIDE DEF v
  <2> QED BY <1>3, <2>1
<1>9. ASSUME NEW t \in LabelTexts, LabelKey(t) PROVE FormsInv'
  BY <1>4, <1>9 DEF LabelKey, SetLabel, Mutates
<1>10. ASSUME UnlabelKey PROVE FormsInv'
  BY <1>4, <1>10 DEF UnlabelKey, ClearLabel, Mutates
<1>11. ASSUME NEW t \in StepsTyped, MacroAdd(t) PROVE FormsInv'
  BY <1>11, StillForms DEF MacroAdd, vars
<1>12. ASSUME NEW i \in DOMAIN draft, MacroRemove(i) \/ MacroMove(i) PROVE FormsInv'
  BY <1>12, StillForms DEF MacroRemove, MacroMove, vars
<1>13. ASSUME NEW r \in Repeats, ApplyMacro(r) PROVE FormsInv'
  <2> DEFINE v == MacroValue(draft, r)
             x == current_binding(edit', layer, <<phys>>)
             y == current_macro(edit', layer, phys).ok
             u == [shown EXCEPT !.binding = x]
             l == [u EXCEPT !.macro = y]
  <2>1. /\ KeyForm /\ edit' = set_layer_binding(edit, layer, <<phys>>, v)
        /\ shown' = l /\ draftOf' = <<layer, phys>> /\ layer' = layer /\ phys' = phys
        /\ chordMode' = chordMode /\ globalForm' = globalForm /\ ~chordMode /\ ~globalForm
    BY <1>13 DEF ApplyMacro, SetMacro, Mutates, SeedMacro, Rest, KeyForm, mode
  <2> HIDE DEF v
  <2>2. shown.label = current_label(edit', layer, <<phys>>)
    BY <1>2, <2>1
  <2> HIDE DEF x, y
  <2>21. IsForm(u) /\ u.label = shown.label /\ u.binding = x
    BY <1>0, FormExcept
  <2> HIDE DEF u
  <2>22. l = [binding |-> u.binding, label |-> u.label, macro |-> y,
              tapHold |-> u.tapHold, layerAction |-> u.layerAction]
    BY <2>21, FormSet
  <2> HIDE DEF l
  <2>3. IsForm(l) /\ l.label = shown.label /\ l.binding = x /\ l.macro = y
    BY <2>21, <2>22, FormOf
  <2>4. Shows(shown', draftOf', edit', layer', phys')
    BY <2>1, <2>2, <2>3 DEF Shows, x, y
  <2> QED BY <2>1, <2>3, <2>4 DEF FormsInv
<1> QED BY <1>5, <1>6, <1>7, <1>8, <1>9, <1>10, <1>11, <1>12, <1>13 DEF KeyNext

\* Whatever was edited, on this board or through another, the forms show the value, the label and
\* the kind the selected key has now, though of the value's callbacks none reseeds the label and the
\* label's none of the others, and the macro under construction is for the selected key.
THEOREM FormsHold == PanelSpec => []FormsShowTheKey
<1> DEFINE BothInv == ScreenInv /\ FormsInv
<1>1. EnterInit => BothInv
  <2>1. EnterInit => FormsInv
    BY SeedIs DEF EnterInit, FormsInv
  <2> QED BY <2>1, ScreenInit
<1>2. BothInv /\ [EditNext]_<<vars, panel>> => BothInv'
  <2> SUFFICES ASSUME BothInv, [EditNext]_<<vars, panel>> PROVE BothInv'
    OBVIOUS
  <2>1. ScreenInv'
    BY ScreenStep
  <2>2. CASE EditNext
    <3>1. FormsInv'
      BY <2>2, SelectingForms, LayersForm, KeysForm, ChordsForm DEF EditNext
    <3> QED BY <2>1, <3>1
  <2>3. CASE UNCHANGED <<vars, panel>>
    <3>1. FormsInv'
      BY <2>3, StillForms DEF vars, panel, form
    <3> QED BY <2>1, <3>1
  <2> QED BY <2>2, <2>3
<1>3. BothInv => FormsShowTheKey
  <2> SUFFICES ASSUME FormsInv PROVE FormsShowTheKey
    OBVIOUS
  <2>1. \A d, b, k : /\ Seed(d, b, k).binding = current_binding(d, b, <<k>>)
                     /\ Seed(d, b, k).label = current_label(d, b, <<k>>)
                     /\ Seed(d, b, k).macro = current_macro(d, b, k).ok
    BY SeedIs DEF Shows
  <2> QED BY <2>1 DEF FormsInv, FormsShowTheKey, Shows
<1> QED BY <1>1, <1>2, <1>3, PTL DEF PanelSpec

=============================================================================
