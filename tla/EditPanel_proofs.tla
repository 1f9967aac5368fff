-------------------------- MODULE EditPanel_proofs --------------------------
(***************************************************************************)
(* The edit panel, for every file it may open on, every key, value and     *)
(* label, and every length of session: its focus is real (FocusIsReal)     *)
(* and what is on screen follows the document (ScreenFollows).             *)
(*                                                                         *)
(* What each operation of the editor does to the heads of the sections is  *)
(* a lemma: those on keys, chords and options keep them and make at most   *)
(* one section, and a layer that is added, renamed or removed is there, or *)
(* is no longer there, afterwards.  For the lists and the warnings, which  *)
(* are selections of the document's lines, the lemmas say which lines each *)
(* operation leaves: a label edit the bindings, a binding the labels, an   *)
(* option edit the boards, a layer edit the options.  Without them no list *)
(* could be left as it was by an edit of what another shows, nor a form    *)
(* (FormsHold in EditSession_proofs).                                      *)
(***************************************************************************)
EXTENDS EditPanel, LayerStack_proofs

-----------------------------------------------------------------------------
(* Sections, and what the operations on one section keep of it.            *)

\* A section of a document, as far as these proofs look at it.
IsSection(s) ==
  /\ s = [name |-> s.name, kind |-> s.kind, head |-> s.head, ents |-> s.ents, dirty |-> s.dirty]
  /\ IsName(s.name)
IsDoc(d) ==
  /\ d = [pre |-> d.pre, secs |-> d.secs, dirty |-> d.dirty]
  /\ IsList(d.secs) /\ \A i \in DOMAIN d.secs : IsSection(d.secs[i])

\* t heads the same lines as s.
SameHead(s, t) == IsSection(t) /\ t.name = s.name /\ t.kind = s.kind

\* A field of a section changed.
LEMMA SectionExcept ==
  ASSUME NEW s, IsSection(s), NEW x
  PROVE  /\ SameHead(s, [s EXCEPT !.ents = x]) /\ [s EXCEPT !.ents = x].ents = x
         /\ [s EXCEPT !.ents = x].head = s.head /\ [s EXCEPT !.ents = x].dirty = s.dirty
         /\ SameHead(s, [s EXCEPT !.head = x]) /\ [s EXCEPT !.head = x].ents = s.ents
         /\ [s EXCEPT !.head = x].head = x /\ [s EXCEPT !.head = x].dirty = s.dirty
         /\ SameHead(s, [s EXCEPT !.dirty = x]) /\ [s EXCEPT !.dirty = x].ents = s.ents
         /\ [s EXCEPT !.dirty = x].head = s.head
<1> DEFINE n == s.name
           k == s.kind
           h == s.head
           e == s.ents
           y == s.dirty
           r == [name |-> n, kind |-> k, head |-> h, ents |-> e, dirty |-> y]
<1>1. s = r /\ IsName(n)
  BY DEF IsSection
<1>2. /\ [r EXCEPT !.ents = x] = [name |-> n, kind |-> k, head |-> h, ents |-> x, dirty |-> y]
      /\ [r EXCEPT !.head = x] = [name |-> n, kind |-> k, head |-> x, ents |-> e, dirty |-> y]
      /\ [r EXCEPT !.dirty = x] = [name |-> n, kind |-> k, head |-> h, ents |-> e, dirty |-> x]
  <2> HIDE DEF n, k, h, e, y
  <2> QED OBVIOUS
<1> DEFINE a == [s EXCEPT !.ents = x]
           b == [s EXCEPT !.head = x]
           c == [s EXCEPT !.dirty = x]
<1>3. /\ a = [name |-> n, kind |-> k, head |-> h, ents |-> x, dirty |-> y]
      /\ b = [name |-> n, kind |-> k, head |-> x, ents |-> e, dirty |-> y]
      /\ c = [name |-> n, kind |-> k, head |-> h, ents |-> e, dirty |-> x]
  <2> HIDE DEF n, k, h, e, y
  <2> QED BY <1>1, <1>2
<1> HIDE DEF a, b, c
<1>4. /\ SameHead(s, a) /\ a.ents = x /\ a.head = h /\ a.dirty = y
      /\ SameHead(s, b) /\ b.ents = e /\ b.head = x /\ b.dirty = y
      /\ SameHead(s, c) /\ c.ents = e /\ c.head = h
  <2> HIDE DEF r
  <2> QED BY <1>1, <1>3 DEF SameHead, IsSection
<1> QED BY <1>4 DEF a, b, c

LEMMA SameHeadTrans ==
  ASSUME NEW s, NEW t, NEW u, SameHead(s, t), SameHead(t, u)
  PROVE  SameHead(s, u)
  BY DEF SameHead

\* The operations on one section keep its head.
LEMMA PushKeepsHead ==
  ASSUME NEW s, IsSection(s), NEW text, NEW style
  PROVE  SameHead(s, PushLine(s, text, style))
<1>1. SameHead(s, s)
  BY DEF SameHead
<1>2. ASSUME NEW eol PROVE SameHead(s, WithEndEol(s, eol))
  BY SectionExcept DEF WithEndEol
<1> DEFINE at   == 1 + SelectLastInSeq(s.ents, NotBlank)
           open == at = Len(s.ents) + 1 /\ EndEol(s) = "none"
           base == IF open THEN WithEndEol(s, style) ELSE s
           new  == [text |-> text, eol |-> IF open THEN "none" ELSE style,
                    dirty |-> text.k = "bind"]
<1>3. SameHead(s, base)
  BY <1>1, <1>2
<1>4. PushLine(s, text, style) = [base EXCEPT !.ents = InsertAt(base.ents, at, new)]
  BY DEF PushLine
<1> HIDE DEF base, at, open, new
<1>5. SameHead(base, [base EXCEPT !.ents = InsertAt(base.ents, at, new)])
  <2>1. IsSection(base)
    BY <1>3 DEF SameHead
  <2> DEFINE x == InsertAt(base.ents, at, new)
  <2> HIDE DEF x
  <2>2. SameHead(base, [base EXCEPT !.ents = x])
    BY <2>1, SectionExcept
  <2> QED BY <2>2 DEF x
<1> QED BY <1>3, <1>4, <1>5, SameHeadTrans

LEMMA SetKeepsHead ==
  ASSUME NEW s, IsSection(s), NEW c, NEW v, NEW style
  PROVE  SameHead(s, set_or_add_binding(s, c, v, style))
<1>1. ASSUME NEW i, NEW text PROVE SameHead(s, SetLine(s, i, text))
  <2> DEFINE x == [s.ents EXCEPT ![i].text = text]
             t == [s EXCEPT !.ents = x]
             y == [t.ents EXCEPT ![i].dirty = TRUE]
  <2>1. SetLine(s, i, text) = [t EXCEPT !.ents = y]
    BY DEF SetLine
  <2> HIDE DEF x, y
  <2>2. SameHead(s, t)
    BY SectionExcept
  <2>3. SameHead(t, [t EXCEPT !.ents = y])
    <3> HIDE DEF t
    <3> QED BY <2>2, SectionExcept DEF SameHead
  <2> HIDE DEF t
  <2> QED BY <2>1, <2>2, <2>3, SameHeadTrans
<1> QED BY <1>1, PushKeepsHead DEF set_or_add_binding

LEMMA EntsAndDirty ==
  ASSUME NEW s, IsSection(s), NEW x, NEW y
  PROVE  LET t == [s EXCEPT !.ents = x, !.dirty = y]
         IN  SameHead(s, t) /\ t.ents = x /\ t.head = s.head
<1> DEFINE t == [s EXCEPT !.ents = x]
           u == [t EXCEPT !.dirty = y]
<1>1. SameHead(s, t) /\ t.ents = x /\ t.head = s.head
  BY SectionExcept
<1>2. [s EXCEPT !.ents = x, !.dirty = y] = u
  OBVIOUS
<1>3. SameHead(t, u) /\ u.ents = t.ents /\ u.head = t.head
  <2> HIDE DEF t
  <2> QED BY <1>1, SectionExcept DEF SameHead
<1> HIDE DEF t, u
<1>4. SameHead(s, u) /\ u.ents = x /\ u.head = s.head
  BY <1>1, <1>3, SameHeadTrans
<1> QED BY <1>2, <1>4

LEMMA DropKeepsHead ==
  ASSUME NEW s, IsSection(s), NEW c
  PROVE  /\ SameHead(s, remove_binding(s, c))
         /\ SameHead(s, SectionClearLabel(s, c))
  BY EntsAndDirty DEF remove_binding, SectionClearLabel, DropLines

LEMMA LabelKeepsHead ==
  ASSUME NEW s, IsSection(s), NEW c, NEW t, NEW style
  PROVE  SameHead(s, SectionSetLabel(s, c, t, style))
<1> DEFINE text == LabelText(c, t)
           i    == label_index(s, c)
           at   == BindingAt(s, c)
           u    == IF i # 0 THEN [s EXCEPT !.ents[i].text = text]
                   ELSE IF at # 0
                   THEN [s EXCEPT !.ents = InsertAt(@, at, Entry(text, s.ents[at].eol))]
                   ELSE PushLine(s, text, style)
<1>1. SameHead(s, u)
  <2>1. SameHead(s, [s EXCEPT !.ents[i].text = text])
    BY SectionExcept
  <2>2. SameHead(s, [s EXCEPT !.ents = InsertAt(@, at, Entry(text, s.ents[at].eol))])
    BY SectionExcept
  <2>3. SameHead(s, PushLine(s, text, style))
    BY PushKeepsHead
  <2> QED BY <2>1, <2>2, <2>3
<1>2. SectionSetLabel(s, c, t, style) = s \/ SectionSetLabel(s, c, t, style) = [u EXCEPT !.dirty = TRUE]
  BY DEF SectionSetLabel
<1> HIDE DEF u
<1>3. SameHead(u, [u EXCEPT !.dirty = TRUE])
  BY <1>1, SectionExcept DEF SameHead
<1>4. SameHead(s, [u EXCEPT !.dirty = TRUE])
  BY <1>1, <1>3, SameHeadTrans
<1>5. SameHead(s, s)
  BY DEF SameHead
<1> QED BY <1>2, <1>4, <1>5

-----------------------------------------------------------------------------
(* Documents, and edits that keep their sections or add one.               *)

\* e has the sections of d, with other lines in them.
SameHeads(d, e) ==
  /\ IsDoc(e) /\ Len(e.secs) = Len(d.secs)
  /\ \A i \in DOMAIN d.secs : SameHead(d.secs[i], e.secs[i])
\* e has the heads of d and then one for n.
Adds(d, e, n, kind) ==
  /\ IsDoc(e) /\ Len(e.secs) = Len(d.secs) + 1
  /\ \A i \in DOMAIN d.secs : SameHead(d.secs[i], e.secs[i])
  /\ e.secs[Len(e.secs)].name = n /\ e.secs[Len(e.secs)].kind = kind

\* The sections of a document are numbered, and a field of it changed.
LEMMA DocDomain ==
  ASSUME NEW d, IsDoc(d)
  PROVE  Len(d.secs) \in Nat /\ DOMAIN d.secs = 1 .. Len(d.secs)
         /\ d.secs = [i \in DOMAIN d.secs |-> d.secs[i]]
  BY ListLen DEF IsDoc

LEMMA DocExcept ==
  ASSUME NEW d, IsDoc(d), NEW x
  PROVE  /\ [d EXCEPT !.secs = x] = [pre |-> d.pre, secs |-> x, dirty |-> d.dirty]
         /\ [d EXCEPT !.pre = x] = [pre |-> x, secs |-> d.secs, dirty |-> d.dirty]
         /\ [d EXCEPT !.dirty = x] = [pre |-> d.pre, secs |-> d.secs, dirty |-> x]
<1> DEFINE p == d.pre
           s == d.secs
           y == d.dirty
           r == [pre |-> p, secs |-> s, dirty |-> y]
<1>1. d = r
  BY DEF IsDoc
<1>2. /\ [r EXCEPT !.secs = x] = [pre |-> p, secs |-> x, dirty |-> y]
      /\ [r EXCEPT !.pre = x] = [pre |-> x, secs |-> s, dirty |-> y]
      /\ [r EXCEPT !.dirty = x] = [pre |-> p, secs |-> s, dirty |-> x]
  <2> HIDE DEF p, s, y
  <2> QED OBVIOUS
<1> HIDE DEF r
<1> QED BY <1>1, <1>2

\* The layers follow from the heads.
LEMMA DefinedSame ==
  ASSUME NEW d, NEW e, IsDoc(d), SameHeads(d, e)
  PROVE  Defined(e) = Defined(d) /\ Boards(e, Main) = Boards(d, Main)
<1>1. DOMAIN d.secs = DOMAIN e.secs
  BY DocDomain DEF SameHeads
<1>2. \A i \in DOMAIN d.secs : e.secs[i].name = d.secs[i].name /\ e.secs[i].kind = d.secs[i].kind
  BY DEF SameHeads, SameHead
<1> QED BY <1>1, <1>2 DEF Defined, Boards, feeds_board

LEMMA DefinedAdds ==
  ASSUME NEW d, NEW e, NEW n, NEW kind, IsDoc(d), Adds(d, e, n, kind)
  PROVE  Defined(e) = Defined(d) \union (IF is_board(kind) THEN {n.parts} ELSE {})
<1> DEFINE m == Len(d.secs)
<1>1. /\ m \in Nat /\ DOMAIN d.secs = 1 .. m /\ DOMAIN e.secs = 1 .. m + 1
      /\ Len(e.secs) = m + 1
  BY DocDomain DEF Adds
<1>2. /\ \A i \in 1 .. m : e.secs[i].name = d.secs[i].name /\ e.secs[i].kind = d.secs[i].kind
      /\ e.secs[m + 1].name = n /\ e.secs[m + 1].kind = kind
  BY <1>1 DEF Adds, SameHead
<1> HIDE DEF m
<1>3. \A i \in 1 .. m + 1 : i \in 1 .. m \/ i = m + 1
  BY <1>1
<1>4. 1 .. m \subseteq 1 .. m + 1 /\ m + 1 \in 1 .. m + 1
  BY <1>1
<1>5. Defined(e) \subseteq Defined(d) \union (IF is_board(kind) THEN {n.parts} ELSE {})
  BY <1>1, <1>2, <1>3 DEF Defined
<1>6. Defined(d) \subseteq Defined(e)
  BY <1>1, <1>2, <1>4 DEF Defined
<1>7. is_board(kind) => n.parts \in Defined(e)
  BY <1>1, <1>2, <1>4, Zenon DEF Defined
<1> QED BY <1>5, <1>6, <1>7

LEMMA AddsThenSame ==
  ASSUME NEW d, NEW e, NEW f, NEW n, NEW kind, IsDoc(d), SameHeads(e, f)
  PROVE  /\ SameHeads(d, e) => SameHeads(d, f)
         /\ Adds(d, e, n, kind) => Adds(d, f, n, kind)
<1>1. ASSUME SameHeads(d, e) PROVE SameHeads(d, f)
  <2>1. DOMAIN d.secs = DOMAIN e.secs
    BY <1>1, DocDomain DEF SameHeads
  <2>2. \A i \in DOMAIN d.secs : SameHead(d.secs[i], f.secs[i])
    BY <1>1, <2>1, SameHeadTrans DEF SameHeads
  <2> QED BY <1>1, <2>2 DEF SameHeads
<1>2. ASSUME Adds(d, e, n, kind) PROVE Adds(d, f, n, kind)
  <2>1. /\ DOMAIN d.secs \subseteq DOMAIN e.secs /\ Len(e.secs) \in DOMAIN e.secs
        /\ Len(f.secs) = Len(e.secs)
    <3>1. Len(d.secs) \in Nat /\ DOMAIN d.secs = 1 .. Len(d.secs)
      BY DocDomain
    <3>2. Len(e.secs) = Len(d.secs) + 1 /\ DOMAIN e.secs = 1 .. Len(e.secs)
      BY <1>2, DocDomain DEF Adds
    <3> QED BY <3>1, <3>2 DEF SameHeads
  <2>2. \A i \in DOMAIN d.secs : SameHead(d.secs[i], f.secs[i])
    BY <1>2, <2>1, SameHeadTrans DEF SameHeads, Adds
  <2>3. SameHead(e.secs[Len(e.secs)], f.secs[Len(f.secs)])
    BY <2>1 DEF SameHeads
  <2> QED BY <1>2, <2>1, <2>2, <2>3 DEF SameHeads, Adds, SameHead
<1> QED BY <1>1, <1>2

\* Writing into a section that is there, and removing from all of a name.
LEMMA InSectionKeeps ==
  ASSUME NEW d, IsDoc(d), NEW i, NEW s, i \in DOMAIN d.secs => SameHead(d.secs[i], s)
  PROVE  SameHeads(d, InSection(d, i, s))
<1> DEFINE x == [d.secs EXCEPT ![i] = s]
           e == [d EXCEPT !.secs = x]
<1>1. InSection(d, i, s) = e
  BY DEF InSection
<1>2. e = [pre |-> d.pre, secs |-> x, dirty |-> d.dirty]
  <2> HIDE DEF x
  <2> QED BY DocExcept
<1>3. /\ DOMAIN x = DOMAIN d.secs /\ x = [k \in DOMAIN d.secs |-> x[k]]
      /\ \A k \in DOMAIN d.secs : x[k] = IF k = i THEN s ELSE d.secs[k]
  OBVIOUS
<1>4. \A k \in DOMAIN d.secs : SameHead(d.secs[k], x[k])
  BY <1>3 DEF SameHead, IsDoc
<1> HIDE DEF x
<1>5. IsList(x) /\ Len(x) = Len(d.secs)
  BY <1>3, ListMap DEF IsDoc
<1> HIDE DEF e
<1>6. e.secs = x /\ e = [pre |-> e.pre, secs |-> e.secs, dirty |-> e.dirty]
  BY <1>2
<1> QED BY <1>1, <1>3, <1>4, <1>5, <1>6 DEF SameHeads, IsDoc, SameHead

LEMMA OnBoardKeeps ==
  ASSUME NEW d, IsDoc(d), NEW b, NEW c
  PROVE  /\ SameHeads(d, clear_binding(d, b, c))
         /\ SameHeads(d, clear_label(d, b, c))
         /\ SameHeads(d, remove_chord(d, b, c))
<1>1. ASSUME NEW x, DOMAIN x = DOMAIN d.secs, x = [k \in DOMAIN d.secs |-> x[k]],
             \A k \in DOMAIN d.secs : SameHead(d.secs[k], x[k])
      PROVE  SameHeads(d, [d EXCEPT !.secs = x])
  <2> DEFINE e == [d EXCEPT !.secs = x]
  <2>1. e = [pre |-> d.pre, secs |-> x, dirty |-> d.dirty]
    BY DocExcept
  <2>2. IsList(x) /\ Len(x) = Len(d.secs)
    BY <1>1, ListMap DEF IsDoc
  <2> HIDE DEF e
  <2>3. e.secs = x /\ e = [pre |-> e.pre, secs |-> e.secs, dirty |-> e.dirty]
    BY <2>1
  <2>4. SameHeads(d, e)
    BY <1>1, <2>2, <2>3 DEF SameHeads, IsDoc, SameHead
  <2> QED BY <2>4 DEF e
<1>2. \A k \in DOMAIN d.secs : IsSection(d.secs[k]) /\ SameHead(d.secs[k], d.secs[k])
  BY DEF IsDoc, SameHead
<1>3. SameHeads(d, clear_binding(d, b, c))
  <2> DEFINE x == [i \in DOMAIN d.secs |->
                     IF feeds_board(d.secs[i], b) THEN remove_binding(d.secs[i], c) ELSE d.secs[i]]
  <2>1. clear_binding(d, b, c) = [d EXCEPT !.secs = x]
    BY DEF clear_binding, OnBoard
  <2>2. \A k \in DOMAIN d.secs : SameHead(d.secs[k], x[k])
    BY <1>2, DropKeepsHead
  <2>3. DOMAIN x = DOMAIN d.secs /\ x = [k \in DOMAIN d.secs |-> x[k]]
    OBVIOUS
  <2> HIDE DEF x
  <2> QED BY <1>1, <2>1, <2>2, <2>3
<1>4. SameHeads(d, clear_label(d, b, c))
  <2> DEFINE x == [i \in DOMAIN d.secs |->
                     IF feeds_board(d.secs[i], b) THEN SectionClearLabel(d.secs[i], c) ELSE d.secs[i]]
  <2>1. clear_label(d, b, c) = [d EXCEPT !.secs = x]
    BY DEF clear_label, OnBoard
  <2>2. \A k \in DOMAIN d.secs : SameHead(d.secs[k], x[k])
    BY <1>2, DropKeepsHead
  <2>3. DOMAIN x = DOMAIN d.secs /\ x = [k \in DOMAIN d.secs |-> x[k]]
    OBVIOUS
  <2> HIDE DEF x
  <2> QED BY <1>1, <2>1, <2>2, <2>3
<1>5. SameHeads(d, remove_chord(d, b, c))
  <2> DEFINE drop(s) == DropLines(s, LAMBDA e : SameChord(e, c))
             x == [i \in DOMAIN d.secs |->
                     IF feeds_board(d.secs[i], b) THEN drop(d.secs[i]) ELSE d.secs[i]]
  <2>1. remove_chord(d, b, c) = [d EXCEPT !.secs = x]
    BY DEF remove_chord, OnBoard
  <2>2. \A k \in DOMAIN d.secs : SameHead(d.secs[k], x[k])
    <3>1. \A k \in DOMAIN d.secs : SameHead(d.secs[k], drop(d.secs[k]))
      BY <1>2, EntsAndDirty DEF DropLines
    <3> HIDE DEF drop
    <3> QED BY <1>2, <3>1
  <2>3. DOMAIN x = DOMAIN d.secs /\ x = [k \in DOMAIN d.secs |-> x[k]]
    OBVIOUS
  <2> HIDE DEF x
  <2> QED BY <1>1, <2>1, <2>2, <2>3
<1> QED BY <1>3, <1>4, <1>5

-----------------------------------------------------------------------------
(* Making a section, and writing into one.                                 *)

\* A name that is made here.
LEMMA PlainIsName == ASSUME NEW p PROVE IsName(PlainName(p)) /\ PlainName(p).parts = p
                                        /\ PlainName(p).pad = FALSE
  BY DEF IsName, PlainName

LEMMA OnePartList ==
  ASSUME NEW n
  PROVE  IsList(<<n>>) /\ Len(<<n>>) = 1 /\ <<n>>[1] = n /\ <<n>> # <<>>
<1>1. <<n>> \in Seq({n}) /\ Len(<<n>>) = 1 /\ <<n>>[1] = n /\ <<n>> # <<>>
  OBVIOUS
<1> QED BY <1>1, ListOfSeq
LEMMA PlainList ==
  ASSUME NEW n
  PROVE  /\ IsList(PlainName(<<n>>).parts) /\ Len(PlainName(<<n>>).parts) = 1
         /\ PlainName(<<n>>).parts # <<>>
<1>1. PlainName(<<n>>).parts = <<n>>
  BY PlainIsName
<1> QED BY <1>1, OnePartList

\* A section that is made is empty, and named as asked.
LEMMA NewSectionIs ==
  ASSUME NEW n, IsName(n), NEW kind, NEW eol
  PROVE  LET s == NewSection(n, kind, eol)
         IN  IsSection(s) /\ s.name = n /\ s.kind = kind /\ s.ents = <<>>
<1> DEFINE s == NewSection(n, kind, eol)
<1>1. s = [name |-> n, kind |-> kind, head |-> eol, ents |-> <<>>, dirty |-> FALSE]
  BY DEF NewSection
<1> HIDE DEF s
<1>2. s.name = n /\ s.kind = kind /\ s.head = eol /\ s.ents = <<>> /\ s.dirty = FALSE
  BY <1>1
<1>3. IsSection(s)
  BY <1>1, <1>2 DEF IsSection
<1> QED BY <1>2, <1>3 DEF s

LEMMA SameRefl == ASSUME NEW d, IsDoc(d) PROVE SameHeads(d, d)
  BY DEF SameHeads, IsDoc, SameHead

\* The lines of one section, or those before the first, made anew.
LEMMA OneKeeps ==
  ASSUME NEW d, IsDoc(d), NEW i, NEW s, i \in DOMAIN d.secs => SameHead(d.secs[i], s), NEW x
  PROVE  /\ SameHeads(d, [d EXCEPT !.secs[i] = s])
         /\ SameHeads(d, [d EXCEPT !.pre = x])
<1>1. SameHeads(d, [d EXCEPT !.secs[i] = s])
  BY InSectionKeeps DEF InSection
<1> DEFINE e == [d EXCEPT !.pre = x]
<1>2. e = [pre |-> x, secs |-> d.secs, dirty |-> d.dirty]
  BY DocExcept
<1> HIDE DEF e
<1>3. e.secs = d.secs /\ e = [pre |-> e.pre, secs |-> e.secs, dirty |-> e.dirty]
  BY <1>2
<1>4. SameHeads(d, e)
  BY <1>3 DEF SameHeads, IsDoc, SameHead
<1> QED BY <1>1, <1>4 DEF e

\* Marking the document as changed.
LEMMA DocMark ==
  ASSUME NEW p, NEW s, NEW y, NEW x
  PROVE  [[pre |-> p, secs |-> s, dirty |-> y] EXCEPT !.dirty = x] = [pre |-> p, secs |-> s, dirty |-> x]
  OBVIOUS

\* A section is added behind the others; one without a terminator gets one.
LEMMA AppendAdds ==
  ASSUME NEW d, IsDoc(d), NEW n, IsName(n), NEW kind
  PROVE  Adds(d, append_section(d, n, kind), n, kind)
<1> DEFINE style == file_eol(d)
           bytes == serialize(d)
           open  == bytes # <<>> /\ bytes[Len(bytes)].eol = "none"
           ended == IF ~open THEN d
                    ELSE IF d.secs # <<>>
                    THEN [d EXCEPT !.secs[Len(d.secs)] = WithEndEol(@, style)]
                    ELSE [d EXCEPT !.pre[Len(d.pre)].eol = style]
           blank == Entry(BlankText, style)
           apart == IF bytes = <<>> \/ last_is_blank(ended) THEN ended
                    ELSE IF d.secs # <<>>
                    THEN [ended EXCEPT !.secs[Len(d.secs)].ents = Append(@, blank)]
                    ELSE [ended EXCEPT !.pre = Append(@, blank)]
           new   == NewSection(n, kind, IF open THEN "none" ELSE style)
           last2 == [apart EXCEPT !.secs = Append(@, new)]
<1>1. append_section(d, n, kind) = [last2 EXCEPT !.dirty = TRUE]
  BY DEF append_section
<1>2. \A i \in DOMAIN d.secs : IsSection(d.secs[i])
  BY DEF IsDoc
<1>3. SameHeads(d, ended)
  <2>1. SameHeads(d, d)
    BY SameRefl
  <2>2. SameHeads(d, [d EXCEPT !.secs[Len(d.secs)] = WithEndEol(@, style)])
    <3> DEFINE l == Len(d.secs)
    <3> HIDE DEF style, l
    <3>1. l \in DOMAIN d.secs => SameHead(d.secs[l], WithEndEol(d.secs[l], style))
      BY <1>2, SectionExcept DEF WithEndEol
    <3> QED BY <3>1, OneKeeps DEF l
  <2>3. SameHeads(d, [d EXCEPT !.pre[Len(d.pre)].eol = style])
    <3> DEFINE x == [d.pre EXCEPT ![Len(d.pre)].eol = style]
    <3>1. SameHeads(d, [d EXCEPT !.pre = x])
      <4> HIDE DEF x
      <4>1. 0 \in DOMAIN d.secs => SameHead(d.secs[0], d.secs[0])
        BY <1>2 DEF SameHead
      <4> QED BY <4>1, OneKeeps
    <3> QED BY <3>1
  <2> HIDE DEF open, style
  <2> QED BY <2>1, <2>2, <2>3
<1> HIDE DEF ended
<1>4. SameHeads(d, apart)
  <2>0. IsDoc(ended) /\ \A i \in DOMAIN ended.secs : IsSection(ended.secs[i])
    BY <1>3 DEF SameHeads, IsDoc
  <2>1. SameHeads(ended, [ended EXCEPT !.secs[Len(d.secs)].ents = Append(@, blank)])
    <3> DEFINE l == Len(d.secs)
               t == [ended.secs[l] EXCEPT !.ents = Append(ended.secs[l].ents, blank)]
    <3>1. l \in DOMAIN ended.secs => SameHead(ended.secs[l], t)
      <4> HIDE DEF l, blank
      <4> QED BY <2>0, SectionExcept
    <3>2. [ended EXCEPT !.secs[Len(d.secs)].ents = Append(@, blank)] = [ended EXCEPT !.secs[l] = t]
      OBVIOUS
    <3> HIDE DEF t, l
    <3> QED BY <3>1, <3>2, <2>0, OneKeeps
  <2>2. SameHeads(ended, [ended EXCEPT !.pre = Append(@, blank)])
    <3>1. 0 \in DOMAIN ended.secs => SameHead(ended.secs[0], ended.secs[0])
      BY <2>0 DEF SameHead
    <3> HIDE DEF blank
    <3> QED BY <3>1, <2>0, OneKeeps
  <2>3. SameHeads(ended, ended)
    BY <2>0, SameRefl
  <2>4. SameHeads(ended, apart)
    <3> HIDE DEF blank, bytes
    <3> QED BY <2>1, <2>2, <2>3
  <2> HIDE DEF apart
  <2> QED BY <1>3, <2>4, AddsThenSame
<1> HIDE DEF apart
<1>5. Adds(d, [last2 EXCEPT !.dirty = TRUE], n, kind)
  <2> DEFINE x == Append(apart.secs, new)
             e == [last2 EXCEPT !.dirty = TRUE]
  <2>1. IsDoc(apart) /\ Len(apart.secs) = Len(d.secs)
        /\ \A i \in DOMAIN d.secs : SameHead(d.secs[i], apart.secs[i])
    BY <1>4 DEF SameHeads
  <2>2. IsSection(new) /\ new.name = n /\ new.kind = kind
    BY NewSectionIs
  <2> HIDE DEF new
  <2>3. last2 = [pre |-> apart.pre, secs |-> x, dirty |-> apart.dirty]
    <3> HIDE DEF x
    <3>1. last2 = [apart EXCEPT !.secs = x]
      BY DEF x
    <3> QED BY <3>1, <2>1, DocExcept
  <2>4. /\ IsList(x) /\ Len(x) = Len(d.secs) + 1 /\ x[Len(d.secs) + 1] = new
        /\ \A i \in DOMAIN apart.secs : x[i] = apart.secs[i]
    BY <2>1, ListAppend DEF IsDoc
  <2>5. /\ DOMAIN apart.secs = 1 .. Len(d.secs) /\ Len(d.secs) \in Nat
        /\ DOMAIN d.secs = 1 .. Len(d.secs)
        /\ DOMAIN x = 1 .. Len(d.secs) + 1
    <3> HIDE DEF x
    <3> QED BY <2>1, <2>4, DocDomain, ListLen
  <2> HIDE DEF x
  <2>6. e = [pre |-> apart.pre, secs |-> x, dirty |-> TRUE]
    <3> DEFINE p == apart.pre
               y == apart.dirty
               r == [pre |-> p, secs |-> x, dirty |-> y]
    <3>1. last2 = r
      BY <2>3
    <3>2. \A z : [r EXCEPT !.dirty = z] = [pre |-> p, secs |-> x, dirty |-> z]
      <4> HIDE DEF p, y, last2, e
      <4> QED BY DocMark
    <3> HIDE DEF last2, r
    <3> QED BY <3>1, <3>2
  <2> HIDE DEF e
  <2>7. e.secs = x /\ e = [pre |-> e.pre, secs |-> e.secs, dirty |-> e.dirty]
    BY <2>6
  <2>8. \A i \in 1 .. Len(d.secs) + 1 : IsSection(x[i])
    <3>1. \A i \in 1 .. Len(d.secs) + 1 : i \in DOMAIN apart.secs \/ i = Len(d.secs) + 1
      BY <2>5
    <3> QED BY <3>1, <2>1, <2>2, <2>4 DEF IsDoc
  <2>9. IsDoc(e)
    BY <2>4, <2>5, <2>7, <2>8 DEF IsDoc
  <2> QED BY <2>1, <2>2, <2>4, <2>5, <2>7, <2>9 DEF Adds, e
<1> QED BY <1>1, <1>5

-----------------------------------------------------------------------------
(* The editor's operations on a key, a label, a chord or an option.        *)

\* e has the sections of d, and maybe a new one for n.
Gains(d, e, n, kind) == SameHeads(d, e) \/ Adds(d, e, n, kind)

\* A section is made where there is none, and then written to.
LEMMA MadeAndSet ==
  ASSUME NEW d, IsDoc(d), NEW n, IsName(n), NEW kind, NEW base, NEW i, NEW s,
         base = d \/ base = append_section(d, n, kind),
         i \in DOMAIN base.secs => SameHead(base.secs[i], s)
  PROVE  Gains(d, InSection(base, i, s), n, kind)
<1>1. Gains(d, base, n, kind)
  BY AppendAdds, SameRefl DEF Gains
<1>2. SameHeads(base, InSection(base, i, s))
  <2>1. IsDoc(base)
    BY <1>1 DEF Gains, SameHeads, Adds
  <2> QED BY <2>1, InSectionKeeps
<1> QED BY <1>1, <1>2, AddsThenSame DEF Gains

LEMMA DocSections ==
  ASSUME NEW d, IsDoc(d), NEW n, IsName(n), NEW kind
  PROVE  /\ \A i \in DOMAIN d.secs : IsSection(d.secs[i])
         /\ \A i \in DOMAIN append_section(d, n, kind).secs :
              IsSection(append_section(d, n, kind).secs[i])
  BY AppendAdds DEF Adds, IsDoc

\* A binding, a label or a chord makes at most [main], an option at most [global].
LEMMA BindingHeads ==
  ASSUME NEW d, IsDoc(d), NEW b, NEW c, NEW v
  PROVE  Gains(d, set_layer_binding(d, b, c, v), PlainName(Main), "main")
<1> DEFINE i == LastSection(d, LAMBDA s : feeds_board(s, b) /\ get_binding(s, c) # NoVal)
           set(s) == set_or_add_binding(s, c, v, file_eol(d))
           at == LastSection(d, LAMBDA s : feeds_board(s, b))
           base == IF at = 0 THEN append_section(d, PlainName(Main), "main") ELSE d
           j == IF at = 0 THEN Len(base.secs) ELSE at
<1>1. set_layer_binding(d, b, c, v) = IF i # 0 THEN InSection(d, i, set(d.secs[i]))
                                      ELSE InSection(base, j, set(base.secs[j]))
  BY DEF set_layer_binding, InTarget
<1>2. \A s : IsSection(s) => SameHead(s, set(s))
  BY SetKeepsHead
<1>3. IsName(PlainName(Main))
  BY PlainIsName
<1>4. base = d \/ base = append_section(d, PlainName(Main), "main")
  OBVIOUS
<1> HIDE DEF set, i, at, j, base
<1>5. /\ \A k \in DOMAIN d.secs : IsSection(d.secs[k])
      /\ \A k \in DOMAIN base.secs : IsSection(base.secs[k])
  BY <1>3, <1>4, DocSections
<1>6. Gains(d, InSection(d, i, set(d.secs[i])), PlainName(Main), "main")
  BY <1>2, <1>3, <1>5, MadeAndSet
<1>7. Gains(d, InSection(base, j, set(base.secs[j])), PlainName(Main), "main")
  BY <1>2, <1>3, <1>4, <1>5, MadeAndSet
<1> QED BY <1>1, <1>6, <1>7

LEMMA LabelHeads ==
  ASSUME NEW d, IsDoc(d), NEW b, NEW c, NEW t
  PROVE  Gains(d, set_label(d, b, c, t), PlainName(Main), "main")
<1> DEFINE i == LastSection(d, LAMBDA s : feeds_board(s, b) /\ label_index(s, c) # 0)
           k == LastSection(d, LAMBDA s : feeds_board(s, b) /\ get_binding(s, c) # NoVal)
           set(s) == SectionSetLabel(s, c, t, file_eol(d))
           at == LastSection(d, LAMBDA s : feeds_board(s, b))
           base == IF at = 0 THEN append_section(d, PlainName(Main), "main") ELSE d
           j == IF at = 0 THEN Len(base.secs) ELSE at
<1>1. set_label(d, b, c, t) = IF i # 0 THEN InSection(d, i, set(d.secs[i]))
                              ELSE IF k # 0 THEN InSection(d, k, set(d.secs[k]))
                              ELSE InSection(base, j, set(base.secs[j]))
  BY DEF set_label, InTarget
<1>2. \A s : IsSection(s) => SameHead(s, set(s))
  BY LabelKeepsHead
<1>3. IsName(PlainName(Main))
  BY PlainIsName
<1>4. base = d \/ base = append_section(d, PlainName(Main), "main")
  OBVIOUS
<1> HIDE DEF set, i, k, at, j, base
<1>5. /\ \A x \in DOMAIN d.secs : IsSection(d.secs[x])
      /\ \A x \in DOMAIN base.secs : IsSection(base.secs[x])
  BY <1>3, <1>4, DocSections
<1>6. Gains(d, InSection(d, i, set(d.secs[i])), PlainName(Main), "main")
  BY <1>2, <1>3, <1>5, MadeAndSet
<1>7. Gains(d, InSection(d, k, set(d.secs[k])), PlainName(Main), "main")
  BY <1>2, <1>3, <1>5, MadeAndSet
<1>8. Gains(d, InSection(base, j, set(base.secs[j])), PlainName(Main), "main")
  BY <1>2, <1>3, <1>4, <1>5, MadeAndSet
<1> QED BY <1>1, <1>6, <1>7, <1>8

LEMMA ChordHeads ==
  ASSUME NEW d, IsDoc(d), NEW b, NEW c, NEW v
  PROVE  Gains(d, set_layer_chord(d, b, c, v), PlainName(Main), "main")
<1> DEFINE holds(s) == SelectLastInSeq(s.ents, LAMBDA e : SameChord(e, c))
           i == LastSection(d, LAMBDA s : feeds_board(s, b) /\ holds(s) # 0)
           spelt == d.secs[i].ents[holds(d.secs[i])].text.key
           set(s) == set_or_add_binding(s, c, v, file_eol(d))
           at == LastSection(d, LAMBDA s : feeds_board(s, b))
           base == IF at = 0 THEN append_section(d, PlainName(Main), "main") ELSE d
           j == IF at = 0 THEN Len(base.secs) ELSE at
           new == set_or_add_binding(d.secs[i], spelt, v, file_eol(d))
<1>1. set_layer_chord(d, b, c, v) = IF i # 0 THEN InSection(d, i, new)
                                    ELSE InSection(base, j, set(base.secs[j]))
  BY DEF set_layer_chord, InTarget
<1>2. \A s, x : IsSection(s) => SameHead(s, set_or_add_binding(s, x, v, file_eol(d)))
  BY SetKeepsHead
<1>3. IsName(PlainName(Main))
  BY PlainIsName
<1>4. base = d \/ base = append_section(d, PlainName(Main), "main")
  OBVIOUS
<1>5. \A s : IsSection(s) => SameHead(s, set(s))
  BY <1>2
<1>6. IsSection(d.secs[i]) => SameHead(d.secs[i], new)
  <2> HIDE DEF holds, i, spelt
  <2> QED BY <1>2
<1> HIDE DEF holds, set, i, at, j, base, new
<1>7. /\ \A x \in DOMAIN d.secs : IsSection(d.secs[x])
      /\ \A x \in DOMAIN base.secs : IsSection(base.secs[x])
  BY <1>3, <1>4, DocSections
<1>8. Gains(d, InSection(d, i, new), PlainName(Main), "main")
  BY <1>3, <1>6, <1>7, MadeAndSet
<1>9. Gains(d, InSection(base, j, set(base.secs[j])), PlainName(Main), "main")
  BY <1>3, <1>4, <1>5, <1>7, MadeAndSet
<1> QED BY <1>1, <1>8, <1>9

LEMMA OptionHeads ==
  ASSUME NEW d, IsDoc(d), NEW c, NEW v
  PROVE  /\ Gains(d, set_global_option(d, c, v), PlainName(<<"global">>), "global")
         /\ SameHeads(d, clear_global(d, c))
<1> DEFINE name == PlainName(<<"global">>)
           at == LastSection(d, LAMBDA s : s.name = PlainName(<<"global">>))
           base == IF at = 0 THEN append_section(d, name, "global") ELSE d
           j == IF at = 0 THEN Len(base.secs) ELSE at
           set(s) == set_or_add_binding(s, c, v, file_eol(d))
<1>1. set_global_option(d, c, v) = InSection(base, j, set(base.secs[j]))
  BY DEF set_global_option
<1>2. \A s : IsSection(s) => SameHead(s, set(s)) /\ SameHead(s, remove_binding(s, c))
  BY SetKeepsHead, DropKeepsHead
<1>3. IsName(name)
  BY PlainIsName
<1>4. base = d \/ base = append_section(d, name, "global")
  OBVIOUS
<1>5. SameHeads(d, clear_global(d, c))
  <2> DEFINE i == SelectInSeq(d.secs, LAMBDA s : s.name = PlainName(<<"global">>))
  <2>1. clear_global(d, c) = IF i = 0 THEN d ELSE InSection(d, i, remove_binding(d.secs[i], c))
    BY DEF clear_global
  <2> HIDE DEF i
  <2>2. i \in DOMAIN d.secs => SameHead(d.secs[i], remove_binding(d.secs[i], c))
    BY <1>2, <1>3, DocSections
  <2> QED BY <2>1, <2>2, InSectionKeeps, SameRefl
<1> HIDE DEF set, at, j, base
<1>6. \A x \in DOMAIN base.secs : IsSection(base.secs[x])
  <2> HIDE DEF name
  <2> QED BY <1>3, <1>4, DocSections
<1>7. Gains(d, InSection(base, j, set(base.secs[j])), name, "global")
  <2> HIDE DEF name
  <2> QED BY <1>2, <1>3, <1>4, <1>6, MadeAndSet
<1> QED BY <1>1, <1>5, <1>7

-----------------------------------------------------------------------------
(* Adding, removing and renaming a layer.                                  *)

\* A name that is not reserved makes a layer.
LEMMA LayerKind ==
  ASSUME NEW n, n \notin Reserved
  PROVE  is_board(section_kind(PlainName(<<n>>)))
<1> DEFINE p == PlainName(<<n>>)
<1>1. p # PlainName(<<"ids">>) /\ p # PlainName(<<"global">>) /\ p # PlainName(<<"aliases">>)
  <2>1. p.parts[1] = n /\ PlainName(<<"ids">>).parts[1] = "ids"
        /\ PlainName(<<"global">>).parts[1] = "global" /\ PlainName(<<"aliases">>).parts[1] = "aliases"
    BY DEF PlainName
  <2> HIDE DEF p
  <2> QED BY <2>1 DEF Reserved
<1>2. Len(p.parts) = 1
  BY DEF PlainName
<1>3. ~(Len(p.parts) > 1)
  <2> HIDE DEF p
  <2> QED BY <1>2
<1>4. section_kind(p) = IF p.parts = Main /\ ~p.pad THEN "main" ELSE "layer"
  <2> HIDE DEF p
  <2>1. CASE p.parts = Main /\ ~p.pad
    BY <1>1, <1>3, <2>1, Zenon DEF section_kind
  <2>2. CASE ~(p.parts = Main /\ ~p.pad)
    BY <1>1, <1>3, <2>2, Zenon DEF section_kind
  <2> QED BY <2>1, <2>2
<1> QED BY <1>4 DEF is_board, BoardKinds

\* A layer is added; what is left of one removed is a document.
LEMMA AddHeads ==
  ASSUME NEW d, IsDoc(d), NEW n
  PROVE  Adds(d, add_layer(d, n), PlainName(<<n>>), section_kind(PlainName(<<n>>)))
  BY AppendAdds, PlainIsName DEF add_layer

LEMMA RemoveHeads ==
  ASSUME NEW d, IsDoc(d), NEW b
  PROVE  IsDoc(remove_layer(d, b))
<1> DEFINE S == {s \in ToSet(d.secs) : ~feeds_board(s, b)}
           x == Among(d.secs, S)
           t == [d EXCEPT !.secs = x]
           e == [t EXCEPT !.dirty = TRUE]
<1>1. remove_layer(d, b) = e
  BY DEF remove_layer
<1>2. d.secs \in Seq(ToSet(d.secs))
  BY DEF IsDoc, IsList, ToSet
<1>3. x \in Seq(ToSet(d.secs))
  <2> HIDE DEF S
  <2> QED BY <1>2, AmongIs
<1> HIDE DEF x
<1>4. t = [pre |-> d.pre, secs |-> x, dirty |-> d.dirty]
  BY DocExcept
<1>5. \A z : [t EXCEPT !.dirty = z] = [pre |-> d.pre, secs |-> x, dirty |-> z]
  <2> DEFINE p == d.pre
             y == d.dirty
  <2>1. t = [pre |-> p, secs |-> x, dirty |-> y]
    BY <1>4
  <2> HIDE DEF t, p, y
  <2>2. \A z : [t EXCEPT !.dirty = z] = [pre |-> p, secs |-> x, dirty |-> z]
    BY <2>1, DocMark
  <2> QED BY <2>2 DEF p
<1>6. e = [pre |-> d.pre, secs |-> x, dirty |-> TRUE]
  <2> HIDE DEF t
  <2> QED BY <1>5
<1> HIDE DEF e
<1>7. e.secs = x /\ e = [pre |-> e.pre, secs |-> e.secs, dirty |-> e.dirty]
  BY <1>6
<1>8. IsList(x) /\ \A i \in DOMAIN x : x[i] \in ToSet(d.secs)
  BY <1>3, ListOfSeq
<1>9. \A s \in ToSet(d.secs) : IsSection(s)
  BY DEF IsDoc, ToSet
<1> QED BY <1>1, <1>7, <1>8, <1>9 DEF IsDoc

LEMMA NameExcept ==
  ASSUME NEW n, IsName(n), NEW p, NEW x
  PROVE  LET m == [n EXCEPT !.parts = p]
             q == [n EXCEPT !.parts = p, !.pad = x]
         IN  IsName(m) /\ m.parts = p /\ IsName(q) /\ q.parts = p
<1> DEFINE a == n.parts
           b == n.qual
           c == n.pad
           r == [parts |-> a, qual |-> b, pad |-> c]
           o == [parts |-> p, qual |-> b, pad |-> c]
           u == [parts |-> p, qual |-> b, pad |-> x]
<1>1. [r EXCEPT !.parts = p] = o /\ [o EXCEPT !.pad = x] = u
  <2> HIDE DEF a, b, c
  <2> QED OBVIOUS
<1>2. n = r
  BY DEF IsName
<1> HIDE DEF r
<1>3. [n EXCEPT !.parts = p] = o
  BY <1>1, <1>2
<1>4. [n EXCEPT !.parts = p, !.pad = x] = u
  <2> DEFINE m == [n EXCEPT !.parts = p]
  <2>1. [n EXCEPT !.parts = p, !.pad = x] = [m EXCEPT !.pad = x]
    OBVIOUS
  <2> HIDE DEF m
  <2>2. m = o
    BY <1>3 DEF m
  <2> HIDE DEF o, u
  <2> QED BY <1>1, <2>1, <2>2
<1>5. IsName(o) /\ o.parts = p /\ IsName(u) /\ u.parts = p
  <2> HIDE DEF a, b, c
  <2> QED BY DEF IsName
<1> HIDE DEF o, u
<1> QED BY <1>3, <1>4, <1>5

\* A rename changes the names of layers and composites, and the layer gets the new one.
LEMMA RenamedSection ==
  ASSUME NEW s, IsSection(s), NEW old, NEW new
  PROVE  LET t == RenameRefs(RenameHead(s, old, new), old, new)
         IN  /\ IsSection(t) /\ t.kind = s.kind
             /\ Named(s, old) => t.name.parts = <<new>>
             /\ s.kind \notin {"layer", "composite"} => t.name = s.name
<1> DEFINE h == RenameHead(s, old, new)
           t == RenameRefs(h, old, new)
<1>1. ASSUME NEW n, IsName(n)
      PROVE  LET u == [s EXCEPT !.name = n] IN IsSection(u) /\ u.kind = s.kind /\ u.name = n
  <2> DEFINE k == s.kind
             e == s.head
             x == s.ents
             y == s.dirty
             o == s.name
             r == [name |-> o, kind |-> k, head |-> e, ents |-> x, dirty |-> y]
             u == [r EXCEPT !.name = n]
  <2>1. u = [name |-> n, kind |-> k, head |-> e, ents |-> x, dirty |-> y]
    <3> HIDE DEF o, k, e, x, y
    <3> QED OBVIOUS
  <2>2. s = r
    BY DEF IsSection
  <2>3. IsSection(u) /\ u.kind = k /\ u.name = n
    <3> HIDE DEF r, u
    <3> QED BY <2>1, <1>1 DEF IsSection
  <2> HIDE DEF r
  <2> QED BY <2>2, <2>3
<1>2. ASSUME NEW n, IsName(n), NEW z
      PROVE  LET u == [s EXCEPT !.name = n, !.dirty = z]
             IN  IsSection(u) /\ u.kind = s.kind /\ u.name = n
  <2> DEFINE v == [s EXCEPT !.name = n]
  <2>1. IsSection(v) /\ v.kind = s.kind /\ v.name = n
    BY <1>1, <1>2
  <2>2. [s EXCEPT !.name = n, !.dirty = z] = [v EXCEPT !.dirty = z]
    OBVIOUS
  <2> HIDE DEF v
  <2>3. SameHead(v, [v EXCEPT !.dirty = z])
    BY <2>1, SectionExcept
  <2> QED BY <2>1, <2>2, <2>3 DEF SameHead
<1> DEFINE sub(i) == IF s.name.parts[i] = old /\ ~(s.name.pad /\ i = 1) THEN new ELSE s.name.parts[i]
           parts  == [i \in DOMAIN s.name.parts |-> sub(i)]
<1>3. IsName(s.name)
  BY DEF IsSection
<1>4. /\ IsSection(h) /\ h.kind = s.kind
      /\ Named(s, old) => h.name.parts = <<new>>
      /\ s.kind \notin {"layer", "composite"} => h.name = s.name
  <2>1. CASE Named(s, old)
    <3> DEFINE n == [s.name EXCEPT !.parts = <<new>>, !.pad = FALSE]
    <3>1. h = [s EXCEPT !.name = n, !.dirty = TRUE]
      BY <2>1, Zenon DEF RenameHead, Named
    <3>2. IsName(n) /\ n.parts = <<new>>
      <4> DEFINE m == s.name
                 new1 == <<new>>
      <4>1. \A x : IsName([m EXCEPT !.parts = new1, !.pad = x])
                  /\ [m EXCEPT !.parts = new1, !.pad = x].parts = new1
        <5> HIDE DEF m, new1
        <5> QED BY <1>3, NameExcept DEF m
      <4> QED BY <4>1
    <3> HIDE DEF n
    <3>3. IsSection(h) /\ h.kind = s.kind /\ h.name = n
      <4>1. \A z : LET u == [s EXCEPT !.name = n, !.dirty = z]
                  IN  IsSection(u) /\ u.kind = s.kind /\ u.name = n
        BY <1>2, <3>2
      <4> QED BY <3>1, <4>1
    <3> QED BY <2>1, <3>2, <3>3 DEF Named
  <2>2. CASE s.kind = "composite" /\ parts # s.name.parts
    <3> DEFINE n == [s.name EXCEPT !.parts = parts]
    <3>1. ~Named(s, old)
      BY <2>2 DEF Named
    <3>2. h = [s EXCEPT !.name = n, !.dirty = TRUE]
      BY <2>2, <3>1, Zenon DEF RenameHead
    <3>3. IsName(n)
      <4> HIDE DEF parts
      <4> QED BY <1>3, NameExcept
    <3> HIDE DEF n
    <3>4. IsSection(h) /\ h.kind = s.kind /\ h.name = n
      <4>1. \A z : LET u == [s EXCEPT !.name = n, !.dirty = z]
                  IN  IsSection(u) /\ u.kind = s.kind /\ u.name = n
        BY <1>2, <3>3
      <4> QED BY <3>2, <4>1
    <3> QED BY <2>2, <3>1, <3>4
  <2>3. CASE ~Named(s, old) /\ ~(s.kind = "composite" /\ parts # s.name.parts)
    <3>1. h = s
      BY <2>3, Zenon DEF RenameHead
    <3> QED BY <2>3, <3>1
  <2> HIDE DEF h, parts
  <2> QED BY <2>1, <2>2, <2>3
<1> HIDE DEF h
<1>5. SameHead(h, t)
  <2>1. SameHead(h, h)
    BY <1>4 DEF SameHead
  <2> QED BY <2>1, <1>4, SectionExcept DEF RenameRefs
<1> HIDE DEF t
<1>6. IsSection(t) /\ t.kind = s.kind /\ t.name = h.name
  BY <1>4, <1>5 DEF SameHead
<1> QED BY <1>4, <1>6 DEF h, t

LEMMA RenameHeads ==
  ASSUME NEW d, IsDoc(d), NEW old, NEW new
  PROVE  /\ IsDoc(rename_layer(d, old, new))
         /\ CanRename(d, old, new) => <<new>> \in Defined(rename_layer(d, old, new))
<1> DEFINE x == [i \in DOMAIN d.secs |-> RenameRefs(RenameHead(d.secs[i], old, new), old, new)]
           t == [d EXCEPT !.secs = x]
           e == [t EXCEPT !.dirty = TRUE]
<1>1. rename_layer(d, old, new) = e
  BY DEF rename_layer
<1>2. \A i \in DOMAIN d.secs : IsSection(d.secs[i])
  BY DEF IsDoc
<1>3. /\ DOMAIN x = DOMAIN d.secs /\ x = [i \in DOMAIN d.secs |-> x[i]]
      /\ \A i \in DOMAIN d.secs : /\ IsSection(x[i]) /\ x[i].kind = d.secs[i].kind
                                  /\ Named(d.secs[i], old) => x[i].name.parts = <<new>>
  BY <1>2, RenamedSection
<1> HIDE DEF x
<1>4. IsList(x)
  BY <1>3, ListMap DEF IsDoc
<1>5. e = [pre |-> d.pre, secs |-> x, dirty |-> TRUE]
  <2> DEFINE p == d.pre
             y == d.dirty
  <2>1. t = [pre |-> p, secs |-> x, dirty |-> y]
    BY DocExcept
  <2> HIDE DEF t, p, y
  <2>2. \A z : [t EXCEPT !.dirty = z] = [pre |-> p, secs |-> x, dirty |-> z]
    BY <2>1, DocMark
  <2> QED BY <2>2 DEF p
<1> HIDE DEF e
<1>6. e.secs = x /\ e = [pre |-> e.pre, secs |-> e.secs, dirty |-> e.dirty]
  BY <1>5
<1>7. IsDoc(e)
  BY <1>3, <1>4, <1>6 DEF IsDoc
<1>8. CanRename(d, old, new) => <<new>> \in Defined(e)
  <2> SUFFICES ASSUME CanRename(d, old, new) PROVE <<new>> \in Defined(e)
    OBVIOUS
  <2>1. PICK i \in DOMAIN d.secs : Named(d.secs[i], old)
    BY DEF CanRename
  <2>2. i \in DOMAIN e.secs /\ e.secs[i].name.parts = <<new>> /\ is_board(e.secs[i].kind)
    BY <1>3, <1>6, <2>1 DEF Named, is_board, BoardKinds
  <2> QED BY <2>2, Zenon DEF Defined
<1> QED BY <1>1, <1>7, <1>8

-----------------------------------------------------------------------------
(* The names the pickers list.                                             *)

\* OnceNames goes through the sections.
LEMMA OnceSteps ==
  ASSUME NEW L, NEW s \in Seq(L), NEW K
  PROVE  \E h : /\ h[0] = <<>>
                /\ \A k \in 1 .. Len(s) :
                     h[k] = IF s[k].kind \in K /\ ~Contains(h[k - 1], s[k].name.parts)
                            THEN Append(h[k - 1], s[k].name.parts) ELSE h[k - 1]
                /\ OnceNames(s, K) = h[Len(s)]
<1> DEFINE n == Len(s)
           P == {s[k].name.parts : k \in 1 .. n}
           op(out, x) == IF x.kind \in K /\ ~Contains(out, x.name.parts)
                         THEN Append(out, x.name.parts) ELSE out
           d == [k \in 1 .. n |-> [out \in Seq(P) |-> op(out, s[k])]]
           Eqn(it) == it = [T \in SUBSET DOMAIN s |->
                              IF T = {} THEN <<>> ELSE op(it[T \ {Top(T)}], s[Top(T)])]
           it == CHOOSE it : Eqn(it)
<1>1. n \in Nat /\ DOMAIN s = 1 .. n
  OBVIOUS
<1>2. OnceNames(s, K) = it[DOMAIN s]
  BY DEF OnceNames, FoldLeft, MapThenFoldSet, Max, Top
<1>3. \E jt : Eqn(jt)
  <2>1. d \in [1 .. n -> [Seq(P) -> Seq(P)]]
    <3>1. \A k \in 1 .. n, out \in Seq(P) : op(out, s[k]) \in Seq(P)
      <4> SUFFICES ASSUME NEW k \in 1 .. n, NEW out \in Seq(P) PROVE op(out, s[k]) \in Seq(P)
        OBVIOUS
      <4>1. s[k].name.parts \in P
        OBVIOUS
      <4> HIDE DEF P
      <4> QED BY <4>1
    <3> HIDE DEF op, P, n
    <3> QED BY <3>1
  <2>2. <<>> \in Seq(P)
    OBVIOUS
  <2>3. PICK jt : FoldOf(jt, Seq(P), <<>>, d, n)
    <3> HIDE DEF d, n, P
    <3> QED BY <2>1, <2>2, <1>1, FoldExists
  <2>4. ASSUME NEW T \in SUBSET (1 .. n), T # {}
        PROVE  d[Top(T)][jt[T \ {Top(T)}]] = op(jt[T \ {Top(T)}], s[Top(T)])
    <3>1. Top(T) \in 1 .. n /\ T \ {Top(T)} \in SUBSET (1 .. n)
      BY <2>4, TopIn, <1>1
    <3>2. jt[T \ {Top(T)}] \in Seq(P)
      <4> HIDE DEF d, P, n
      <4> QED BY <3>1, <2>3 DEF FoldOf
    <3> HIDE DEF op, P, n
    <3> QED BY <3>1, <3>2
  <2>5. jt = [T \in SUBSET (1 .. n) |->
                IF T = {} THEN <<>> ELSE op(jt[T \ {Top(T)}], s[Top(T)])]
    <3> HIDE DEF d, op, n, P
    <3> QED BY <2>3, <2>4 DEF FoldOf
  <2> QED BY <2>5, <1>1
<1>4. Eqn(it)
  <2> HIDE DEF Eqn
  <2> QED BY <1>3
<1> DEFINE h == [k \in 0 .. n |-> it[1 .. k]]
<1>5. /\ it[1 .. 0] = <<>>
      /\ \A k \in 1 .. n : it[1 .. k] = op(it[1 .. k - 1], s[k])
  <2> DEFINE o == [T \in SUBSET (1 .. n) |-> op(it[T \ {Top(T)}], s[Top(T)])]
  <2>1. Unfolds(it, <<>>, o, n)
    <3> HIDE DEF it, op
    <3> QED BY <1>4, <1>1 DEF Unfolds
  <2>2. /\ it[1 .. 0] = <<>>
        /\ \A k \in 1 .. n : /\ it[1 .. k] = o[1 .. k]
                             /\ Top(1 .. k) = k
                             /\ (1 .. k) \ {Top(1 .. k)} = 1 .. k - 1
    <3> HIDE DEF it, o, n
    <3> QED BY <2>1, <1>1, FoldAlong
  <2>3. \A k \in 1 .. n : 1 .. k \in SUBSET (1 .. n)
    OBVIOUS
  <2> HIDE DEF it, op
  <2> QED BY <2>2, <2>3
<1>6. /\ h[0] = <<>>
      /\ \A k \in 1 .. n : h[k] = op(h[k - 1], s[k])
      /\ OnceNames(s, K) = h[n]
  <2> HIDE DEF it, op
  <2> QED BY <1>1, <1>2, <1>5
<1> HIDE DEF h
<1> QED BY <1>6

\* It lists every name of a section of the kinds, and no other.
LEMMA OnceNamesIs ==
  ASSUME NEW s, IsList(s), NEW K
  PROVE  LET P == {s[k].name.parts : k \in {j \in DOMAIN s : s[j].kind \in K}}
         IN  OnceNames(s, K) \in Seq(P) /\ ToSet(OnceNames(s, K)) = P
<1> DEFINE P(m) == {s[k].name.parts : k \in {j \in 1 .. m : s[j].kind \in K}}
           n == Len(s)
<1>1. n \in Nat /\ DOMAIN s = 1 .. n /\ s \in Seq(ToSet(s))
  BY ListLen DEF IsList, ToSet
<1>2. PICK h : /\ h[0] = <<>>
               /\ \A k \in 1 .. n :
                    h[k] = IF s[k].kind \in K /\ ~Contains(h[k - 1], s[k].name.parts)
                           THEN Append(h[k - 1], s[k].name.parts) ELSE h[k - 1]
               /\ OnceNames(s, K) = h[n]
  BY <1>1, OnceSteps
<1> HIDE DEF n
<1> DEFINE Good(k) == h[k] \in Seq(P(k)) /\ ToSet(h[k]) = P(k)
           N == {k \in Nat : k <= n => Good(k)}
<1>3. Good(0)
  <2>1. P(0) = {}
    OBVIOUS
  <2> DEFINE z == <<>>
  <2>2. z \in Seq({}) /\ ToSet(z) = {}
    BY DEF ToSet
  <2> HIDE DEF z, P
  <2>3. h[0] = z
    BY <1>2 DEF z
  <2> QED BY <2>1, <2>2, <2>3
<1>4. ASSUME NEW k \in Nat, k + 1 <= n, Good(k) PROVE Good(k + 1)
  <2> DEFINE p == s[k + 1].name.parts
             g == h[k]
  <2>1. h[k + 1] = IF s[k + 1].kind \in K /\ ~Contains(g, p) THEN Append(g, p) ELSE g
    <3>1. k + 1 \in 1 .. n /\ (k + 1) - 1 = k
      BY <1>1, <1>4
    <3> QED BY <1>2, <3>1
  <2>2. P(k + 1) = P(k) \union (IF s[k + 1].kind \in K THEN {p} ELSE {})
    <3>1. 1 .. k + 1 = (1 .. k) \union {k + 1}
      OBVIOUS
    <3> QED BY <3>1
  <2>3. g \in Seq(P(k)) /\ ToSet(g) = P(k)
    BY <1>4
  <2> DEFINE Q == P(k) \union {p}
  <2> HIDE DEF P, p, g
  <2>4. g \in Seq(Q) /\ p \in Q
    BY <2>3
  <2>5. Contains(g, p) <=> p \in P(k)
    BY <2>3, ContainsIs
  <2>6. Append(g, p) \in Seq(Q) /\ ToSet(Append(g, p)) = ToSet(g) \union {p}
    <3> HIDE DEF Q
    <3> QED BY <2>4, AppendSet
  <2>7. CASE s[k + 1].kind \in K /\ ~Contains(g, p)
    BY <2>1, <2>2, <2>3, <2>6, <2>7
  <2>8. CASE s[k + 1].kind \in K /\ Contains(g, p)
    BY <2>1, <2>2, <2>3, <2>5, <2>8
  <2>9. CASE s[k + 1].kind \notin K
    BY <2>1, <2>2, <2>3, <2>9
  <2> QED BY <2>7, <2>8, <2>9
<1>5. n \in N
  <2>1. 0 \in N /\ \A k \in Nat : k \in N => k + 1 \in N
    <3> HIDE DEF Good
    <3> QED BY <1>1, <1>3, <1>4
  <2> HIDE DEF N
  <2> QED BY <1>1, <2>1, NatInSet
<1>6. Good(n)
  BY <1>1, <1>5
<1> QED BY <1>1, <1>2, <1>6

\* The layers the picker lists are those that are defined.
LEMMA EditableAre ==
  ASSUME NEW d, IsDoc(d)
  PROVE  /\ editable_sections(d) \in Seq(Defined(d))
         /\ ToSet(editable_sections(d)) = Defined(d)
         /\ First(d) = <<>> \/ First(d) \in Defined(d)
<1>1. {d.secs[k].name.parts : k \in {j \in DOMAIN d.secs : d.secs[j].kind \in BoardKinds}} = Defined(d)
  BY DEF Defined, is_board
<1>2. editable_sections(d) \in Seq(Defined(d)) /\ ToSet(editable_sections(d)) = Defined(d)
  BY <1>1, OnceNamesIs DEF editable_sections, IsDoc
<1>3. editable_sections(d) # <<>> => editable_sections(d)[1] \in Defined(d)
  BY <1>2
<1> QED BY <1>2, <1>3 DEF First

-----------------------------------------------------------------------------
(* The invariant: the layers and the copies the panel keeps of the document. *)

\* e is d edited, with its layers: at most [main] is new.
Grows(d, e) ==
  IsDoc(e) /\ Defined(d) \subseteq Defined(e) /\ Defined(e) \subseteq Defined(d) \union {Main}

LEMMA GainsGrows ==
  ASSUME NEW d, NEW e, IsDoc(d)
  PROVE  /\ SameHeads(d, e) => Grows(d, e)
         /\ Gains(d, e, PlainName(Main), "main") => Grows(d, e)
         /\ Gains(d, e, PlainName(<<"global">>), "global") => Grows(d, e)
<1>1. ASSUME SameHeads(d, e) PROVE Grows(d, e)
  BY <1>1, DefinedSame DEF Grows, SameHeads
<1>2. ASSUME Adds(d, e, PlainName(Main), "main") PROVE Grows(d, e)
  <2> DEFINE n == PlainName(Main)
  <2>1. n.parts = Main
    BY PlainIsName
  <2> HIDE DEF n
  <2>2. Defined(e) = Defined(d) \union (IF is_board("main") THEN {n.parts} ELSE {})
    BY <1>2, DefinedAdds DEF n
  <2> QED BY <1>2, <2>1, <2>2 DEF Grows, Adds
<1>3. ASSUME Adds(d, e, PlainName(<<"global">>), "global") PROVE Grows(d, e)
  <2> DEFINE n == PlainName(<<"global">>)
  <2>1. ~is_board("global")
    BY DEF is_board, BoardKinds
  <2> HIDE DEF n
  <2>2. Defined(e) = Defined(d) \union (IF is_board("global") THEN {n.parts} ELSE {})
    BY <1>3, DefinedAdds DEF n
  <2> QED BY <1>3, <2>1, <2>2 DEF Grows, Adds
<1> QED BY <1>1, <1>2, <1>3 DEF Gains

\* Every edit of a key, a chord or an option keeps the layers.
LEMMA KeyEditsGrow ==
  ASSUME IsDoc(edit)
  PROVE  /\ \A b, c, v : SetBinding(b, c, v) => Grows(edit, edit')
         /\ \A b, c : ClearBinding(b, c) => Grows(edit, edit')
         /\ \A b, c, t : SetLabel(b, c, t) => Grows(edit, edit')
         /\ \A b, c : ClearLabel(b, c) => Grows(edit, edit')
         /\ \A b, k, kind, n : SetLayerAction(b, k, kind, n) => Grows(edit, edit')
         /\ \A b, k, n, tap, f : SetTapHold(b, k, n, tap, f) => Grows(edit, edit')
         /\ \A b, k, v : SetMacro(b, k, v) => Grows(edit, edit')
         /\ \A b, c : RemoveChord(b, c) => Grows(edit, edit')
         /\ \A o, v : SetGlobal(o, v) => Grows(edit, edit')
         /\ \A o : ClearGlobal(o) => Grows(edit, edit')
<1>1. \A b, c, v : Grows(edit, set_layer_binding(edit, b, c, v))
  BY BindingHeads, GainsGrows
<1>2. \A b, c, t : Grows(edit, set_label(edit, b, c, t))
  BY LabelHeads, GainsGrows
<1>3. \A b, c : /\ Grows(edit, clear_binding(edit, b, c))
                /\ Grows(edit, clear_label(edit, b, c))
                /\ Grows(edit, remove_chord(edit, b, c))
  BY OnBoardKeeps, GainsGrows
<1>4. \A c, v : Grows(edit, set_global_option(edit, c, v)) /\ Grows(edit, clear_global(edit, c))
  BY OptionHeads, GainsGrows
<1>5. \A did, e : Mutates(did, e) => edit' = e
  BY DEF Mutates
<1>6. \A b, c, v : SetBinding(b, c, v) => Grows(edit, edit')
  BY <1>1 DEF SetBinding, Mutates
<1>7. \A b, c : ClearBinding(b, c) => Grows(edit, edit')
  BY <1>3 DEF ClearBinding, Mutates
<1>8. \A b, c, t : SetLabel(b, c, t) => Grows(edit, edit')
  BY <1>2 DEF SetLabel, Mutates
<1>9. \A b, c : ClearLabel(b, c) => Grows(edit, edit')
  BY <1>3 DEF ClearLabel, Mutates
<1>10. \A b, k, kind, n : SetLayerAction(b, k, kind, n) => Grows(edit, edit')
  BY <1>1 DEF SetLayerAction, Mutates
<1>11. \A b, k, n, tap, f : SetTapHold(b, k, n, tap, f) => Grows(edit, edit')
  BY <1>1 DEF SetTapHold, Mutates
<1>12. \A b, k, v : SetMacro(b, k, v) => Grows(edit, edit')
  BY <1>1 DEF SetMacro, Mutates
<1>13. \A b, c : RemoveChord(b, c) => Grows(edit, edit')
  BY <1>3 DEF RemoveChord, Mutates
<1>14. \A o, v : SetGlobal(o, v) => Grows(edit, edit')
  BY <1>4 DEF SetGlobal, Mutates
<1>15. \A o : ClearGlobal(o) => Grows(edit, edit')
  BY <1>4 DEF ClearGlobal, Mutates
<1> QED BY <1>6, <1>7, <1>8, <1>9, <1>10, <1>11, <1>12, <1>13, <1>14, <1>15

LEMMA AddChordGrows ==
  ASSUME IsDoc(edit), NEW v, AddChord(v)
  PROVE  Grows(edit, edit')
<1> DEFINE set == set_layer_chord(edit, layer, picks, v)
           less == remove_chord(set, layer, orig)
<1>1. edit' = set \/ edit' = less
  BY DEF AddChord, Mutates
<1>2. Gains(edit, set, PlainName(Main), "main")
  BY ChordHeads
<1> HIDE DEF set
<1>3. SameHeads(set, less)
  BY <1>2, OnBoardKeeps DEF Gains, SameHeads, Adds
<1> HIDE DEF less
<1>4. Gains(edit, less, PlainName(Main), "main")
  BY <1>2, <1>3, AddsThenSame DEF Gains
<1> QED BY <1>1, <1>2, <1>4, GainsGrows

-----------------------------------------------------------------------------

\* The lists the panel holds.
IsLists(l) == l = [layers |-> l.layers, chords |-> l.chords,
                   globals |-> l.globals, warnings |-> l.warnings]

LEMMA ListsExcept ==
  ASSUME NEW l, IsLists(l), NEW x
  PROVE  /\ [l EXCEPT !.chords = x] = [layers |-> l.layers, chords |-> x,
                                       globals |-> l.globals, warnings |-> l.warnings]
         /\ [l EXCEPT !.globals = x] = [layers |-> l.layers, chords |-> l.chords,
                                       globals |-> x, warnings |-> l.warnings]
         /\ [l EXCEPT !.warnings = x] = [layers |-> l.layers, chords |-> l.chords,
                                       globals |-> l.globals, warnings |-> x]
<1> DEFINE a == l.layers
           c == l.chords
           g == l.globals
           w == l.warnings
           r == [layers |-> a, chords |-> c, globals |-> g, warnings |-> w]
<1>1. l = r
  BY DEF IsLists
<1>2. /\ [r EXCEPT !.chords = x] = [layers |-> a, chords |-> x, globals |-> g, warnings |-> w]
      /\ [r EXCEPT !.globals = x] = [layers |-> a, chords |-> c, globals |-> x, warnings |-> w]
      /\ [r EXCEPT !.warnings = x] = [layers |-> a, chords |-> c, globals |-> g, warnings |-> x]
  <2> HIDE DEF a, c, g, w
  <2> QED OBVIOUS
<1> HIDE DEF r
<1> QED BY <1>1, <1>2

LEMMA ListsAre ==
  ASSUME NEW d, NEW b
  PROVE  LET l == Lists(d, b)
         IN  IsLists(l) /\ l.layers = editable_sections(d) /\ l.chords = chords(d, b)
             /\ l.globals = global_entries(d) /\ l.warnings = orphan_warnings(d)
<1> DEFINE x == editable_sections(d)
           y == chords(d, b)
           z == global_entries(d)
           w == orphan_warnings(d)
           l == Lists(d, b)
<1>1. l = [layers |-> x, chords |-> y, globals |-> z, warnings |-> w]
  BY DEF Lists
<1> HIDE DEF l, x, y, z, w
<1>2. IsLists(l) /\ l.layers = x /\ l.chords = y /\ l.globals = z /\ l.warnings = w
  BY <1>1 DEF IsLists
<1> QED BY <1>2 DEF l, x, y, z, w

\* The layers in the picker are those of the document, the layer in focus and the one
\* a question is asked about are among them, and the copies for drawing are current.
FocusInv ==
  /\ IsDoc(edit) /\ IsLists(lists)
  /\ layer # <<>> => layer \in Defined(edit) \union {Main}
  /\ ToSet(lists.layers) \union {Main} = Defined(edit) \union {Main}
  /\ prompt # NoPrompt => prompt.name = layer
  /\ preview = derive(edit) /\ unsaved = dirty

\* A layer that is defined, or [main], can be selected.
LEMMA DefinedHas ==
  ASSUME NEW d, NEW b, b \in Defined(d) \union {Main}
  PROVE  HasBoard(d, b)
  BY DEF HasBoard, Boards, Defined, feeds_board

\* A callback that leaves the focus, and edits the document if at all by growing it.
LEMMA KeptFocus ==
  ASSUME FocusInv, UNCHANGED <<layer, prompt>>, lists'.layers = lists.layers, IsLists(lists'),
         \/ UNCHANGED <<edit, created, preview, unsaved>>
         \/ Grows(edit, edit') /\ Commit
  PROVE  FocusInv'
<1>1. IsDoc(edit') /\ Defined(edit) \subseteq Defined(edit') /\ Defined(edit') \subseteq Defined(edit) \union {Main}
  BY DEF FocusInv, Grows
<1>2. preview' = derive(edit)' /\ unsaved' = dirty'
  BY DEF FocusInv, Commit, dirty
<1>3. /\ layer' # <<>> => layer' \in Defined(edit') \union {Main}
      /\ ToSet(lists'.layers) \union {Main} = Defined(edit') \union {Main}
      /\ prompt' # NoPrompt => prompt'.name = layer'
  BY <1>1 DEF FocusInv
<1> QED BY <1>1, <1>2, <1>3 DEF FocusInv

-----------------------------------------------------------------------------
(* Every callback keeps the invariant.                                     *)

\* The callbacks that edit nothing.
LEMMA SelectingKeeps ==
  ASSUME FocusInv, FocusNext
  PROVE  FocusInv'
<1>1. ASSUME NEW k \in EditKeys, SelectKey(k) PROVE FocusInv'
  <2>1. UNCHANGED <<edit, created, preview, unsaved, layer, prompt, lists>>
    BY <1>1 DEF SelectKey, vars, window
  <2> QED BY <2>1, KeptFocus DEF FocusInv
<1>2. ASSUME NEW i \in DOMAIN lists.layers, PickEditLayer(lists.layers[i]) PROVE FocusInv'
  <2> DEFINE b == lists.layers[i]
  <2>1. /\ layer' = b /\ prompt' = NoPrompt /\ UNCHANGED <<edit, created, preview, unsaved>>
        /\ lists' = lists \/ lists' = [lists EXCEPT !.chords = chords(edit, b)]
    BY <1>2 DEF PickEditLayer, vars, window, builder
  <2>2. lists'.layers = lists.layers /\ IsLists(lists')
    <3>1. IsLists(lists)
      BY DEF FocusInv
    <3> DEFINE x == chords(edit, b)
    <3> HIDE DEF x
    <3>2. lists' = lists \/ lists' = [layers |-> lists.layers, chords |-> x,
                                      globals |-> lists.globals, warnings |-> lists.warnings]
      BY <2>1, <3>1, ListsExcept DEF x
    <3> QED BY <3>1, <3>2 DEF IsLists
  <2>3. b \in ToSet(lists.layers)
    BY DEF ToSet
  <2>4. b \in Defined(edit) \union {Main}
    BY <2>3 DEF FocusInv
  <2>5. prompt' = NoPrompt
    BY <2>1
  <2>6. preview' = derive(edit)' /\ unsaved' = dirty'
    BY <2>1 DEF FocusInv, dirty
  <2>7. layer' = b
    BY <2>1
  <2>8. edit' = edit
    BY <2>1
  <2> HIDE DEF b
  <2> QED BY <2>2, <2>4, <2>5, <2>6, <2>7, <2>8 DEF FocusInv
<1>3. ASSUME SetBoardMode PROVE FocusInv'
  <2>1. /\ UNCHANGED <<edit, created, preview, unsaved, layer, prompt>>
        /\ lists' = lists \/ lists' = [lists EXCEPT !.chords = chords(edit, layer)]
    BY <1>3 DEF SetBoardMode, vars, window
  <2>2. IsLists(lists)
    BY DEF FocusInv
  <2> DEFINE x == chords(edit, layer)
  <2> HIDE DEF x
  <2>3. lists' = lists \/ lists' = [layers |-> lists.layers, chords |-> x,
                                    globals |-> lists.globals, warnings |-> lists.warnings]
    BY <2>1, <2>2, ListsExcept DEF x
  <2>4. lists'.layers = lists.layers /\ IsLists(lists')
    BY <2>2, <2>3 DEF IsLists
  <2> QED BY <2>1, <2>4, KeptFocus
<1>4. ASSUME EditGlobal PROVE FocusInv'
  <2>1. /\ UNCHANGED <<edit, created, preview, unsaved, layer, prompt>>
        /\ lists' = lists \/ lists' = [lists EXCEPT !.globals = global_entries(edit)]
    BY <1>4 DEF EditGlobal, vars, window
  <2>2. IsLists(lists)
    BY DEF FocusInv
  <2> DEFINE x == global_entries(edit)
  <2> HIDE DEF x
  <2>3. lists' = lists \/ lists' = [layers |-> lists.layers, chords |-> lists.chords,
                                    globals |-> x, warnings |-> lists.warnings]
    BY <2>1, <2>2, ListsExcept DEF x
  <2>4. lists'.layers = lists.layers /\ IsLists(lists')
    BY <2>2, <2>3 DEF IsLists
  <2> QED BY <2>1, <2>4, KeptFocus
<1> QED BY <1>1, <1>2, <1>3, <1>4 DEF FocusNext

\* Where the focus moves to a board of the new document, or to none.
LEMMA RefocusKeeps ==
  ASSUME FocusInv, NEW b, Refocus(b), IsDoc(edit'), b # <<>> => b \in Defined(edit'),
         prompt' = NoPrompt
  PROVE  FocusInv'
<1>1. layer' = b /\ preview' = derive(edit') /\ unsaved' = dirty'
      /\ lists' = [Lists(edit', b) EXCEPT !.globals = lists.globals]
  BY DEF Refocus, Commit
<1> DEFINE l == Lists(edit', b)
           g == lists.globals
<1>2. IsLists(l) /\ l.layers = editable_sections(edit')
  BY ListsAre
<1> HIDE DEF l, g
<1>3. lists' = [layers |-> l.layers, chords |-> l.chords, globals |-> g, warnings |-> l.warnings]
  BY <1>1, <1>2, ListsExcept DEF l, g
<1>4. IsLists(lists') /\ lists'.layers = editable_sections(edit')
  BY <1>2, <1>3 DEF IsLists
<1>5. ToSet(lists'.layers) = Defined(edit')
  BY <1>4, EditableAre
<1> QED BY <1>1, <1>4, <1>5 DEF FocusInv

\* Adding, renaming and removing a layer.
LEMMA LayersKeep ==
  ASSUME FocusInv, LayerNext
  PROVE  FocusInv'
<1>0. IsDoc(edit)
  BY DEF FocusInv
<1>1. ASSUME NEW n \in NewNames, CreateLayer(n) PROVE FocusInv'
  <2> DEFINE e == add_layer(edit, n)
  <2>1. edit' = e /\ n \notin Reserved /\ Refocus(<<n>>) /\ prompt' = NoPrompt
    BY <1>1 DEF CreateLayer, AddLayer, Mutates, CanAdd
  <2> DEFINE p == PlainName(<<n>>)
             k == section_kind(p)
  <2>2. Adds(edit, e, p, k) /\ is_board(k) /\ p.parts = <<n>>
    BY <1>0, <2>1, AddHeads, LayerKind, PlainIsName
  <2> HIDE DEF e, p, k
  <2>3. IsDoc(e) /\ <<n>> \in Defined(e)
    BY <1>0, <2>2, DefinedAdds DEF Adds
  <2> QED BY <2>1, <2>3, RefocusKeeps
<1>2. ASSUME NEW n \in NewNames, Rename(n) PROVE FocusInv'
  <2> DEFINE e == rename_layer(edit, layer[1], n)
  <2>1. edit' = e /\ CanRename(edit, layer[1], n) /\ Refocus(<<n>>) /\ prompt' = NoPrompt
    BY <1>2 DEF Rename, RenameLayer, Mutates
  <2>2. IsDoc(e) /\ <<n>> \in Defined(e)
    BY <1>0, <2>1, RenameHeads
  <2> HIDE DEF e
  <2> QED BY <2>1, <2>2, RefocusKeeps
<1>3. ASSUME AskDelete PROVE FocusInv'
  <2>1. UNCHANGED <<edit, created, preview, unsaved, layer, lists>>
        /\ prompt' = [name |-> layer, refs |-> References(edit, layer)]
    BY <1>3 DEF AskDelete, vars, window
  <2>2. prompt'.name = layer
    BY <2>1
  <2>3. preview' = derive(edit)' /\ unsaved' = dirty'
    BY <2>1 DEF FocusInv, dirty
  <2>4. edit' = edit /\ layer' = layer /\ lists' = lists
    BY <2>1
  <2> QED BY <2>2, <2>3, <2>4 DEF FocusInv
<1>4. ASSUME CancelDelete PROVE FocusInv'
  <2>1. UNCHANGED <<edit, created, preview, unsaved, layer, lists>> /\ prompt' = NoPrompt
    BY <1>4 DEF CancelDelete, vars, window
  <2>2. preview' = derive(edit)' /\ unsaved' = dirty'
    BY <2>1 DEF FocusInv, dirty
  <2>3. edit' = edit /\ layer' = layer /\ lists' = lists
    BY <2>1
  <2> QED BY <2>1, <2>2, <2>3 DEF FocusInv
<1>5. ASSUME ConfirmDelete PROVE FocusInv'
  <2> DEFINE e == remove_layer(edit, prompt.name)
  <2>1. edit' = e /\ Refocus(First(edit')) /\ prompt' = NoPrompt
    BY <1>5 DEF ConfirmDelete, RemoveLayer, Mutates
  <2>2. IsDoc(e)
    BY <1>0, RemoveHeads
  <2> HIDE DEF e
  <2>3. First(edit') # <<>> => First(edit') \in Defined(edit')
    BY <2>1, <2>2, EditableAre
  <2> DEFINE b == First(edit')
  <2>4. Refocus(b) /\ (b # <<>> => b \in Defined(edit')) /\ IsDoc(edit')
    BY <2>1, <2>2, <2>3
  <2> HIDE DEF b
  <2> QED BY <2>1, <2>4, RefocusKeeps
<1> QED BY <1>1, <1>2, <1>3, <1>4, <1>5 DEF LayerNext

\* The callbacks that write a key, a chord or an option.
LEMMA WritesKeep ==
  ASSUME FocusInv, Grows(edit, edit'), Commit, UNCHANGED <<layer, prompt>>,
         NEW x, NEW y,
         \/ lists' = lists
         \/ lists' = [lists EXCEPT !.warnings = y]
         \/ lists' = [lists EXCEPT !.globals = x]
         \/ lists' = [lists EXCEPT !.chords = x, !.warnings = y]
  PROVE  FocusInv'
<1>1. IsLists(lists)
  BY DEF FocusInv
<1> DEFINE a == lists.layers
           m == [lists EXCEPT !.chords = x]
<1>2. \/ lists' = lists
      \/ \E c, g, w : lists' = [layers |-> a, chords |-> c, globals |-> g, warnings |-> w]
  <2>1. CASE lists' = lists
    BY <2>1
  <2>2. CASE lists' = [lists EXCEPT !.warnings = y]
    <3>1. lists' = [layers |-> a, chords |-> lists.chords, globals |-> lists.globals, warnings |-> y]
      BY <1>1, <2>2, ListsExcept
    <3> QED BY <3>1, Zenon
  <2>3. CASE lists' = [lists EXCEPT !.globals = x]
    <3>1. lists' = [layers |-> a, chords |-> lists.chords, globals |-> x, warnings |-> lists.warnings]
      BY <1>1, <2>3, ListsExcept
    <3> QED BY <3>1, Zenon
  <2>4. CASE lists' = [lists EXCEPT !.chords = x, !.warnings = y]
    <3>1. lists' = [m EXCEPT !.warnings = y]
      BY <2>4
    <3>2. m = [layers |-> a, chords |-> x, globals |-> lists.globals, warnings |-> lists.warnings]
      BY <1>1, ListsExcept
    <3> HIDE DEF m
    <3>3. IsLists(m) /\ m.layers = a
      BY <3>2 DEF IsLists
    <3>4. lists' = [layers |-> m.layers, chords |-> m.chords, globals |-> m.globals, warnings |-> y]
      BY <3>1, <3>3, ListsExcept
    <3> QED BY <3>3, <3>4
  <2> QED BY <2>1, <2>2, <2>3, <2>4
<1>3. IsLists(lists') /\ lists'.layers = a
  <2> HIDE DEF a
  <2>1. IsLists(lists) /\ lists.layers = a
    BY <1>1 DEF a
  <2> QED BY <1>2, <2>1 DEF IsLists
<1> QED BY <1>3, KeptFocus

\* The callbacks of the key panel and of the chord and option forms.
LEMMA KeysKeep ==
  ASSUME FocusInv, KeyNext
  PROVE  FocusInv'
<1>0. IsDoc(edit)
  BY DEF FocusInv
<1> DEFINE w == orphan_warnings(edit')
<1>1. ASSUME NEW v, Reseeded(v), Grows(edit, edit') PROVE FocusInv'
  <2>1. lists' = [lists EXCEPT !.warnings = w] /\ Commit /\ UNCHANGED <<layer, prompt>>
    BY <1>1 DEF Reseeded, Warn, Rest
  <2> HIDE DEF w
  <2> QED BY <1>1, <2>1, WritesKeep
<1>2. ASSUME Relabelled, Grows(edit, edit') PROVE FocusInv'
  <2>1. lists' = lists /\ Commit /\ UNCHANGED <<layer, prompt>>
    BY <1>2 DEF Relabelled, Rest
  <2> QED BY <1>2, <2>1, WritesKeep
<1>3. ASSUME UNCHANGED <<vars, layer, lists, prompt, window>> PROVE FocusInv'
  <2>1. UNCHANGED <<edit, created, preview, unsaved, layer, prompt, lists>>
    BY <1>3 DEF vars, window
  <2> QED BY <2>1, KeptFocus DEF FocusInv
<1>4. ASSUME NEW v \in Values, ApplyBinding(v) PROVE FocusInv'
  BY <1>0, <1>1, <1>4, KeyEditsGrow DEF ApplyBinding
<1>5. ASSUME MakeTransparent PROVE FocusInv'
  BY <1>0, <1>1, <1>5, KeyEditsGrow DEF MakeTransparent
<1>6. ASSUME NEW n \in HoldTargets, NEW tap \in Taps, NEW f \in Feels, ApplyTapHold(n, tap, f)
      PROVE  FocusInv'
  BY <1>0, <1>1, <1>6, KeyEditsGrow DEF ApplyTapHold, ReadBack
<1>7. ASSUME NEW kind \in Kinds, NEW n \in Targets, ApplyLayerAction(kind, n) PROVE FocusInv'
  BY <1>0, <1>1, <1>7, KeyEditsGrow DEF ApplyLayerAction, ReadBack
<1>8. ASSUME NEW t \in LabelTexts, LabelKey(t) PROVE FocusInv'
  BY <1>0, <1>2, <1>8, KeyEditsGrow DEF LabelKey
<1>9. ASSUME UnlabelKey PROVE FocusInv'
  BY <1>0, <1>2, <1>9, KeyEditsGrow DEF UnlabelKey
<1>10. ASSUME NEW t \in StepsTyped, MacroAdd(t) PROVE FocusInv'
  BY <1>3, <1>10 DEF MacroAdd
<1>11. ASSUME NEW i \in DOMAIN draft, MacroRemove(i) \/ MacroMove(i) PROVE FocusInv'
  BY <1>3, <1>11 DEF MacroRemove, MacroMove
<1>12. ASSUME NEW r \in Repeats, ApplyMacro(r) PROVE FocusInv'
  <2>1. Grows(edit, edit') /\ lists' = [lists EXCEPT !.warnings = w] /\ Commit
        /\ UNCHANGED <<layer, prompt>>
    BY <1>0, <1>12, KeyEditsGrow DEF ApplyMacro, Warn, Rest
  <2> HIDE DEF w
  <2> QED BY <2>1, WritesKeep
<1> QED BY <1>4, <1>5, <1>6, <1>7, <1>8, <1>9, <1>10, <1>11, <1>12 DEF KeyNext

LEMMA ChordsKeep ==
  ASSUME FocusInv, ChordNext
  PROVE  FocusInv'
<1>0. IsDoc(edit)
  BY DEF FocusInv
<1>1. ASSUME NEW c, Build(c) PROVE FocusInv'
  <2>1. UNCHANGED <<edit, created, preview, unsaved, layer, prompt, lists>>
    BY <1>1 DEF Build, vars, window
  <2> QED BY <2>1, KeptFocus DEF FocusInv
<1>2. ASSUME ChordsCommitted, Grows(edit, edit') PROVE FocusInv'
  <2> DEFINE x == chords(edit', layer)
             y == orphan_warnings(edit')
  <2>1. lists' = [lists EXCEPT !.chords = x, !.warnings = y] /\ Commit /\ UNCHANGED <<layer, prompt>>
    BY <1>2 DEF ChordsCommitted
  <2> HIDE DEF x, y
  <2> QED BY <1>2, <2>1, WritesKeep
<1>3. ASSUME OptionCommitted, Grows(edit, edit') PROVE FocusInv'
  <2> DEFINE x == global_entries(edit')
  <2>1. lists' = [lists EXCEPT !.globals = x] /\ Commit /\ UNCHANGED <<layer, prompt>>
    BY <1>3 DEF OptionCommitted
  <2> HIDE DEF x
  <2> QED BY <1>3, <2>1, WritesKeep
<1>4. ASSUME NEW k \in Members, ToggleMember(k) PROVE FocusInv'
  BY <1>1, <1>4 DEF ToggleMember
<1>5. ASSUME NEW i \in DOMAIN lists.chords, EditChord(lists.chords[i]) PROVE FocusInv'
  BY <1>1, <1>5 DEF EditChord
<1>6. ASSUME NEW i \in DOMAIN lists.chords, RemoveChordRow(lists.chords[i]) PROVE FocusInv'
  BY <1>0, <1>2, <1>6, KeyEditsGrow DEF RemoveChordRow
<1>7. ASSUME ClearKeys PROVE FocusInv'
  BY <1>1, <1>7 DEF ClearKeys
<1>8. ASSUME NEW v \in Values, AddChord(v) PROVE FocusInv'
  <2>1. ChordsCommitted
    BY <1>8 DEF AddChord
  <2> QED BY <1>0, <1>2, <1>8, <2>1, AddChordGrows
<1>9. ASSUME NEW o \in Options, NEW v \in Values, SetOption(o, v) PROVE FocusInv'
  BY <1>0, <1>3, <1>9, KeyEditsGrow DEF SetOption
<1>10. ASSUME NEW o \in Options, ClearOption(o) PROVE FocusInv'
  BY <1>0, <1>3, <1>10, KeyEditsGrow DEF ClearOption
<1> QED BY <1>4, <1>5, <1>6, <1>7, <1>8, <1>9, <1>10 DEF ChordNext

\* A callback of the panel, or none.
LEMMA FocusStep ==
  ASSUME FocusInv, [EditNext]_<<vars, panel>>
  PROVE  FocusInv'
<1>1. CASE EditNext
  BY <1>1, SelectingKeeps, LayersKeep, KeysKeep, ChordsKeep DEF EditNext
<1>2. CASE UNCHANGED <<vars, panel>>
  <2>1. UNCHANGED <<edit, created, preview, unsaved, layer, prompt, lists>>
    BY <1>2 DEF vars, panel, window
  <2> QED BY <2>1, KeptFocus DEF FocusInv
<1> QED BY <1>1, <1>2

-----------------------------------------------------------------------------
(* Reading a file: the lines that run together on disk.                    *)

\* A set of lines that what runs together on disk does not leave.
GlueClosed(X) ==
  /\ \A x \in X, y \in X : Glued(x, y) \in X
  /\ \A x \in X : IsText(x)

\* The lines the editor makes, and what two lines make when no newline divides them.
LEMMA TextsMade ==
  ASSUME NEW c, NEW t, NEW v, NEW n, IsName(n), IsList(n.parts), n.parts # <<>>
  PROVE  IsText(BlankText) /\ IsText(Prose(t)) /\ IsText(LabelText(c, t))
         /\ IsText(BindText(c, v)) /\ IsText(HeadText(n))
<1> DEFINE b == BlankText
           p == Prose(t)
           l == LabelText(c, t)
           m == BindText(c, v)
           h == HeadText(n)
<1>1. /\ b.k = "blank" /\ p.k = "prose" /\ p.text = t
      /\ l.k = "label" /\ l.key = c /\ l.text = t
      /\ m.k = "bind" /\ m.key = c /\ m.val = v
      /\ h.k = "head" /\ h.name = n
  BY DEF BlankText, Prose, LabelText, BindText, HeadText
<1>2. p = Prose(p.text) /\ l = LabelText(l.key, l.text) /\ m = BindText(m.key, m.val)
      /\ h = HeadText(h.name)
  BY <1>1
<1>3. b = BlankText
  OBVIOUS
<1> HIDE DEF b, p, l, m, h
<1>4. IsText(b) /\ IsText(p) /\ IsText(l) /\ IsText(m) /\ IsText(h)
  BY <1>1, <1>2, <1>3 DEF IsText, IsList, ToSet
<1> QED BY <1>4 DEF b, p, l, m, h

LEMMA GluedIs ==
  ASSUME NEW x, NEW y
  PROVE  \/ Glued(x, y) = x
         \/ Glued(x, y) = y
         \/ x.k = "label" /\ Glued(x, y) = LabelText(x.key, "glued")
         \/ Glued(x, y) = Prose("glued")
         \/ Glued(x, y) = BindText(<<"glued">>, NoVal)
<1>1. CASE x.k = "blank" \/ y.k = "blank"
  <2> DEFINE bx == x.k = "blank"
             by == y.k = "blank"
             lx == x.k = "label"
             px == x.k = "prose"
             e3 == LabelText(x.key, "glued")
             e4 == Prose("glued")
             e5 == BindText(<<"glued">>, NoVal)
  <2>1. Glued(x, y) = CASE bx -> y [] by -> x [] lx -> e3 [] px -> e4 [] OTHER -> e5
    BY DEF Glued
  <2>2. lx => ~bx
    OBVIOUS
  <2>3. px => ~bx /\ ~lx
    OBVIOUS
  <2> HIDE DEF bx, by, lx, px, e3, e4, e5
  <2>4. bx \/ by
    BY <1>1 DEF bx, by
  <2>5. Glued(x, y) \in {x, y, e4, e5} \/ (lx /\ Glued(x, y) = e3)
    BY <2>1, <2>2, <2>3, <2>4, Zenon
  <2> QED BY <2>5 DEF lx, e3, e4, e5
<1>2. CASE x.k = "label" /\ y.k # "blank"
  BY <1>2, Zenon DEF Glued
<1>3. CASE x.k = "prose" /\ y.k # "blank"
  BY <1>3, Zenon DEF Glued
<1>4. CASE x.k \notin {"blank", "label", "prose"} /\ y.k # "blank"
  BY <1>4, Zenon DEF Glued
<1> QED BY <1>1, <1>2, <1>3, <1>4

\* What the texts of a file can run into.
GlueOf(T) == T \union {LabelText(t.key, "glued") : t \in {u \in T : u.k = "label"}}
               \union {Prose("glued"), BindText(<<"glued">>, NoVal)}

\* The lines a file can turn into are again lines.
LEMMA GlueCloses ==
  ASSUME NEW T, \A t \in T : IsText(t)
  PROVE  GlueClosed(GlueOf(T)) /\ T \subseteq GlueOf(T)
<1> DEFINE L(c) == LabelText(c, "glued")
           p == Prose("glued")
           b == BindText(<<"glued">>, NoVal)
           M == {L(t.key) : t \in {u \in T : u.k = "label"}}
           X == GlueOf(T)
<1>1. p.k = "prose" /\ b.k = "bind" /\ \A c : L(c).k = "label" /\ L(c).key = c
  BY DEF Prose, BindText, LabelText
<1>2. X = T \union M \union {p, b}
  BY DEF GlueOf
<1>3. IsText(p) /\ IsText(b) /\ \A c : IsText(L(c))
  <2> DEFINE n == PlainName(<<"main">>)
  <2>1. IsName(n) /\ IsList(n.parts) /\ n.parts # <<>>
    BY PlainIsName, PlainList
  <2> HIDE DEF n
  <2> QED BY <2>1, TextsMade
<1>4. \A x, y : \/ Glued(x, y) = x
                \/ Glued(x, y) = y
                \/ x.k = "label" /\ Glued(x, y) = L(x.key)
                \/ Glued(x, y) = p
                \/ Glued(x, y) = b
  BY GluedIs
<1> HIDE DEF X, p, b, L
<1>5. \A x \in X : x.k = "label" => L(x.key) \in X
  <2> SUFFICES ASSUME NEW x \in X, x.k = "label" PROVE L(x.key) \in X
    OBVIOUS
  <2>1. CASE x \in T
    BY <1>2, <2>1
  <2>2. CASE x \in M
    <3>1. PICK t \in T : t.k = "label" /\ x = L(t.key)
      BY <2>2
    <3>2. x.key = t.key
      BY <1>1, <3>1
    <3> QED BY <1>2, <2>2, <3>1, <3>2
  <2> QED BY <1>1, <1>2, <2>1, <2>2
<1>6. \A x \in X : IsText(x)
  BY <1>2, <1>3
<1>7. \A x \in X, y \in X : Glued(x, y) \in X
  <2>1. p \in X /\ b \in X
    BY <1>2
  <2> HIDE DEF M
  <2> QED BY <1>4, <1>5, <2>1
<1> QED BY <1>2, <1>6, <1>7 DEF GlueClosed, X

\* A fold stays in a set its steps stay in.
LEMMA FoldTyped ==
  ASSUME NEW n \in Nat, NEW it, NEW base, NEW o, Unfolds(it, base, o, n),
         NEW D, base \in D,
         \A k \in 1 .. n : it[1 .. k - 1] \in D => o[1 .. k] \in D
  PROVE  it[1 .. n] \in D
<1>1. /\ it[1 .. 0] = base
      /\ \A k \in 1 .. n : it[1 .. k] = o[1 .. k]
  BY FoldAlong
<1> DEFINE N == {k \in Nat : k <= n => it[1 .. k] \in D}
<1>2. 0 \in N
  BY <1>1
<1>3. ASSUME NEW k \in Nat, k \in N PROVE k + 1 \in N
  <2>1. CASE k + 1 <= n
    <3>1. k + 1 \in 1 .. n /\ (k + 1) - 1 = k
      BY <2>1
    <3>2. it[1 .. k] \in D
      BY <1>3, <2>1
    <3>3. it[1 .. k + 1] = o[1 .. k + 1]
      BY <1>1, <3>1
    <3>4. it[1 .. (k + 1) - 1] \in D
      BY <3>1, <3>2
    <3> QED BY <3>1, <3>3, <3>4
  <2> QED BY <2>1
<1>4. n \in N
  <2> HIDE DEF N
  <2> QED BY <1>2, <1>3, NatInSet
<1> QED BY <1>4

\* The lines as the next read finds them.
LEMMA PhysicalIs ==
  ASSUME NEW X, GlueClosed(X), NEW E, NEW D, D = {Line(x, e) : x \in X, e \in E},
         NEW s \in Seq(D)
  PROVE  PhysicalLines(s) \in Seq(D)
<1> DEFINE n == Len(s)
           op(done, l) ==
             IF done # <<>> /\ done[Len(done)].eol = "none"
             THEN [done EXCEPT ![Len(done)] = Line(Glued(@.text, l.text), l.eol)]
             ELSE Append(done, l)
           d == [k \in 1 .. n |-> [done \in Seq(D) |-> op(done, s[k])]]
           Eqn(it) == it = [T \in SUBSET DOMAIN s |->
                              IF T = {} THEN <<>> ELSE op(it[T \ {Top(T)}], s[Top(T)])]
           it == CHOOSE it : Eqn(it)
<1>1. n \in Nat /\ DOMAIN s = 1 .. n
  OBVIOUS
<1>2. PhysicalLines(s) = it[DOMAIN s]
  BY DEF PhysicalLines, FoldLeft, MapThenFoldSet, Max, Top
<1>a. \A l \in D : l.text \in X /\ l.eol \in E
  BY DEF Line
<1>b. ASSUME NEW done \in Seq(D), NEW l \in D PROVE op(done, l) \in Seq(D)
  <2>1. CASE done # <<>> /\ done[Len(done)].eol = "none"
    <3> DEFINE m == Line(Glued(done[Len(done)].text, l.text), l.eol)
    <3>1. done[Len(done)] \in D
      BY <2>1
    <3>2. m \in D
      <4>1. Glued(done[Len(done)].text, l.text) \in X
        BY <1>a, <3>1 DEF GlueClosed
      <4> QED BY <1>a, <4>1
    <3>3. op(done, l) = [done EXCEPT ![Len(done)] = m]
      BY <2>1
    <3> HIDE DEF m, op
    <3>4. Len(done) \in 1 .. Len(done)
      BY <2>1
    <3> QED BY <3>2, <3>3, <3>4, ExceptSeq
  <2>2. CASE ~(done # <<>> /\ done[Len(done)].eol = "none")
    BY <2>2
  <2> QED BY <2>1, <2>2
<1> HIDE DEF op
<1>3. \E jt : Eqn(jt)
  <2>1. d \in [1 .. n -> [Seq(D) -> Seq(D)]]
    <3> HIDE DEF n
    <3>1. \A k \in 1 .. n : s[k] \in D
      BY <1>1
    <3> QED BY <1>b, <3>1
  <2>2. <<>> \in Seq(D)
    OBVIOUS
  <2>3. PICK jt : FoldOf(jt, Seq(D), <<>>, d, n)
    <3> HIDE DEF d, n
    <3> QED BY <2>1, <2>2, <1>1, FoldExists
  <2>4. ASSUME NEW T \in SUBSET (1 .. n), T # {}
        PROVE  d[Top(T)][jt[T \ {Top(T)}]] = op(jt[T \ {Top(T)}], s[Top(T)])
    <3>1. Top(T) \in 1 .. n /\ T \ {Top(T)} \in SUBSET (1 .. n)
      BY <2>4, TopIn, <1>1
    <3>2. jt[T \ {Top(T)}] \in Seq(D)
      <4> HIDE DEF d, n
      <4> QED BY <3>1, <2>3 DEF FoldOf
    <3> HIDE DEF n
    <3> QED BY <3>1, <3>2
  <2>5. jt = [T \in SUBSET (1 .. n) |->
                IF T = {} THEN <<>> ELSE op(jt[T \ {Top(T)}], s[Top(T)])]
    <3> HIDE DEF d, n
    <3> QED BY <2>3, <2>4 DEF FoldOf
  <2> QED BY <2>5, <1>1
<1>4. Eqn(it)
  <2> HIDE DEF Eqn
  <2> QED BY <1>3
<1> DEFINE o == [T \in SUBSET (1 .. n) |-> op(it[T \ {Top(T)}], s[Top(T)])]
<1>5. Unfolds(it, <<>>, o, n)
  <2> HIDE DEF it
  <2> QED BY <1>4, <1>1 DEF Unfolds
<1>6. \A k \in 1 .. n : it[1 .. k - 1] \in Seq(D) => o[1 .. k] \in Seq(D)
  <2>1. \A k \in 1 .. n : /\ Top(1 .. k) = k /\ (1 .. k) \ {Top(1 .. k)} = 1 .. k - 1
    <3> HIDE DEF it, o, n
    <3> QED BY <1>1, <1>5, FoldAlong
  <2>2. \A k \in 1 .. n : 1 .. k \in SUBSET (1 .. n)
    OBVIOUS
  <2>3. \A k \in 1 .. n : o[1 .. k] = op(it[1 .. k - 1], s[k])
    <3> HIDE DEF it, n
    <3> QED BY <2>1, <2>2
  <2>4. \A k \in 1 .. n : s[k] \in D
    BY <1>1
  <2> HIDE DEF it, o, n
  <2> QED BY <1>b, <2>3, <2>4
<1>7. it[1 .. n] \in Seq(D)
  <2> DEFINE z == <<>>
             Q == Seq(D)
  <2>1. z \in Q
    OBVIOUS
  <2> HIDE DEF it, o, n, Q, z
  <2>2. Unfolds(it, z, o, n) /\ \A k \in 1 .. n : it[1 .. k - 1] \in Q => o[1 .. k] \in Q
    BY <1>5, <1>6 DEF z, Q
  <2>3. it[1 .. n] \in Q
    BY <1>1, <2>1, <2>2, FoldTyped
  <2> QED BY <2>3 DEF Q
<1> QED BY <1>1, <1>2, <1>7

-----------------------------------------------------------------------------
(* Reading a file: the document made of the lines.                         *)

\* What parse makes of lines with texts in X and terminators in E.
EntriesOf(X, E) == {Entry(x, e) : x \in {t \in X : t.k # "head"}, e \in E}
SectionsOf(X, E) ==
  {s \in [name : {t.name : t \in {u \in X : u.k = "head"}},
          kind : {section_kind(t.name) : t \in {u \in X : u.k = "head"}},
          head : E, ents : Seq(EntriesOf(X, E)), dirty : {FALSE}] : s.kind = section_kind(s.name)}
DocsOf(X, E) ==
  [pre : Seq(EntriesOf(X, E)), secs : Seq(SectionsOf(X, E)), dirty : {FALSE}]

\* A part of a document replaced.
LEMMA DocSecs ==
  ASSUME NEW P, NEW S, NEW c \in [pre : Seq(P), secs : Seq(S), dirty : {FALSE}],
         NEW x \in Seq(S), NEW v, v = [c EXCEPT !.secs = x]
  PROVE  v \in [pre : Seq(P), secs : Seq(S), dirty : {FALSE}]
  OBVIOUS

LEMMA DocPre ==
  ASSUME NEW P, NEW S, NEW c \in [pre : Seq(P), secs : Seq(S), dirty : {FALSE}],
         NEW x \in Seq(P), NEW v, v = [c EXCEPT !.pre = x]
  PROVE  v \in [pre : Seq(P), secs : Seq(S), dirty : {FALSE}]
  OBVIOUS

LEMMA SectionGains ==
  ASSUME NEW N, NEW K, NEW E, NEW P, NEW a \in Seq(P),
         NEW r \in [name : N, kind : K, head : E, ents : Seq(P), dirty : {FALSE}]
  PROVE  LET t == [r EXCEPT !.ents = a]
         IN  t \in [name : N, kind : K, head : E, ents : Seq(P), dirty : {FALSE}]
             /\ t.kind = r.kind /\ t.name = r.name
  OBVIOUS

\* Each line begins a section, or goes to the last one or before the first.
LEMMA ParseSteps ==
  ASSUME NEW X, NEW E, NEW D, D = {Line(x, e) : x \in X, e \in E}, NEW bytes,
         PhysicalLines(bytes) \in Seq(D)
  PROVE  parse(bytes) \in DocsOf(X, E)
<1> DEFINE s == PhysicalLines(bytes)
           n == Len(s)
           Q == DocsOf(X, E)
           op(d, l) ==
             IF l.text.k = "head"
             THEN [d EXCEPT !.secs = Append(@, NewSection(l.text.name,
                                                 section_kind(l.text.name), l.eol))]
             ELSE IF d.secs = <<>> THEN [d EXCEPT !.pre = Append(@, Entry(l.text, l.eol))]
             ELSE [d EXCEPT !.secs[Len(d.secs)].ents = Append(@, Entry(l.text, l.eol))]
           d == [k \in 1 .. n |-> [done \in Q |-> op(done, s[k])]]
           Eqn(it) == it = [T \in SUBSET DOMAIN s |->
                              IF T = {} THEN EmptyDoc ELSE op(it[T \ {Top(T)}], s[Top(T)])]
           it == CHOOSE it : Eqn(it)
<1>2. parse(bytes) = it[DOMAIN s]
  BY DEF parse, FoldLeft, MapThenFoldSet, Max, Top
<1> HIDE DEF s
<1>1. n \in Nat /\ DOMAIN s = 1 .. n /\ s \in Seq(D)
  BY DEF s
<1>a. \A l \in D : l.text \in X /\ l.eol \in E
  BY DEF Line
<1> DEFINE En == EntriesOf(X, E)
           Se == SectionsOf(X, E)
<1>b. ASSUME NEW c \in Q, NEW l \in D PROVE op(c, l) \in Q
  <2>0. c \in [pre : Seq(En), secs : Seq(Se), dirty : {FALSE}]
    BY DEF DocsOf
  <2>1. CASE l.text.k = "head"
    <3> DEFINE w == NewSection(l.text.name, section_kind(l.text.name), l.eol)
    <3>1. w \in Se
      <4> DEFINE m == l.text.name
                 k == section_kind(m)
                 e == l.eol
                 z == <<>>
                 Ns == {t.name : t \in {u \in X : u.k = "head"}}
                 Ks == {section_kind(t.name) : t \in {u \in X : u.k = "head"}}
      <4>1. w = [name |-> m, kind |-> k, head |-> e, ents |-> z, dirty |-> FALSE]
        BY DEF NewSection
      <4>2. m \in Ns /\ k \in Ks /\ e \in E
        BY <1>a, <2>1
      <4>3. z \in Seq(En)
        OBVIOUS
      <4> HIDE DEF m, e, z, Ns, Ks, w, En
      <4>4. w \in [name : Ns, kind : Ks, head : E, ents : Seq(En), dirty : {FALSE}]
            /\ w.kind = k /\ w.name = m
        <5> HIDE DEF k
        <5> QED BY <4>1, <4>2, <4>3
      <4> QED BY <4>4 DEF SectionsOf, En, Ns, Ks, m
    <3>2. op(c, l) = [c EXCEPT !.secs = Append(@, w)]
      BY <2>1
    <3> HIDE DEF w, op, En, Se
    <3>3. op(c, l) \in [pre : Seq(En), secs : Seq(Se), dirty : {FALSE}]
      <4> DEFINE a == Append(c.secs, w)
                 v == op(c, l)
      <4>1. a \in Seq(Se)
        BY <2>0, <3>1
      <4>2. v = [c EXCEPT !.secs = a]
        BY <3>2
      <4> HIDE DEF a, v
      <4>3. v \in [pre : Seq(En), secs : Seq(Se), dirty : {FALSE}]
        BY <2>0, <4>1, <4>2, DocSecs
      <4> QED BY <4>3 DEF v
    <3> QED BY <3>3 DEF DocsOf, En, Se
  <2>2. CASE l.text.k # "head" /\ c.secs = <<>>
    <3> DEFINE w == Entry(l.text, l.eol)
    <3>1. w \in En
      BY <1>a, <2>2 DEF EntriesOf
    <3>2. op(c, l) = [c EXCEPT !.pre = Append(@, w)]
      BY <2>2
    <3> HIDE DEF w, op, En, Se
    <3>3. op(c, l) \in [pre : Seq(En), secs : Seq(Se), dirty : {FALSE}]
      <4> DEFINE a == Append(c.pre, w)
                 v == op(c, l)
      <4>1. a \in Seq(En)
        BY <2>0, <3>1
      <4>2. v = [c EXCEPT !.pre = a]
        BY <3>2
      <4> HIDE DEF a, v
      <4>3. v \in [pre : Seq(En), secs : Seq(Se), dirty : {FALSE}]
        BY <2>0, <4>1, <4>2, DocPre
      <4> QED BY <4>3 DEF v
    <3> QED BY <3>3 DEF DocsOf, En, Se
  <2>3. CASE l.text.k # "head" /\ c.secs # <<>>
    <3> DEFINE w == Entry(l.text, l.eol)
               j == Len(c.secs)
               r == c.secs[j]
               t == [r EXCEPT !.ents = Append(r.ents, w)]
               x == [c.secs EXCEPT ![j] = t]
    <3>1. w \in En
      BY <1>a, <2>3 DEF EntriesOf
    <3>2. op(c, l) = [c EXCEPT !.secs = x]
      BY <2>3
    <3>3. c.secs \in Seq(Se) /\ j \in 1 .. Len(c.secs)
      <4> HIDE DEF En, Se
      <4> QED BY <2>0, <2>3
    <3>4. r \in Se
      <4> HIDE DEF Se
      <4> QED BY <3>3
    <3>5. t \in Se
      <4> DEFINE Ns == {u.name : u \in {v \in X : v.k = "head"}}
                 Ks == {section_kind(u.name) : u \in {v \in X : v.k = "head"}}
                 a == Append(r.ents, w)
      <4>1. r \in [name : Ns, kind : Ks, head : E, ents : Seq(En), dirty : {FALSE}]
            /\ r.kind = section_kind(r.name)
        BY <3>4 DEF SectionsOf
      <4> HIDE DEF r, w, Ns, Ks, En
      <4>2. a \in Seq(En)
        BY <3>1, <4>1
      <4> HIDE DEF a
      <4>3. t \in [name : Ns, kind : Ks, head : E, ents : Seq(En), dirty : {FALSE}]
            /\ t.kind = r.kind /\ t.name = r.name
        <5>1. t = [r EXCEPT !.ents = a]
          BY DEF a
        <5> HIDE DEF t
        <5> QED BY <4>1, <4>2, <5>1, SectionGains, Zenon
      <4> HIDE DEF t
      <4> QED BY <4>1, <4>3 DEF SectionsOf, Ns, Ks, En
    <3> HIDE DEF t, j, op, En, Se
    <3>6. x \in Seq(Se)
      BY <3>3, <3>5, ExceptSeq
    <3> HIDE DEF x
    <3>7. op(c, l) \in [pre : Seq(En), secs : Seq(Se), dirty : {FALSE}]
      BY <2>0, <3>2, <3>6
    <3> QED BY <3>7 DEF DocsOf, En, Se
  <2> HIDE DEF op, Q
  <2> QED BY <2>1, <2>2, <2>3
<1> HIDE DEF op
<1>c. EmptyDoc \in Q
  BY DEF EmptyDoc, DocsOf
<1> HIDE DEF Q
<1>3. \E jt : Eqn(jt)
  <2>1. d \in [1 .. n -> [Q -> Q]]
    <3> HIDE DEF n
    <3>1. \A k \in 1 .. n : s[k] \in D
      BY <1>1
    <3> QED BY <1>b, <3>1
  <2>3. PICK jt : FoldOf(jt, Q, EmptyDoc, d, n)
    <3> HIDE DEF d, n
    <3> QED BY <2>1, <1>1, <1>c, FoldExists
  <2>4. ASSUME NEW T \in SUBSET (1 .. n), T # {}
        PROVE  d[Top(T)][jt[T \ {Top(T)}]] = op(jt[T \ {Top(T)}], s[Top(T)])
    <3>1. Top(T) \in 1 .. n /\ T \ {Top(T)} \in SUBSET (1 .. n)
      BY <2>4, TopIn, <1>1
    <3>2. jt[T \ {Top(T)}] \in Q
      <4> HIDE DEF d, n
      <4> QED BY <3>1, <2>3 DEF FoldOf
    <3> HIDE DEF n
    <3> QED BY <3>1, <3>2
  <2>5. jt = [T \in SUBSET (1 .. n) |->
                IF T = {} THEN EmptyDoc ELSE op(jt[T \ {Top(T)}], s[Top(T)])]
    <3> HIDE DEF d, n
    <3> QED BY <2>3, <2>4 DEF FoldOf
  <2> QED BY <2>5, <1>1
<1>4. Eqn(it)
  <2> HIDE DEF Eqn
  <2> QED BY <1>3
<1> DEFINE o == [T \in SUBSET (1 .. n) |-> op(it[T \ {Top(T)}], s[Top(T)])]
<1>5. Unfolds(it, EmptyDoc, o, n)
  <2> HIDE DEF it
  <2> QED BY <1>4, <1>1 DEF Unfolds
<1>6. \A k \in 1 .. n : it[1 .. k - 1] \in Q => o[1 .. k] \in Q
  <2>1. \A k \in 1 .. n : /\ Top(1 .. k) = k /\ (1 .. k) \ {Top(1 .. k)} = 1 .. k - 1
    <3> HIDE DEF it, o, n
    <3> QED BY <1>1, <1>5, FoldAlong
  <2>2. \A k \in 1 .. n : 1 .. k \in SUBSET (1 .. n)
    OBVIOUS
  <2>3. \A k \in 1 .. n : o[1 .. k] = op(it[1 .. k - 1], s[k])
    <3> HIDE DEF it, n
    <3> QED BY <2>1, <2>2
  <2>4. \A k \in 1 .. n : s[k] \in D
    BY <1>1
  <2> HIDE DEF it, o, n
  <2> QED BY <1>b, <2>3, <2>4
<1>7. it[1 .. n] \in Q
  <2> HIDE DEF it, o, n
  <2> QED BY <1>1, <1>c, <1>5, <1>6, FoldTyped
<1> QED BY <1>1, <1>2, <1>7 DEF Q

\* What parse makes of a file.
LEMMA ParseIs ==
  ASSUME NEW f, IsFile(f)
  PROVE  /\ IsDoc(parse(f))
         /\ \A i \in DOMAIN parse(f).secs : parse(f).secs[i].kind = section_kind(parse(f).secs[i].name)
         /\ \E X, E : parse(f) \in DocsOf(X, E) /\ \A x \in X : IsText(x)
<1> DEFINE T == {l.text : l \in ToSet(f)}
           E == {l.eol : l \in ToSet(f)}
           X == GlueOf(T)
           D == {Line(x, e) : x \in X, e \in E}
           p == parse(f)
<1>1. \A t \in T : IsText(t)
  BY DEF IsFile
<1>2. GlueClosed(X) /\ T \subseteq X
  BY <1>1, GlueCloses
<1>3. ToSet(f) \subseteq D
  <2>0. ASSUME NEW l \in ToSet(f) PROVE l \in D
   <3>1. l = Line(l.text, l.eol)
     BY DEF IsFile, Line
   <3>2. l.text \in X /\ l.eol \in E
     BY <1>2
   <3> HIDE DEF X, E
   <3> QED BY <3>1, <3>2
  <2> HIDE DEF D
  <2> QED BY <2>0
<1>4. f \in Seq(D)
  <2>1. f \in Seq(ToSet(f))
    BY DEF IsFile
  <2> HIDE DEF D
  <2> QED BY <1>3, <2>1
<1> HIDE DEF X, E
<1>5. p \in DocsOf(X, E)
  <2>1. PhysicalLines(f) \in Seq(D)
    <3> DEFINE Q == D
    <3>1. Q = {Line(x, e) : x \in X, e \in E} /\ f \in Seq(Q)
      BY <1>4
    <3> HIDE DEF D, Q
    <3>2. PhysicalLines(f) \in Seq(Q)
      BY <1>2, <3>1, PhysicalIs
    <3> QED BY <3>2 DEF Q
  <2> QED BY <2>1, ParseSteps
<1> HIDE DEF p
<1>6. p = [pre |-> p.pre, secs |-> p.secs, dirty |-> p.dirty] /\ p.secs \in Seq(SectionsOf(X, E))
  BY <1>5 DEF DocsOf
<1>7. \A s \in SectionsOf(X, E) : IsSection(s) /\ s.kind = section_kind(s.name)
  <2> SUFFICES ASSUME NEW s \in SectionsOf(X, E) PROVE IsSection(s) /\ s.kind = section_kind(s.name)
    OBVIOUS
  <2>1. s = [name |-> s.name, kind |-> s.kind, head |-> s.head, ents |-> s.ents, dirty |-> s.dirty]
        /\ s.name \in {t.name : t \in {u \in X : u.k = "head"}}
        /\ s.kind = section_kind(s.name)
    BY DEF SectionsOf
  <2>2. IsName(s.name)
    <3>1. PICK t \in X : t.k = "head" /\ s.name = t.name
      BY <2>1
    <3> QED BY <1>2, <3>1 DEF GlueClosed, IsText
  <2> QED BY <2>1, <2>2 DEF IsSection
<1>8. IsList(p.secs) /\ \A i \in DOMAIN p.secs : p.secs[i] \in SectionsOf(X, E)
  BY <1>6, ListOfSeq
<1> QED BY <1>2, <1>5, <1>6, <1>7, <1>8 DEF IsDoc, p, GlueClosed

-----------------------------------------------------------------------------
(* The theorem.                                                            *)

\* What a new config starts as, and what edit mode opens on.
LEMMA StarterIsFile == IsFile(starter_config(Ids))
<1>0. DOMAIN Ids = 1 .. Len(Ids) /\ Len(Ids) \in Nat
  <2>1. Ids \in Seq(STRING)
    BY SessionAssumption
  <2> QED BY <2>1
<1> DEFINE h1 == Line(HeadText(PlainName(<<"ids">>)), "lf")
           h2 == Line(HeadText(PlainName(Main)), "lf")
           bl == Line(BlankText, "lf")
           ml == [i \in DOMAIN Ids |-> Line(BindText(<<Ids[i]>>, NoVal), "lf")]
           L  == {l \in ToSet(starter_config(Ids)) \union {h1, h2, bl} \union {ml[i] : i \in DOMAIN Ids} :
                    l = [text |-> l.text, eol |-> l.eol] /\ IsText(l.text)}
           f  == <<h1>> \o ml \o <<bl, h2>>
<1>1. starter_config(Ids) = f
  BY DEF starter_config
<1>2. \A t : IsText(t) => LET l == Line(t, "lf")
                         IN  l = [text |-> l.text, eol |-> l.eol] /\ IsText(l.text)
  BY DEF Line
<1>3. h1 \in L /\ h2 \in L /\ bl \in L
  <2>1. IsName(PlainName(<<"ids">>)) /\ IsName(PlainName(Main))
    BY PlainIsName
  <2>4. /\ IsList(PlainName(<<"ids">>).parts) /\ IsList(PlainName(Main).parts)
        /\ PlainName(<<"ids">>).parts # <<>> /\ PlainName(Main).parts # <<>>
    BY PlainList DEF Main
  <2>2. IsText(HeadText(PlainName(<<"ids">>))) /\ IsText(HeadText(PlainName(Main))) /\ IsText(BlankText)
    BY <2>1, <2>4, TextsMade
  <2>3. \A l \in {h1, h2, bl} : l = [text |-> l.text, eol |-> l.eol] /\ IsText(l.text)
    BY <1>2, <2>2
  <2> HIDE DEF h1, h2, bl
  <2> QED BY <2>3
<1>4. \A i \in DOMAIN Ids : ml[i] \in L
  <2>1. \A c : IsText(BindText(c, NoVal))
    <3>1. IsName(PlainName(Main)) /\ IsList(PlainName(Main).parts) /\ PlainName(Main).parts # <<>>
      BY PlainIsName, PlainList DEF Main
    <3> QED BY <3>1, TextsMade
  <2>2. \A i \in DOMAIN Ids : ml[i] = [text |-> ml[i].text, eol |-> ml[i].eol] /\ IsText(ml[i].text)
    BY <1>2, <2>1
  <2> HIDE DEF ml
  <2> QED BY <2>2
<1>5. ml \in Seq(L)
  <2>1. DOMAIN Ids = 1 .. Len(Ids) /\ Len(Ids) \in Nat
    BY <1>0
  <2>2. DOMAIN ml = 1 .. Len(Ids) /\ ml = [i \in 1 .. Len(Ids) |-> ml[i]]
    BY <2>1
  <2> HIDE DEF ml, L
  <2> QED BY <1>4, <2>1, <2>2
<1> DEFINE u == <<h1>>
           w == <<bl, h2>>
<1>6. u \in Seq(L) /\ w \in Seq(L)
  <2> HIDE DEF L, h1, h2, bl
  <2> QED BY <1>3
<1>7. f \in Seq(L)
  <2>1. f = u \o ml \o w
    OBVIOUS
  <2> HIDE DEF L, u, ml, w, f
  <2> QED BY <1>5, <1>6, <2>1
<1> HIDE DEF L
<1>8. f \in Seq(ToSet(f)) /\ ToSet(f) \subseteq L
  <2> HIDE DEF f
  <2> QED BY <1>7 DEF ToSet
<1>9. \A l \in L : l = [text |-> l.text, eol |-> l.eol] /\ IsText(l.text)
  BY DEF L
<1> HIDE DEF f
<1> QED BY <1>1, <1>8, <1>9 DEF IsFile

LEMMA FocusInit == EnterInit => FocusInv
<1> SUFFICES ASSUME EnterInit PROVE FocusInv
  OBVIOUS
<1>1. IsDoc(edit)
  <2>1. \E f : IsFile(f) /\ edit = parse(f)
    BY StarterIsFile, SessionAssumption DEF EnterInit, Init
  <2> QED BY <2>1, ParseIs
<1>2. /\ ToSet(editable_sections(edit)) = Defined(edit)
      /\ First(edit) = <<>> \/ First(edit) \in Defined(edit)
  BY <1>1, EditableAre
<1>3. /\ layer = (IF First(edit) = <<>> THEN Main ELSE First(edit))
      /\ lists = Lists(edit, layer) /\ prompt = NoPrompt
      /\ preview = derive(edit) /\ unsaved = dirty
  BY DEF EnterInit
<1>4. IsLists(lists) /\ lists.layers = editable_sections(edit)
  BY <1>3, ListsAre
<1> QED BY <1>1, <1>2, <1>3, <1>4 DEF FocusInv

\* The panel's focus is real: the layer it edits, and the layer a rename or delete is being
\* asked about, are layers of the document (or [main]), whatever the file, the keys and the
\* edits, for every order of the callbacks of main.rs.
THEOREM FocusHolds == PanelSpec => []FocusIsReal
<1>1. FocusInv => FocusIsReal
  BY DefinedHas DEF FocusInv, FocusIsReal
<1> QED BY <1>1, FocusInit, FocusStep, PTL DEF PanelSpec

-----------------------------------------------------------------------------
(* Lists: the last of some positions, Among, FlattenSeq.                   *)

\* The last and the first of some positions.
LEMMA MaxIs ==
  ASSUME NEW n \in Nat, NEW I \in SUBSET (1 .. n), I # {}
  PROVE  Max(I) \in I /\ \A j \in I : j <= Max(I)
<1>1. Max(I) = Top(I)
  BY DEF Max, Top
<1>2. Top(I) \in I
  BY TopIn
<1>3. \E x \in I : \A y \in I : x >= y
  <2> DEFINE Has(m) == \A R \in SUBSET (1 .. m) : R # {} => \E x \in R : \A y \in R : x >= y
             N == {m \in Nat : Has(m)}
  <2>1. Has(0)
    <3>1. 1 .. 0 = {}
      OBVIOUS
    <3> QED BY <3>1, Zenon
  <2>2. ASSUME NEW m \in Nat, Has(m) PROVE Has(m + 1)
    <3> SUFFICES ASSUME NEW R \in SUBSET (1 .. m + 1), R # {}
                 PROVE  \E x \in R : \A y \in R : x >= y
      OBVIOUS
    <3>1. CASE m + 1 \in R
      <4>1. \A y \in R : m + 1 >= y
        OBVIOUS
      <4> QED BY <3>1, <4>1
    <3>2. CASE m + 1 \notin R
      <4>1. R \in SUBSET (1 .. m)
        BY <3>2, TopOfInterval
      <4> QED BY <4>1, <2>2
    <3> QED BY <3>1, <3>2
  <2>3. \A m \in Nat : m \in N
    <3>1. 0 \in N /\ \A m \in Nat : m \in N => m + 1 \in N
      <4> HIDE DEF Has
      <4> QED BY <2>1, <2>2
    <3> HIDE DEF N
    <3> QED BY <3>1, NatInSet
  <2> QED BY <2>3
<1>4. \A y \in I : Top(I) >= y
  BY <1>3 DEF Top
<1> QED BY <1>1, <1>2, <1>4

LEMMA MinIs ==
  ASSUME NEW I \in SUBSET Nat, I # {}
  PROVE  Min(I) \in I
<1>1. PICK m \in I : \A k \in I : <<k, m>> \notin OpToRel(<, Nat)
  BY WFMin, NatLessThanWellFounded, Zenon
<1>2. \A k \in I : ~(k < m)
  BY <1>1, Zenon DEF OpToRel
<1>3. \A k \in I : m <= k
  BY <1>2
<1> QED BY <1>3 DEF Min

\* What is selected from two lists that differ only where neither is selected.
LEMMA AmongSame ==
  ASSUME NEW L, NEW s \in Seq(L), NEW t \in Seq(L), Len(s) = Len(t), NEW S, NEW T,
         \A k \in 1 .. Len(s) :
           \/ s[k] = t[k] /\ (s[k] \in S <=> t[k] \in T)
           \/ s[k] \notin S /\ t[k] \notin T
  PROVE  Among(s, S) = Among(t, T)
<1>1. PICK g : /\ g[0] = <<>>
               /\ \A k \in 1 .. Len(s) :
                    g[k] = IF s[k] \in S THEN Append(g[k - 1], s[k]) ELSE g[k - 1]
               /\ Among(s, S) = g[Len(s)]
  BY AmongSteps
<1>2. PICK h : /\ h[0] = <<>>
               /\ \A k \in 1 .. Len(t) :
                    h[k] = IF t[k] \in T THEN Append(h[k - 1], t[k]) ELSE h[k - 1]
               /\ Among(t, T) = h[Len(t)]
  BY AmongSteps
<1>3. Len(s) \in Nat
  OBVIOUS
<1>4. \A k \in 1 .. Len(s) : g[k - 1] = h[k - 1] => g[k] = h[k]
  BY <1>1, <1>2
<1>5. g[Len(s)] = h[Len(s)]
  BY <1>1, <1>2, <1>3, <1>4, StepsAgree
<1> QED BY <1>1, <1>2, <1>5

\* A selection from two lists put together.
LEMMA AmongConcat ==
  ASSUME NEW L, NEW s \in Seq(L), NEW t \in Seq(L), NEW S
  PROVE  Among(s \o t, S) = Among(s, S) \o Among(t, S)
<1> DEFINE T == {u \in Seq(L) : Among(s \o u, S) = Among(s, S) \o Among(u, S)}
<1>0. Among(s, S) \in Seq(L)
  BY AmongIs
<1>1. <<>> \in T
  <2> DEFINE z == <<>>
  <2>1. z \in Seq(L) /\ s \o z = s /\ Among(s, S) \o z = Among(s, S)
    BY <1>0
  <2>2. Among(z, S) = z
    BY AmongEmpty
  <2> HIDE DEF z
  <2>3. z \in T
    BY <2>1, <2>2
  <2> QED BY <2>3 DEF z
<1>2. ASSUME NEW u \in Seq(L), NEW x \in L, u \in T PROVE Append(u, x) \in T
  <2> DEFINE v == s \o u
             w == Among(u, S)
  <2>1. v \in Seq(L) /\ s \o Append(u, x) = Append(v, x) /\ Append(u, x) \in Seq(L)
    OBVIOUS
  <2>2. w \in Seq(L)
    BY AmongIs
  <2>3. Among(v, S) = Among(s, S) \o w
    BY <1>2
  <2> HIDE DEF v
  <2>4. Among(Append(v, x), S) = IF x \in S THEN Append(Among(v, S), x) ELSE Among(v, S)
    BY <2>1, AmongAppend
  <2>5. Among(Append(u, x), S) = IF x \in S THEN Append(w, x) ELSE w
    BY AmongAppend
  <2> HIDE DEF w
  <2>6. Append(Among(s, S) \o w, x) = Among(s, S) \o Append(w, x)
    <3> DEFINE a == Among(s, S)
    <3>1. a \in Seq(L) /\ w \in Seq(L) /\ x \in L
      BY <1>0, <1>2, <2>2
    <3> HIDE DEF a, T
    <3> DEFINE b == Append(a \o w, x)
               c == a \o Append(w, x)
    <3>11. /\ a \o w \in Seq(L) /\ Append(w, x) \in Seq(L)
           /\ Len(a \o w) = Len(a) + Len(w) /\ Len(Append(w, x)) = Len(w) + 1
      BY <3>1
    <3>12. b \in Seq(L) /\ c \in Seq(L) /\ Len(b) = Len(a) + Len(w) + 1 /\ Len(c) = Len(b)
      BY <3>1, <3>11
    <3>13. \A i \in 1 .. Len(b) : b[i] = c[i]
      BY <3>1, <3>11, <3>12
    <3>2. b \in Seq(L) /\ c \in Seq(L) /\ Len(b) = Len(c) /\ \A i \in 1 .. Len(b) : b[i] = c[i]
      BY <3>12, <3>13
    <3>3. b = c
      <4> HIDE DEF b, c
      <4> QED BY <3>2, SeqEqual
    <3> QED BY <3>3 DEF a
  <2> QED BY <2>1, <2>3, <2>4, <2>5, <2>6
<1>3. \A u \in Seq(L) : u \in T
  <2> HIDE DEF T
  <2> QED BY <1>1, <1>2, SeqInSet
<1> QED BY <1>3

-----------------------------------------------------------------------------

\* Lists put together, one at a time.
LEMMA FlattenSteps ==
  ASSUME NEW L, NEW ss \in Seq(Seq(L))
  PROVE  \E h : /\ h[0] = <<>>
                /\ \A k \in 1 .. Len(ss) : h[k] = h[k - 1] \o ss[k] /\ h[k] \in Seq(L)
                /\ FlattenSeq(ss) = h[Len(ss)]
<1> DEFINE n == Len(ss)
           d == [k \in 1 .. n |-> [x \in Seq(L) |-> x \o ss[k]]]
<1>1. n \in Nat /\ DOMAIN ss = 1 .. n /\ (n = 0 => ss = <<>>) /\ \A k \in 1 .. n : ss[k] \in Seq(L)
  OBVIOUS
<1>2. d \in [1 .. n -> [Seq(L) -> Seq(L)]] /\ <<>> \in Seq(L)
  OBVIOUS
<1>3. PICK it : FoldOf(it, Seq(L), <<>>, d, n)
  <2> HIDE DEF d, n
  <2> QED BY <1>1, <1>2, FoldExists
<1> DEFINE h == [k \in 0 .. n |-> it[1 .. k]]
<1>4. /\ it[1 .. 0] = <<>>
      /\ \A k \in 1 .. n : it[1 .. k] = it[1 .. k - 1] \o ss[k] /\ it[1 .. k] \in Seq(L)
  <2> DEFINE o == [T \in SUBSET (1 .. n) |-> d[Top(T)][it[T \ {Top(T)}]]]
  <2>1. Unfolds(it, <<>>, o, n)
    <3> HIDE DEF d, n
    <3> QED BY <1>3 DEF Unfolds, FoldOf
  <2>2. /\ it[1 .. 0] = <<>>
        /\ \A k \in 1 .. n : /\ it[1 .. k] = o[1 .. k]
                             /\ Top(1 .. k) = k
                             /\ (1 .. k) \ {Top(1 .. k)} = 1 .. k - 1
    <3> HIDE DEF o, n
    <3> QED BY <2>1, <1>1, FoldAlong
  <2>3. \A k \in 0 .. n : 1 .. k \in SUBSET (1 .. n)
    OBVIOUS
  <2>4. \A T \in SUBSET (1 .. n) : it[T] \in Seq(L)
    <3> HIDE DEF d, n
    <3> QED BY <1>3 DEF FoldOf
  <2>5. ASSUME NEW k \in 1 .. n
        PROVE  it[1 .. k] = it[1 .. k - 1] \o ss[k] /\ it[1 .. k] \in Seq(L)
    <3>1. /\ 1 .. k \in SUBSET (1 .. n) /\ 1 .. k - 1 \in SUBSET (1 .. n)
          /\ it[1 .. k - 1] \in Seq(L) /\ it[1 .. k] \in Seq(L)
      BY <2>3, <2>4
    <3>2. o[1 .. k] = d[k][it[1 .. k - 1]]
      <4> HIDE DEF d
      <4> QED BY <3>1, <2>2
    <3>3. d[k][it[1 .. k - 1]] = it[1 .. k - 1] \o ss[k]
      BY <3>1
    <3> QED BY <2>2, <3>1, <3>2, <3>3
  <2> QED BY <2>2, <2>5
<1>5. /\ h[0] = <<>>
      /\ \A k \in 1 .. n : h[k] = h[k - 1] \o ss[k] /\ h[k] \in Seq(L)
  <2> HIDE DEF d, n
  <2>1. h[0] = <<>> /\ \A k \in 1 .. n : h[k] = it[1 .. k] /\ h[k - 1] = it[1 .. k - 1]
    BY <1>1, <1>4
  <2> HIDE DEF h
  <2> QED BY <1>4, <2>1
<1>6. CASE n = 0
  <2>1. FlattenSeq(ss) = <<>>
    BY <1>1, <1>6 DEF FlattenSeq
  <2> QED BY <2>1, <1>5, <1>6
<1>7. CASE n # 0
  <2> DEFINE Eqn(f) == f = [i \in 1 .. Len(ss) |-> IF i = 1 THEN ss[i] ELSE f[i - 1] \o ss[i]]
             f == CHOOSE f : Eqn(f)
             g == [i \in 1 .. n |-> h[i]]
  <2>1. FlattenSeq(ss) = f[n]
    BY <1>7 DEF FlattenSeq
  <2>2. Eqn(g)
    <3>1. ASSUME NEW i \in 1 .. n PROVE h[i] = IF i = 1 THEN ss[i] ELSE g[i - 1] \o ss[i]
      <4> HIDE DEF h
      <4>1. CASE i = 1
        <5>1. h[1] = h[1 - 1] \o ss[1] /\ ss[1] \in Seq(L)
          BY <1>1, <1>5, <4>1
        <5>2. h[1 - 1] = <<>>
          <6>1. 1 - 1 = 0
            OBVIOUS
          <6> QED BY <6>1, <1>5
        <5>3. h[1] = <<>> \o ss[1]
          BY <5>1, <5>2
        <5> QED BY <4>1, <5>1, <5>3
      <4>2. CASE i # 1
        <5>1. i - 1 \in 1 .. n
          BY <4>2, <1>1
        <5> QED BY <4>2, <5>1, <1>5
      <4> QED BY <4>1, <4>2
    <3> HIDE DEF h
    <3> QED BY <3>1
  <2>3. Eqn(f)
    <3> HIDE DEF Eqn, g
    <3> QED BY <2>2
  <2> DEFINE q == [i \in 0 .. n |-> IF i = 0 THEN <<>> ELSE f[i]]
  <2> HIDE DEF f, h
  <2>4. \A k \in 1 .. n : q[k - 1] = h[k - 1] => q[k] = h[k]
    <3> SUFFICES ASSUME NEW k \in 1 .. n, q[k - 1] = h[k - 1] PROVE q[k] = h[k]
      OBVIOUS
    <3>1. q[k] = f[k] /\ h[k] = h[k - 1] \o ss[k]
      <4>1. q[k] = f[k]
        BY <1>1
      <4> HIDE DEF q
      <4> QED BY <1>5, <4>1
    <3>2. CASE k = 1
      <4>1. f[k] = ss[1] /\ h[k - 1] = <<>> /\ ss[1] \in Seq(L)
        BY <1>1, <1>5, <2>3, <3>2
      <4>2. <<>> \o ss[1] = ss[1]
        BY <4>1
      <4> QED BY <3>1, <3>2, <4>1, <4>2
    <3>3. CASE k # 1
      <4>0. k - 1 \in 0 .. n /\ k - 1 # 0 /\ 1 .. Len(ss) = 1 .. n
        BY <1>1, <3>3
      <4>1. f[k] = f[k - 1] \o ss[k]
        <5> HIDE DEF q
        <5> QED BY <2>3, <3>3
      <4>2. q[k - 1] = f[k - 1]
        <5> HIDE DEF n
        <5> QED BY <4>0
      <4> QED BY <3>1, <4>1, <4>2
    <3> QED BY <3>2, <3>3
  <2>5. q[0] = h[0] /\ q[n] = f[n]
    BY <1>1, <1>5, <1>7
  <2>6. q[n] = h[n]
    <3> HIDE DEF q, n
    <3> QED BY <1>1, <2>4, <2>5, StepsAgree
  <2> QED BY <1>5, <2>1, <2>5, <2>6
<1> QED BY <1>6, <1>7

\* The lines of a section, and their texts.
IsEntry(e) == e = [text |-> e.text, eol |-> e.eol, dirty |-> e.dirty]
IsEntries(x) == IsList(x) /\ \A j \in DOMAIN x : IsEntry(x[j])
Texts(x) == [j \in DOMAIN x |-> x[j].text]

\* y has the lines of x but for some whose texts are not in B.
Keeps(x, y, B) == IsEntries(y) /\ Among(Texts(y), B) = Among(Texts(x), B)

\* Texts kept by nothing, one or two edits.
LEMMA TextsList ==
  ASSUME NEW x, IsEntries(x)
  PROVE  IsList(Texts(x)) /\ Len(Texts(x)) = Len(x) /\ DOMAIN Texts(x) = DOMAIN x
<1>1. DOMAIN Texts(x) = DOMAIN x /\ Texts(x) = [j \in DOMAIN x |-> Texts(x)[j]]
  BY DEF Texts
<1> QED BY <1>1, ListMap DEF IsEntries

LEMMA KeepsTrans ==
  ASSUME NEW x, NEW y, NEW z, NEW B, Keeps(x, y, B), Keeps(y, z, B)
  PROVE  Keeps(x, z, B)
BY DEF Keeps

LEMMA KeepsRefl == ASSUME NEW x, IsEntries(x), NEW B PROVE Keeps(x, x, B)
BY DEF Keeps

\* Texts outside B replaced by others outside B.
LEMMA SameTexts ==
  ASSUME NEW x, IsEntries(x), NEW y, IsEntries(y), Len(x) = Len(y), NEW B,
         \A j \in DOMAIN x : \/ y[j].text = x[j].text
                             \/ x[j].text \notin B /\ y[j].text \notin B
  PROVE  Keeps(x, y, B)
<1> DEFINE s == Texts(x)
           t == Texts(y)
           L == {s[i] : i \in DOMAIN s} \union {t[i] : i \in DOMAIN t}
<1>1. /\ IsList(s) /\ Len(s) = Len(x) /\ DOMAIN s = DOMAIN x
      /\ IsList(t) /\ Len(t) = Len(x) /\ DOMAIN t = DOMAIN y
  BY TextsList
<1>2. s \in Seq(L) /\ t \in Seq(L) /\ Len(s) = Len(t)
  <2>1. s \in Seq({s[i] : i \in DOMAIN s}) /\ t \in Seq({t[i] : i \in DOMAIN t})
    BY <1>1 DEF IsList
  <2> HIDE DEF s, t
  <2>2. {s[i] : i \in DOMAIN s} \subseteq L /\ {t[i] : i \in DOMAIN t} \subseteq L
    OBVIOUS
  <2> HIDE DEF L
  <2> QED BY <1>1, <2>1, <2>2, SeqMonotonic
<1>3. DOMAIN x = 1 .. Len(x) /\ DOMAIN y = 1 .. Len(x)
  BY ListLen DEF IsEntries
<1>4. \A k \in 1 .. Len(s) : \/ s[k] = t[k] /\ (s[k] \in B <=> t[k] \in B)
                             \/ s[k] \notin B /\ t[k] \notin B
  BY <1>1, <1>3 DEF Texts
<1>5. Among(s, B) = Among(t, B)
  <2> HIDE DEF s, t, L
  <2> QED BY <1>2, <1>4, AmongSame
<1> QED BY <1>5 DEF Keeps

LEMMA AmongNone ==
  ASSUME NEW t, NEW B, t \notin B
  PROVE  Among(<<t>>, B) = <<>>
<1> DEFINE z == <<>>
<1>1. z \in Seq({t}) /\ Append(z, t) = <<t>> /\ t \in {t}
  OBVIOUS
<1>2. Among(z, B) = z
  BY AmongEmpty
<1> HIDE DEF z
<1>3. Among(Append(z, t), B) = Among(z, B)
  BY <1>1, AmongAppend
<1> QED BY <1>1, <1>2, <1>3 DEF z

\* Entries as a sequence over a set, and back.
LEMMA EntriesSeq ==
  ASSUME NEW x, IsEntries(x)
  PROVE  /\ x \in Seq({x[i] : i \in DOMAIN x}) /\ \A e \in {x[i] : i \in DOMAIN x} : IsEntry(e)
         /\ Texts(x) \in Seq({x[i].text : i \in DOMAIN x})
<1>1. x \in Seq({x[i] : i \in DOMAIN x}) /\ \A e \in {x[i] : i \in DOMAIN x} : IsEntry(e)
  BY DEF IsEntries, IsList
<1>2. Texts(x) \in Seq({Texts(x)[i] : i \in DOMAIN Texts(x)})
  BY TextsList DEF IsList
<1>3. {Texts(x)[i] : i \in DOMAIN Texts(x)} = {x[i].text : i \in DOMAIN x}
  BY DEF Texts
<1> QED BY <1>1, <1>2, <1>3

LEMMA SeqEntries ==
  ASSUME NEW E, \A e \in E : IsEntry(e), NEW x \in Seq(E)
  PROVE  IsEntries(x)
<1>1. IsList(x)
  BY ListOfSeq
<1>2. \A j \in DOMAIN x : x[j] \in E
  OBVIOUS
<1> QED BY <1>1, <1>2 DEF IsEntries

\* Texts of entries put together.
LEMMA TextsConcat ==
  ASSUME NEW E, NEW x \in Seq(E), NEW y \in Seq(E)
  PROVE  Texts(x \o y) = Texts(x) \o Texts(y)
<1> DEFINE L == {e.text : e \in E}
           a == Texts(x)
           b == Texts(y)
           c == Texts(x \o y)
<1>1. /\ x \o y \in Seq(E) /\ Len(x \o y) = Len(x) + Len(y)
      /\ DOMAIN x = 1 .. Len(x) /\ DOMAIN y = 1 .. Len(y) /\ DOMAIN (x \o y) = 1 .. Len(x) + Len(y)
      /\ \A i \in 1 .. Len(x) + Len(y) : (x \o y)[i] = IF i <= Len(x) THEN x[i] ELSE y[i - Len(x)]
  OBVIOUS
<1>2. \A z \in Seq(E) : LET t == [i \in 1 .. Len(z) |-> z[i].text]
                       IN  t \in Seq(L) /\ Len(t) = Len(z)
  OBVIOUS
<1>3. /\ a \in Seq(L) /\ b \in Seq(L) /\ c \in Seq(L)
      /\ Len(a) = Len(x) /\ Len(b) = Len(y) /\ Len(c) = Len(x) + Len(y)
  <2> HIDE DEF L
  <2> QED BY <1>1, <1>2 DEF Texts
<1>4. /\ \A i \in 1 .. Len(x) : a[i] = x[i].text
      /\ \A i \in 1 .. Len(y) : b[i] = y[i].text
      /\ \A i \in 1 .. Len(x) + Len(y) : c[i] = (x \o y)[i].text
  BY <1>1 DEF Texts
<1>5. Len(x) \in Nat /\ Len(y) \in Nat
  OBVIOUS
<1>6. /\ a \o b \in Seq(L) /\ Len(a \o b) = Len(c)
      /\ \A i \in 1 .. Len(x) + Len(y) : (a \o b)[i] = IF i <= Len(x) THEN a[i] ELSE b[i - Len(x)]
  <2> HIDE DEF a, b, c, L
  <2> QED BY <1>3, <1>5
<1>7. \A i \in 1 .. Len(c) : (a \o b)[i] = c[i]
  <2> SUFFICES ASSUME NEW i \in 1 .. Len(c) PROVE (a \o b)[i] = c[i]
    OBVIOUS
  <2> HIDE DEF a, b, c, L
  <2>1. CASE i <= Len(x)
    <3>1. i \in 1 .. Len(x) /\ i \in 1 .. Len(x) + Len(y)
      BY <1>3, <1>5, <2>1
    <3> QED BY <1>1, <1>4, <1>6, <2>1, <3>1
  <2>2. CASE ~(i <= Len(x))
    <3>1. i - Len(x) \in 1 .. Len(y) /\ i \in 1 .. Len(x) + Len(y)
      BY <1>3, <1>5, <2>2
    <3> QED BY <1>1, <1>4, <1>6, <2>2, <3>1
  <2> QED BY <2>1, <2>2
<1> QED
  <2> HIDE DEF a, b, c, L
  <2>1. a \o b = c
    BY <1>3, <1>6, <1>7, SeqEqual
  <2> QED BY <2>1 DEF a, b, c

LEMMA TextsSeq ==
  ASSUME NEW E, NEW x \in Seq(E)
  PROVE  Texts(x) \in Seq({e.text : e \in E})
<1> DEFINE L == {e.text : e \in E}
<1>1. [i \in 1 .. Len(x) |-> x[i].text] \in Seq(L) /\ DOMAIN x = 1 .. Len(x)
  OBVIOUS
<1> QED BY <1>1 DEF Texts

LEMMA AmongTexts ==
  ASSUME NEW E, NEW x \in Seq(E), NEW y \in Seq(E), NEW B
  PROVE  Among(Texts(x \o y), B) = Among(Texts(x), B) \o Among(Texts(y), B)
<1>1. Texts(x \o y) = Texts(x) \o Texts(y)
  BY TextsConcat
<1>2. Texts(x) \in Seq({e.text : e \in E}) /\ Texts(y) \in Seq({e.text : e \in E})
  BY TextsSeq
<1>3. Among(Texts(x) \o Texts(y), B) = Among(Texts(x), B) \o Among(Texts(y), B)
  BY <1>2, AmongConcat
<1> QED BY <1>1, <1>3

\* A line put in or at the end, and lines left out.
LEMMA InsertKeeps ==
  ASSUME NEW x, IsEntries(x), NEW at \in 1 .. Len(x) + 1, NEW e, IsEntry(e), NEW B, e.text \notin B
  PROVE  Keeps(x, InsertAt(x, at, e), B)
<1> DEFINE E == {x[i] : i \in DOMAIN x} \union {e}
           p == SubSeq(x, 1, at - 1)
           q == SubSeq(x, at, Len(x))
           m == <<e>>
<1>1. x \in Seq(E) /\ \A f \in E : IsEntry(f)
  <2>1. x \in Seq({x[i] : i \in DOMAIN x}) /\ \A f \in {x[i] : i \in DOMAIN x} : IsEntry(f)
    BY EntriesSeq
  <2>2. {x[i] : i \in DOMAIN x} \subseteq E
    OBVIOUS
  <2>3. x \in Seq(E)
    <3> HIDE DEF E
    <3> QED BY <2>1, <2>2, SeqMonotonic
  <2> QED BY <2>1, <2>3
<1>2. e \in E /\ m \in Seq(E)
  OBVIOUS
<1> HIDE DEF E
<1>3. Len(x) \in Nat
  BY <1>1
<1>4. p \in Seq(E) /\ q \in Seq(E)
  <2>1. \A i \in 1 .. Len(x) : x[i] \in E
    BY <1>1
  <2>2. /\ at - 1 \in Int /\ 1 \in Int /\ at \in Int /\ Len(x) \in Int
        /\ \A i \in 1 .. at - 1 : x[i] \in E
        /\ \A i \in at .. Len(x) : x[i] \in E
    BY <1>3, <2>1
  <2> QED BY <2>2, SubSeqProperties
<1>5. p \o q = x
  <2>1. 1 \in 1 .. Len(x) + 1 /\ at - 1 \in 1 - 1 .. Len(x) /\ Len(x) \in at - 1 .. Len(x)
    BY <1>3
  <2>2. SubSeq(x, 1, at - 1) \o SubSeq(x, (at - 1) + 1, Len(x)) = SubSeq(x, 1, Len(x))
    BY <1>1, <2>1, ConcatAdjacentSubSeq
  <2>3. (at - 1) + 1 = at
    OBVIOUS
  <2>4. SubSeq(x, 1, Len(x)) = x
    BY <1>1, SubSeqFull
  <2> QED BY <2>2, <2>3, <2>4
<1>6. InsertAt(x, at, e) = (p \o m) \o q
  BY DEF InsertAt
<1> HIDE DEF p, q
<1>7. Among(Texts(m), B) = <<>>
  <2>1. Texts(m) = <<e.text>>
    BY DEF Texts
  <2> QED BY <2>1, AmongNone
<1> HIDE DEF m
<1>8. p \o m \in Seq(E) /\ (p \o m) \o q \in Seq(E)
  BY <1>2, <1>4
<1>9. Among(Texts((p \o m) \o q), B) = (Among(Texts(p), B) \o Among(Texts(m), B)) \o Among(Texts(q), B)
  <2>1. Among(Texts((p \o m) \o q), B) = Among(Texts(p \o m), B) \o Among(Texts(q), B)
    <3> DEFINE r == p \o m
    <3>1. r \in Seq(E) /\ q \in Seq(E)
      BY <1>4, <1>8
    <3> HIDE DEF r
    <3>2. Among(Texts(r \o q), B) = Among(Texts(r), B) \o Among(Texts(q), B)
      BY <3>1, AmongTexts
    <3> QED BY <3>2 DEF r
  <2>2. Among(Texts(p \o m), B) = Among(Texts(p), B) \o Among(Texts(m), B)
    BY <1>2, <1>4, AmongTexts
  <2> QED BY <2>1, <2>2
<1>10. Among(Texts(p \o q), B) = Among(Texts(p), B) \o Among(Texts(q), B)
  BY <1>4, AmongTexts
<1>11. Among(Texts(p), B) \o <<>> = Among(Texts(p), B)
  <2> DEFINE L == {f.text : f \in E}
             r == Among(Texts(p), B)
  <2>1. Texts(p) \in Seq(L)
    BY <1>4, TextsSeq
  <2>2. r \in Seq(L)
    <3> HIDE DEF L
    <3> QED BY <2>1, AmongIs
  <2>3. r \o <<>> = r
    <3> HIDE DEF r, L
    <3> QED BY <2>2
  <2> QED BY <2>3
<1>12. IsEntries((p \o m) \o q)
  BY <1>1, <1>8, SeqEntries
<1> QED BY <1>5, <1>6, <1>7, <1>9, <1>10, <1>11, <1>12 DEF Keeps

LEMMA AppendKeeps ==
  ASSUME NEW x, IsEntries(x), NEW e, IsEntry(e)
  PROVE  /\ IsEntries(Append(x, e))
         /\ \A B : e.text \notin B => Keeps(x, Append(x, e), B)
<1> DEFINE E == {x[i] : i \in DOMAIN x} \union {e}
           m == <<e>>
           n == Len(x) + 1
<1>1. x \in Seq({x[i] : i \in DOMAIN x})
  BY EntriesSeq
<1>2. n \in 1 .. Len(x) + 1
  BY <1>1
<1>3. InsertAt(x, n, e) = Append(x, e)
  <2>1. SubSeq(x, 1, n - 1) = x
    <3>1. n - 1 = Len(x)
      BY <1>1
    <3>2. SubSeq(x, 1, Len(x)) = x
      BY <1>1, SubSeqFull
    <3> QED BY <3>1, <3>2
  <2>2. SubSeq(x, n, Len(x)) = <<>>
    <3>1. n \in Int /\ Len(x) \in Int /\ Len(x) < n
      BY <1>1
    <3> QED BY <3>1, SubSeqEmpty
  <2>3. x \in Seq(E)
    <3>1. {x[i] : i \in DOMAIN x} \subseteq E
      OBVIOUS
    <3> HIDE DEF E
    <3> QED BY <1>1, <3>1, SeqMonotonic
  <2>4. e \in E
    OBVIOUS
  <2>5. (x \o <<e>>) \o <<>> = Append(x, e)
    <3> HIDE DEF E
    <3> QED BY <2>3, <2>4
  <2> QED BY <2>1, <2>2, <2>5 DEF InsertAt
<1>4. \A B : e.text \notin B => Keeps(x, Append(x, e), B)
  BY <1>2, <1>3, InsertKeeps
<1>5. Keeps(x, Append(x, e), {})
  BY <1>4
<1> QED BY <1>4, <1>5 DEF Keeps

LEMMA DropKeeps ==
  ASSUME NEW x, IsEntries(x), NEW D, NEW B,
         \A j \in DOMAIN x : x[j] \in D \/ x[j].text \notin B
  PROVE  Keeps(x, Among(x, D), B)
<1> DEFINE E == {x[i] : i \in DOMAIN x}
           T == {y \in Seq(E) : Among(y, D) \in Seq(E)
                                /\ Among(Texts(Among(y, D)), B) = Among(Texts(y), B)}
<1>1. x \in Seq(E) /\ \A e \in E : IsEntry(e)
  BY EntriesSeq
<1>2. \A e \in E : e \in D \/ e.text \notin B
  OBVIOUS
<1> HIDE DEF E
<1>3. <<>> \in T
  <2> DEFINE z == <<>>
  <2>1. z \in Seq(E)
    OBVIOUS
  <2>2. Among(z, D) = z
    BY AmongEmpty
  <2> HIDE DEF z
  <2>3. z \in T
    BY <2>1, <2>2
  <2> QED BY <2>3 DEF z
<1>4. ASSUME NEW y \in Seq(E), NEW e \in E, y \in T PROVE Append(y, e) \in T
  <2> DEFINE a == Among(y, D)
             L == {f.text : f \in E}
  <2>1. /\ a \in Seq(E) /\ Among(Texts(a), B) = Among(Texts(y), B)
        /\ Append(y, e) \in Seq(E)
    BY <1>4
  <2>2. Among(Append(y, e), D) = IF e \in D THEN Append(a, e) ELSE a
    BY AmongAppend
  <2> HIDE DEF a
  <2>3. \A z \in Seq(E) : Among(Texts(Append(z, e)), B)
                           = IF e.text \in B THEN Append(Among(Texts(z), B), e.text)
                             ELSE Among(Texts(z), B)
    <3> SUFFICES ASSUME NEW z \in Seq(E)
                 PROVE  Among(Texts(Append(z, e)), B)
                           = IF e.text \in B THEN Append(Among(Texts(z), B), e.text)
                             ELSE Among(Texts(z), B)
      OBVIOUS
    <3>1. Texts(z) \in Seq(L) /\ e.text \in L
      BY TextsSeq
    <3>2. Texts(Append(z, e)) = Append(Texts(z), e.text)
      <4> DEFINE m == <<e>>
      <4>1. m \in Seq(E) /\ Append(z, e) = z \o m
        OBVIOUS
      <4>2. Texts(m) = <<e.text>>
        BY DEF Texts
      <4> HIDE DEF m
      <4>3. Texts(z \o m) = Texts(z) \o Texts(m)
        BY <4>1, TextsConcat
      <4> DEFINE t == Texts(z)
      <4> HIDE DEF t, L
      <4>4. t \in Seq(L)
        BY <3>1 DEF t
      <4>5. t \o <<e.text>> = Append(t, e.text)
        BY <3>1, <4>4
      <4> QED BY <4>1, <4>2, <4>3, <4>5 DEF t
    <3> DEFINE t == Texts(z)
               u == e.text
    <3> HIDE DEF L, t, u, T
    <3>3. t \in Seq(L) /\ u \in L
      BY <3>1 DEF t, u
    <3>4. Among(Append(t, u), B) = IF u \in B THEN Append(Among(t, B), u) ELSE Among(t, B)
      BY <3>3, AmongAppend, Zenon
    <3> QED BY <3>2, <3>4 DEF t, u
  <2>4. Append(a, e) \in Seq(E)
    BY <2>1
  <2>5. CASE e \in D
    BY <2>1, <2>2, <2>3, <2>4, <2>5
  <2>6. CASE e \notin D
    <3>1. e.text \notin B
      BY <1>2, <2>6
    <3> QED BY <2>1, <2>2, <2>3, <2>6, <3>1
  <2> QED BY <2>5, <2>6
<1>5. \A y \in Seq(E) : y \in T
  <2> HIDE DEF T
  <2> QED BY <1>3, <1>4, SeqInSet
<1>6. Among(x, D) \in Seq(E) /\ Among(Texts(Among(x, D)), B) = Among(Texts(x), B)
  BY <1>1, <1>5
<1>7. IsEntries(Among(x, D))
  BY <1>1, <1>6, SeqEntries
<1> QED BY <1>6, <1>7 DEF Keeps

\* B has no text of kind k.
No(k, B) == \A t \in B : t.k # k

\* A field of an entry changed.
LEMMA EntryExcept ==
  ASSUME NEW e, IsEntry(e), NEW x
  PROVE  /\ IsEntry([e EXCEPT !.text = x]) /\ [e EXCEPT !.text = x].text = x
         /\ IsEntry([e EXCEPT !.eol = x]) /\ [e EXCEPT !.eol = x].text = e.text
         /\ IsEntry([e EXCEPT !.dirty = x]) /\ [e EXCEPT !.dirty = x].text = e.text
<1> DEFINE t == e.text
           o == e.eol
           y == e.dirty
           r == [text |-> t, eol |-> o, dirty |-> y]
<1>1. e = r
  BY DEF IsEntry
<1>2. /\ [r EXCEPT !.text = x] = [text |-> x, eol |-> o, dirty |-> y]
      /\ [r EXCEPT !.eol = x] = [text |-> t, eol |-> x, dirty |-> y]
      /\ [r EXCEPT !.dirty = x] = [text |-> t, eol |-> o, dirty |-> x]
  <2> HIDE DEF t, o, y
  <2> QED OBVIOUS
<1> DEFINE a == [e EXCEPT !.text = x]
           b == [e EXCEPT !.eol = x]
           c == [e EXCEPT !.dirty = x]
<1>3. /\ a = [text |-> x, eol |-> o, dirty |-> y]
      /\ b = [text |-> t, eol |-> x, dirty |-> y]
      /\ c = [text |-> t, eol |-> o, dirty |-> x]
  BY <1>1, <1>2
<1> HIDE DEF a, b, c, t, o, y
<1>4. /\ IsEntry(a) /\ a.text = x
      /\ IsEntry(b) /\ b.text = t
      /\ IsEntry(c) /\ c.text = t
  BY <1>3 DEF IsEntry
<1> QED BY <1>4 DEF a, b, c, t

\* A line replaced by one that is as little in B.
LEMMA ReplaceKeeps ==
  ASSUME NEW x, IsEntries(x), NEW i \in DOMAIN x, NEW e, IsEntry(e), NEW B,
         e.text = x[i].text \/ (e.text \notin B /\ x[i].text \notin B)
  PROVE  Keeps(x, [x EXCEPT ![i] = e], B)
<1> DEFINE y == [x EXCEPT ![i] = e]
<1>1. /\ DOMAIN y = DOMAIN x /\ y = [j \in DOMAIN x |-> y[j]]
      /\ \A j \in DOMAIN x : y[j] = IF j = i THEN e ELSE x[j]
  OBVIOUS
<1> HIDE DEF y
<1>2. IsList(y) /\ Len(y) = Len(x)
  BY <1>1, ListMap DEF IsEntries
<1>3. IsEntries(y)
  BY <1>1, <1>2 DEF IsEntries
<1>4. Keeps(x, y, B)
  BY <1>1, <1>2, <1>3, SameTexts
<1> QED BY <1>4 DEF y

\* The entries of a section replaced.
LEMMA SectionEnts ==
  ASSUME NEW s, IsSection(s), NEW x
  PROVE  [s EXCEPT !.ents = x].ents = x /\ SameHead(s, [s EXCEPT !.ents = x])
BY SectionExcept

\* A line rewritten in place.
LEMMA SetLineKeeps ==
  ASSUME NEW s, IsSection(s), IsEntries(s.ents), NEW i \in DOMAIN s.ents, NEW text, NEW B,
         text \notin B, s.ents[i].text \notin B
  PROVE  /\ Keeps(s.ents, SetLine(s, i, text).ents, B)
         /\ Keeps(s.ents, [s EXCEPT !.ents[i].text = text].ents, B)
<1> DEFINE e == [s.ents[i] EXCEPT !.text = text]
           x == [s.ents EXCEPT ![i] = e]
           t == [s EXCEPT !.ents = x]
           f == [x[i] EXCEPT !.dirty = TRUE]
           y == [x EXCEPT ![i] = f]
<1>1. IsEntry(s.ents[i])
  BY DEF IsEntries
<1>2. IsEntry(e) /\ e.text = text
  BY <1>1, EntryExcept
<1> HIDE DEF e
<1>3. Keeps(s.ents, x, B)
  BY <1>2, ReplaceKeeps
<1>4. x[i] = e /\ i \in DOMAIN x
  OBVIOUS
<1>5. IsEntry(f) /\ f.text = text
  BY <1>2, <1>4, EntryExcept
<1>6. Keeps(x, y, B)
  <2> HIDE DEF x, f
  <2> QED BY <1>2, <1>3, <1>4, <1>5, ReplaceKeeps DEF Keeps
<1>7. t.ents = x /\ SameHead(s, t)
  <2> HIDE DEF x, y, f, t
  <2>1. [s EXCEPT !.ents = x].ents = x /\ SameHead(s, [s EXCEPT !.ents = x])
    BY SectionEnts
  <2> QED BY <2>1 DEF t
<1>8. [s EXCEPT !.ents[i].text = text] = t
  BY DEF e
<1>9. SetLine(s, i, text) = [t EXCEPT !.ents = [t.ents EXCEPT ![i].dirty = TRUE]]
  BY DEF SetLine, e
<1>10. [t.ents EXCEPT ![i].dirty = TRUE] = y
  BY <1>7
<1>11. [t EXCEPT !.ents = y].ents = y
  <2> HIDE DEF t, y
  <2> QED BY <1>7, SectionExcept DEF SameHead
<1>12. Keeps(s.ents, y, B)
  <2> HIDE DEF x, y
  <2> QED BY <1>3, <1>6, KeepsTrans
<1>13. SetLine(s, i, text).ents = y
  <2> HIDE DEF t, y
  <2> QED BY <1>9, <1>10, <1>11
<1> HIDE DEF t, x, y
<1> QED BY <1>3, <1>7, <1>8, <1>12, <1>13

\* The last line of some is one of them.
LEMMA LastLine ==
  ASSUME NEW x, IsList(x), NEW I \in SUBSET (1 .. Len(x))
  PROVE  LET i == IF I # {} THEN Max(I) ELSE 0
         IN  /\ i \in 0 .. Len(x) /\ (i # 0 => i \in DOMAIN x /\ i \in I)
             /\ i = 0 <=> I = {}
<1>1. Len(x) \in Nat /\ DOMAIN x = 1 .. Len(x)
  BY ListLen
<1>2. I # {} => Max(I) \in I
  BY <1>1, MaxIs
<1> DEFINE m == Max(I)
<1>3. I # {} => m \in I
  BY <1>2
<1> HIDE DEF m
<1>4. I # {} => m \in 1 .. Len(x)
  BY <1>3
<1>5. LET i == IF I # {} THEN m ELSE 0
      IN  /\ i \in 0 .. Len(x) /\ (i # 0 => i \in DOMAIN x /\ i \in I)
          /\ i = 0 <=> I = {}
  BY <1>1, <1>3, <1>4
<1> QED BY <1>5 DEF m

\* Where a section has a key's binding, its label and its last line.
LEMMA LinesFound ==
  ASSUME NEW s, IsEntries(s.ents), NEW c
  PROVE  /\ BindingAt(s, c) # 0 => BindingAt(s, c) \in DOMAIN s.ents
                                   /\ s.ents[BindingAt(s, c)].text.k = "bind"
         /\ label_index(s, c) # 0 => label_index(s, c) \in DOMAIN s.ents
                                     /\ s.ents[label_index(s, c)].text.k = "label"
         /\ SelectLastInSeq(s.ents, NotBlank) \in 0 .. Len(s.ents)
<1> DEFINE x == s.ents
<1>1. IsList(x)
  BY DEF IsEntries
<1> HIDE DEF x
<1>2. LET I == {i \in 1 .. Len(x) : Binds(x[i], c)}
          i == SelectLastInSeq(x, LAMBDA e : Binds(e, c))
      IN  i # 0 => i \in DOMAIN x /\ i \in I
  BY <1>1, LastLine DEF SelectLastInSeq
<1>3. LET I == {i \in 1 .. Len(x) : Labels(x[i], c)}
          i == SelectLastInSeq(x, LAMBDA e : Labels(e, c))
      IN  i # 0 => i \in DOMAIN x /\ i \in I
  BY <1>1, LastLine DEF SelectLastInSeq
<1>4. SelectLastInSeq(x, NotBlank) \in 0 .. Len(x)
  BY <1>1, LastLine DEF SelectLastInSeq
<1> QED BY <1>2, <1>3, <1>4 DEF x, BindingAt, label_index, Binds, Labels

\* A terminator added, and a line pushed.
LEMMA EolKeeps ==
  ASSUME NEW s, IsSection(s), IsEntries(s.ents), NEW eol, NEW B
  PROVE  SameHead(s, WithEndEol(s, eol)) /\ Keeps(s.ents, WithEndEol(s, eol).ents, B)
         /\ Len(WithEndEol(s, eol).ents) = Len(s.ents)
<1>1. CASE s.ents = <<>>
  <2>1. WithEndEol(s, eol) = [s EXCEPT !.head = eol]
    BY <1>1 DEF WithEndEol
  <2>2. [s EXCEPT !.head = eol].ents = s.ents /\ SameHead(s, [s EXCEPT !.head = eol])
    BY SectionExcept
  <2> QED BY <2>1, <2>2, KeepsRefl
<1>2. CASE s.ents # <<>>
  <2> DEFINE n == Len(s.ents)
             e == [s.ents[n] EXCEPT !.eol = eol]
             x == [s.ents EXCEPT ![n] = e]
  <2>1. n \in DOMAIN s.ents
    BY <1>2, ListLen DEF IsEntries
  <2>2. IsEntry(s.ents[n])
    BY <2>1 DEF IsEntries
  <2>3. IsEntry(e) /\ e.text = s.ents[n].text
    BY <2>2, EntryExcept
  <2>4. WithEndEol(s, eol) = [s EXCEPT !.ents = x]
    BY <1>2 DEF WithEndEol
  <2> HIDE DEF e
  <2>5. Keeps(s.ents, x, B)
    <3> HIDE DEF n
    <3> QED BY <2>1, <2>3, ReplaceKeeps
  <2>6. [s EXCEPT !.ents = x].ents = x /\ SameHead(s, [s EXCEPT !.ents = x])
    <3> HIDE DEF x
    <3> QED BY SectionEnts
  <2>7. Len(x) = Len(s.ents)
    <3>1. DOMAIN x = DOMAIN s.ents /\ x = [j \in DOMAIN s.ents |-> x[j]]
      OBVIOUS
    <3> HIDE DEF x
    <3> QED BY <3>1, ListMap DEF IsEntries
  <2> QED BY <2>4, <2>5, <2>6, <2>7
<1> QED BY <1>1, <1>2

LEMMA PushKeeps ==
  ASSUME NEW s, IsSection(s), IsEntries(s.ents), NEW text, NEW style, NEW B, text \notin B
  PROVE  Keeps(s.ents, PushLine(s, text, style).ents, B)
<1> DEFINE at   == 1 + SelectLastInSeq(s.ents, NotBlank)
           open == at = Len(s.ents) + 1 /\ EndEol(s) = "none"
           base == IF open THEN WithEndEol(s, style) ELSE s
           new  == [text |-> text, eol |-> IF open THEN "none" ELSE style,
                    dirty |-> text.k = "bind"]
<1>1. SameHead(s, s)
  BY DEF SameHead
<1>2. SameHead(s, base) /\ Keeps(s.ents, base.ents, B) /\ Len(base.ents) = Len(s.ents)
  BY <1>1, EolKeeps, KeepsRefl
<1>3. at \in 1 .. Len(base.ents) + 1
  <2>1. Len(s.ents) \in Nat
    BY ListLen DEF IsEntries
  <2> DEFINE k == SelectLastInSeq(s.ents, NotBlank)
  <2>2. k \in 0 .. Len(s.ents)
    BY LinesFound
  <2> HIDE DEF k, base
  <2>3. 1 + k \in 1 .. Len(base.ents) + 1
    BY <1>2, <2>1, <2>2
  <2> QED BY <2>3 DEF k
<1>4. IsEntry(new) /\ new.text = text
  <2>1. \A o, y : LET e == [text |-> text, eol |-> o, dirty |-> y] IN IsEntry(e) /\ e.text = text
    BY DEF IsEntry
  <2> QED BY <2>1, Zenon
<1>5. PushLine(s, text, style) = [base EXCEPT !.ents = InsertAt(base.ents, at, new)]
  BY DEF PushLine
<1> HIDE DEF base, at, new
<1>6. [base EXCEPT !.ents = InsertAt(base.ents, at, new)].ents = InsertAt(base.ents, at, new)
  BY <1>2, SectionExcept DEF SameHead
<1>7. Keeps(base.ents, InsertAt(base.ents, at, new), B)
  BY <1>2, <1>3, <1>4, InsertKeeps DEF Keeps
<1> QED BY <1>2, <1>5, <1>6, <1>7, KeepsTrans

LEMMA KeepsEntries ==
  ASSUME NEW s, IsSection(s), IsEntries(s.ents)
  PROVE  \A x, B : x = s.ents => Keeps(s.ents, x, B)
BY KeepsRefl

\* What writes or removes bindings keeps the other lines.
LEMMA SetKeeps ==
  ASSUME NEW s, IsSection(s), IsEntries(s.ents), NEW c, NEW v, NEW style, NEW B, No("bind", B)
  PROVE  Keeps(s.ents, set_or_add_binding(s, c, v, style).ents, B)
<1> DEFINE text == BindText(c, v)
           i    == BindingAt(s, c)
<1>1. text \notin B
  <2>1. BindText(c, v).k = "bind"
    BY DEF BindText
  <2> HIDE DEF text
  <2> QED BY <2>1 DEF No, text
<1>2. i # 0 => i \in DOMAIN s.ents /\ s.ents[i].text \notin B
  <2>1. i # 0 => i \in DOMAIN s.ents /\ s.ents[i].text.k = "bind"
    BY LinesFound
  <2> HIDE DEF i
  <2> QED BY <2>1 DEF No
<1>3. set_or_add_binding(s, c, v, style) = IF i # 0 THEN SetLine(s, i, text)
                                           ELSE PushLine(s, text, style)
  BY DEF set_or_add_binding
<1> HIDE DEF text, i
<1>4. CASE i # 0
  <2>1. Keeps(s.ents, SetLine(s, i, text).ents, B)
    BY <1>1, <1>2, <1>4, SetLineKeeps
  <2> QED BY <1>3, <1>4, <2>1
<1>5. CASE i = 0
  <2>1. Keeps(s.ents, PushLine(s, text, style).ents, B)
    BY <1>1, PushKeeps
  <2> QED BY <1>3, <1>5, <2>1
<1> QED BY <1>4, <1>5

\* Lines dropped from a section.
LEMMA SectionLess ==
  ASSUME NEW s, IsSection(s), NEW x, NEW y
  PROVE  SameHead(s, [s EXCEPT !.ents = x, !.dirty = y]) /\ [s EXCEPT !.ents = x, !.dirty = y].ents = x
<1> DEFINE t == [s EXCEPT !.ents = x]
           u == [t EXCEPT !.dirty = y]
<1>1. SameHead(s, t) /\ t.ents = x
  BY SectionExcept
<1>2. [s EXCEPT !.ents = x, !.dirty = y] = u
  OBVIOUS
<1>3. SameHead(t, u) /\ u.ents = t.ents
  <2> HIDE DEF t
  <2> QED BY <1>1, SectionExcept DEF SameHead
<1> HIDE DEF t, u
<1>4. SameHead(s, u) /\ u.ents = x
  BY <1>1, <1>3, SameHeadTrans
<1> QED BY <1>2, <1>4

LEMMA DropSome ==
  ASSUME NEW s, IsSection(s), IsEntries(s.ents), NEW D, NEW B,
         \A j \in DOMAIN s.ents : s.ents[j] \notin D => s.ents[j].text \notin B
  PROVE  LET kept == Among(s.ents, {e \in ToSet(s.ents) : e \in D})
             t    == [s EXCEPT !.ents = kept, !.dirty = @ \/ kept # s.ents]
         IN  SameHead(s, t) /\ Keeps(s.ents, t.ents, B)
<1> DEFINE K == {e \in ToSet(s.ents) : e \in D}
           kept == Among(s.ents, K)
           y == s.dirty \/ kept # s.ents
           t == [s EXCEPT !.ents = kept, !.dirty = y]
<1>1. \A j \in DOMAIN s.ents : s.ents[j] \in K \/ s.ents[j].text \notin B
  <2>1. DOMAIN s.ents = 1 .. Len(s.ents)
    BY ListLen DEF IsEntries
  <2> QED BY <2>1 DEF ToSet
<1> HIDE DEF K
<1>2. Keeps(s.ents, kept, B)
  BY <1>1, DropKeeps
<1> HIDE DEF kept, y
<1>3. SameHead(s, t) /\ t.ents = kept
  BY SectionLess
<1> HIDE DEF t
<1>4. SameHead(s, t) /\ Keeps(s.ents, t.ents, B)
  BY <1>2, <1>3
<1> QED BY <1>4 DEF kept, K, t, y

\* remove_chord in one section.
DropChord(s, c) == DropLines(s, LAMBDA e : SameChord(e, c))
\* What clearing drops are bindings, or labels.
LEMMA ClearKeeps ==
  ASSUME NEW s, IsSection(s), IsEntries(s.ents), NEW c, NEW B
  PROVE  /\ No("bind", B) => Keeps(s.ents, remove_binding(s, c).ents, B)
         /\ No("label", B) => Keeps(s.ents, SectionClearLabel(s, c).ents, B)
         /\ No("bind", B) => Keeps(s.ents, DropChord(s, c).ents, B)
<1>1. ASSUME No("bind", B) PROVE Keeps(s.ents, remove_binding(s, c).ents, B)
  <2> DEFINE D == {e \in ToSet(s.ents) : ~Binds(e, c)}
             G == {e \in ToSet(s.ents) : e \in D}
  <2>1. \A j \in DOMAIN s.ents : s.ents[j] \notin D => s.ents[j].text \notin B
    <3>1. DOMAIN s.ents = 1 .. Len(s.ents)
      BY ListLen DEF IsEntries
    <3> QED BY <1>1, <3>1 DEF ToSet, Binds, No
  <2>2. G = D
    OBVIOUS
  <2>3. remove_binding(s, c) = LET kept == Among(s.ents, D)
                               IN  [s EXCEPT !.ents = kept, !.dirty = @ \/ kept # s.ents]
    BY DEF remove_binding, DropLines
  <2> HIDE DEF D
  <2>4. LET kept == Among(s.ents, G)
            t    == [s EXCEPT !.ents = kept, !.dirty = @ \/ kept # s.ents]
        IN  SameHead(s, t) /\ Keeps(s.ents, t.ents, B)
    BY <2>1, DropSome
  <2> QED BY <2>2, <2>3, <2>4
<1>2. ASSUME No("label", B) PROVE Keeps(s.ents, SectionClearLabel(s, c).ents, B)
  <2> DEFINE D == {e \in ToSet(s.ents) : ~Labels(e, c)}
             G == {e \in ToSet(s.ents) : e \in D}
  <2>1. \A j \in DOMAIN s.ents : s.ents[j] \notin D => s.ents[j].text \notin B
    <3>1. DOMAIN s.ents = 1 .. Len(s.ents)
      BY ListLen DEF IsEntries
    <3> QED BY <1>2, <3>1 DEF ToSet, Labels, No
  <2>2. G = D
    OBVIOUS
  <2>3. SectionClearLabel(s, c) = LET kept == Among(s.ents, D)
                                  IN  [s EXCEPT !.ents = kept, !.dirty = @ \/ kept # s.ents]
    BY DEF SectionClearLabel, DropLines
  <2> HIDE DEF D
  <2>4. LET kept == Among(s.ents, G)
            t    == [s EXCEPT !.ents = kept, !.dirty = @ \/ kept # s.ents]
        IN  SameHead(s, t) /\ Keeps(s.ents, t.ents, B)
    BY <2>1, DropSome
  <2> QED BY <2>2, <2>3, <2>4
<1>3. ASSUME No("bind", B)
      PROVE  Keeps(s.ents, DropChord(s, c).ents, B)
  <2> DEFINE D == {e \in ToSet(s.ents) : ~SameChord(e, c)}
             G == {e \in ToSet(s.ents) : e \in D}
  <2>1. \A j \in DOMAIN s.ents : s.ents[j] \notin D => s.ents[j].text \notin B
    <3>1. DOMAIN s.ents = 1 .. Len(s.ents)
      BY ListLen DEF IsEntries
    <3> QED BY <1>3, <3>1 DEF ToSet, SameChord, No
  <2>2. G = D
    OBVIOUS
  <2>3. DropChord(s, c) = LET kept == Among(s.ents, D)
                          IN  [s EXCEPT !.ents = kept, !.dirty = @ \/ kept # s.ents]
    BY DEF DropChord, DropLines
  <2> HIDE DEF D
  <2>4. LET kept == Among(s.ents, G)
            t    == [s EXCEPT !.ents = kept, !.dirty = @ \/ kept # s.ents]
        IN  SameHead(s, t) /\ Keeps(s.ents, t.ents, B)
    BY <2>1, DropSome
  <2> QED BY <2>2, <2>3, <2>4
<1> QED BY <1>1, <1>2, <1>3

\* What writes a label keeps the other lines.
LEMMA LabelKeeps ==
  ASSUME NEW s, IsSection(s), IsEntries(s.ents), NEW c, NEW t, NEW style, NEW B, No("label", B)
  PROVE  Keeps(s.ents, SectionSetLabel(s, c, t, style).ents, B)
<1> DEFINE text == LabelText(c, t)
           i    == label_index(s, c)
           at   == BindingAt(s, c)
           a    == [s EXCEPT !.ents[i].text = text]
           b    == [s EXCEPT !.ents = InsertAt(@, at, Entry(text, s.ents[at].eol))]
           p    == PushLine(s, text, style)
           u    == IF i # 0 THEN a ELSE IF at # 0 THEN b ELSE p
<1>1. text \notin B
  <2>1. LabelText(c, t).k = "label"
    BY DEF LabelText
  <2> HIDE DEF text
  <2> QED BY <2>1 DEF No, text
<1>2. SectionSetLabel(s, c, t, style) = s \/ SectionSetLabel(s, c, t, style) = [u EXCEPT !.dirty = TRUE]
  BY DEF SectionSetLabel
<1>3. i # 0 => i \in DOMAIN s.ents /\ s.ents[i].text \notin B
  <2>1. i # 0 => i \in DOMAIN s.ents /\ s.ents[i].text.k = "label"
    BY LinesFound
  <2> HIDE DEF i
  <2> QED BY <2>1 DEF No
<1>4. at # 0 => at \in DOMAIN s.ents
  BY LinesFound
<1> HIDE DEF text, i, at
<1>5. ASSUME i # 0 PROVE SameHead(s, a) /\ Keeps(s.ents, a.ents, B)
  <2>1. Keeps(s.ents, a.ents, B)
    BY <1>1, <1>3, <1>5, SetLineKeeps
  <2>2. SameHead(s, [s EXCEPT !.ents = [s.ents EXCEPT ![i].text = text]])
    BY SectionEnts
  <2> QED BY <2>1, <2>2
<1>6. ASSUME at # 0 PROVE SameHead(s, b) /\ Keeps(s.ents, b.ents, B)
  <2> DEFINE e == Entry(text, s.ents[at].eol)
             x == InsertAt(s.ents, at, e)
  <2>1. IsEntry(e) /\ e.text = text
    <3>1. \A o : IsEntry(Entry(text, o)) /\ Entry(text, o).text = text
      BY DEF Entry, IsEntry
    <3> QED BY <3>1
  <2>2. at \in 1 .. Len(s.ents) + 1
    <3>1. DOMAIN s.ents = 1 .. Len(s.ents) /\ Len(s.ents) \in Nat
      BY ListLen DEF IsEntries
    <3> QED BY <1>4, <1>6, <3>1
  <2> HIDE DEF e
  <2>3. Keeps(s.ents, x, B)
    BY <1>1, <2>1, <2>2, InsertKeeps
  <2>4. b = [s EXCEPT !.ents = x]
    BY DEF e
  <2> HIDE DEF x, b
  <2>5. [s EXCEPT !.ents = x].ents = x /\ SameHead(s, [s EXCEPT !.ents = x])
    BY SectionEnts
  <2> QED BY <2>3, <2>4, <2>5
<1>7. SameHead(s, p) /\ Keeps(s.ents, p.ents, B)
  BY <1>1, PushKeeps, PushKeepsHead
<1> HIDE DEF a, b, p
<1>8. SameHead(s, u) /\ Keeps(s.ents, u.ents, B)
  BY <1>5, <1>6, <1>7
<1> HIDE DEF u
<1>9. [u EXCEPT !.dirty = TRUE].ents = u.ents
  BY <1>8, SectionExcept DEF SameHead
<1>10. Keeps(s.ents, s.ents, B)
  BY KeepsRefl
<1> QED BY <1>2, <1>8, <1>9, <1>10

\* FlattenSeq loses and adds nothing, and a selection from it is one from each part.
LEMMA FlattenHas ==
  ASSUME NEW L, NEW ss \in Seq(Seq(L))
  PROVE  /\ FlattenSeq(ss) \in Seq(L)
         /\ ToSet(FlattenSeq(ss)) = UNION {ToSet(ss[i]) : i \in 1 .. Len(ss)}
<1> DEFINE n == Len(ss)
           U(k) == UNION {ToSet(ss[i]) : i \in 1 .. k}
<1>0. n \in Nat /\ \A k \in 1 .. n : ss[k] \in Seq(L)
  OBVIOUS
<1>1. PICK h : /\ h[0] = <<>>
               /\ \A k \in 1 .. n : h[k] = h[k - 1] \o ss[k] /\ h[k] \in Seq(L)
               /\ FlattenSeq(ss) = h[n]
  BY FlattenSteps
<1> HIDE DEF n
<1> DEFINE Good(k) == h[k] \in Seq(L) /\ ToSet(h[k]) = U(k)
           N == {k \in Nat : k <= n => Good(k)}
<1>2. Good(0)
  <2> DEFINE z == <<>>
  <2>1. z \in Seq(L) /\ ToSet(z) = {}
    BY DEF ToSet
  <2>2. U(0) = {}
    OBVIOUS
  <2> HIDE DEF z, U
  <2>3. h[0] = z
    BY <1>1 DEF z
  <2> QED BY <2>1, <2>2, <2>3
<1>3. ASSUME NEW k \in Nat, k + 1 <= n, Good(k) PROVE Good(k + 1)
  <2> DEFINE a == h[k]
             b == ss[k + 1]
  <2>0. k + 1 \in 1 .. n /\ (k + 1) - 1 = k
    BY <1>0, <1>3
  <2>1. h[k + 1] = a \o b /\ a \in Seq(L) /\ b \in Seq(L)
    BY <1>0, <1>1, <1>3, <2>0
  <2>2. U(k + 1) = U(k) \union ToSet(b)
    <3>1. 1 .. k + 1 = (1 .. k) \union {k + 1}
      OBVIOUS
    <3> QED BY <3>1
  <2>3. ToSet(a) = U(k)
    BY <1>3
  <2> HIDE DEF a, b, U
  <2>4. a \o b \in Seq(L) /\ ToSet(a \o b) = ToSet(a) \union ToSet(b)
    <3>1. /\ a \o b \in Seq(L) /\ DOMAIN (a \o b) = 1 .. Len(a) + Len(b)
          /\ Len(a) \in Nat /\ Len(b) \in Nat /\ DOMAIN a = 1 .. Len(a) /\ DOMAIN b = 1 .. Len(b)
          /\ Len(a \o b) = Len(a) + Len(b)
      BY <2>1
    <3>2. /\ \A i \in 1 .. Len(a) : (a \o b)[i] = a[i] /\ i \in 1 .. Len(a) + Len(b)
          /\ \A i \in 1 .. Len(b) : (a \o b)[i + Len(a)] = b[i] /\ i + Len(a) \in 1 .. Len(a) + Len(b)
          /\ \A i \in 1 .. Len(a) + Len(b) :
               i \in 1 .. Len(a) \/ \E j \in 1 .. Len(b) : i = j + Len(a)
      <4>1. \A i \in 1 .. Len(a) + Len(b) : i \in 1 .. Len(a) \/ i - Len(a) \in 1 .. Len(b)
        BY <3>1
      <4>2. \A i \in 1 .. Len(a) + Len(b) : i = (i - Len(a)) + Len(a)
        BY <3>1
      <4> QED BY <2>1, <3>1, <4>1, <4>2
    <3> DEFINE c == a \o b
               m == Len(a)
               l == Len(b)
    <3>3. /\ DOMAIN c = 1 .. m + l
          /\ \A i \in 1 .. m : c[i] = a[i] /\ i \in 1 .. m + l
          /\ \A i \in 1 .. l : c[i + m] = b[i] /\ i + m \in 1 .. m + l
          /\ \A i \in 1 .. m + l : i \in 1 .. m \/ \E j \in 1 .. l : i = j + m
          /\ DOMAIN a = 1 .. m /\ DOMAIN b = 1 .. l /\ Len(c) = m + l
      BY <3>1, <3>2
    <3>4. ToSet(c) = ToSet(a) \union ToSet(b)
      <4> HIDE DEF c
      <4>0. ToSet(c) = {c[i] : i \in 1 .. m + l} /\ ToSet(a) = {a[i] : i \in 1 .. m}
            /\ ToSet(b) = {b[i] : i \in 1 .. l}
        BY <3>3 DEF ToSet
      <4> HIDE DEF m, l
      <4>1. ToSet(c) \subseteq ToSet(a) \union ToSet(b)
        BY <3>3, <4>0
      <4>2. ToSet(a) \subseteq ToSet(c) /\ ToSet(b) \subseteq ToSet(c)
        BY <3>3, <4>0
      <4> QED BY <4>1, <4>2
    <3> QED BY <3>1, <3>4
  <2> QED BY <2>1, <2>2, <2>3, <2>4
<1>4. Good(n)
  <2>1. 0 \in N /\ \A k \in Nat : k \in N => k + 1 \in N
    <3> HIDE DEF Good
    <3> QED BY <1>0, <1>2, <1>3
  <2>2. n \in N
    <3> HIDE DEF N
    <3> QED BY <1>0, <2>1, NatInSet
  <2> QED BY <1>0, <2>2
<1>5. U(n) = UNION {ToSet(ss[i]) : i \in 1 .. Len(ss)}
  BY DEF U, n
<1> HIDE DEF U
<1>6. FlattenSeq(ss) \in Seq(L) /\ ToSet(FlattenSeq(ss)) = U(n)
  <2>1. h[n] \in Seq(L) /\ ToSet(h[n]) = U(n)
    BY <1>4
  <2>2. FlattenSeq(ss) = h[n]
    BY <1>1
  <2> HIDE DEF Good, n
  <2> QED BY <2>1, <2>2
<1> HIDE DEF Good, N, n
<1> QED BY <1>5, <1>6

\* Lists put together agree where their parts do.
LEMMA ConcatAgree ==
  ASSUME NEW L, NEW B, NEW x \in Seq(L), NEW y \in Seq(L), NEW u \in Seq(L), NEW v \in Seq(L)
  PROVE  Among(x, B) = Among(y, B) /\ Among(u, B) = Among(v, B)
           => Among(x \o u, B) = Among(y \o v, B)
<1>1. Among(x \o u, B) = Among(x, B) \o Among(u, B)
  BY AmongConcat
<1>2. Among(y \o v, B) = Among(y, B) \o Among(v, B)
  BY AmongConcat
<1> QED BY <1>1, <1>2

LEMMA FlattenAmong ==
  ASSUME NEW L, NEW ss \in Seq(Seq(L)), NEW tt \in Seq(Seq(L)), NEW B,
         \/ Len(tt) = Len(ss)
         \/ (Len(tt) = Len(ss) + 1 /\ Among(tt[Len(tt)], B) = <<>>),
         \A i \in 1 .. Len(ss) : Among(ss[i], B) = Among(tt[i], B)
  PROVE  Among(FlattenSeq(ss), B) = Among(FlattenSeq(tt), B)
<1> DEFINE n == Len(ss)
           m == Len(tt)
<1>0. /\ n \in Nat /\ m \in Nat /\ n <= m
      /\ \A k \in 1 .. n : ss[k] \in Seq(L)
      /\ \A k \in 1 .. m : tt[k] \in Seq(L)
  OBVIOUS
<1>1. PICK h : /\ h[0] = <<>>
               /\ \A k \in 1 .. n : h[k] = h[k - 1] \o ss[k] /\ h[k] \in Seq(L)
               /\ FlattenSeq(ss) = h[n]
  BY FlattenSteps
<1>2. PICK g : /\ g[0] = <<>>
               /\ \A k \in 1 .. m : g[k] = g[k - 1] \o tt[k] /\ g[k] \in Seq(L)
               /\ FlattenSeq(tt) = g[m]
  BY FlattenSteps
<1>3. \A i \in 1 .. n : Among(ss[i], B) = Among(tt[i], B)
  OBVIOUS
<1>4. m = n \/ (m = n + 1 /\ Among(tt[m], B) = <<>>)
  OBVIOUS
<1> HIDE DEF n, m
<1>5. (\A k \in 0 .. n : h[k] \in Seq(L)) /\ \A k \in 0 .. m : g[k] \in Seq(L)
  <2>1. h[0] \in Seq(L) /\ g[0] \in Seq(L)
    <3>1. <<>> \in Seq(L)
      OBVIOUS
    <3> QED BY <1>1, <1>2, <3>1
  <2>2. (\A k \in 0 .. n : k = 0 \/ k \in 1 .. n) /\ \A k \in 0 .. m : k = 0 \/ k \in 1 .. m
    BY <1>0
  <2> QED BY <2>1, <2>2, <1>1, <1>2
<1>11. \A x \in Seq(L), y \in Seq(L), u \in Seq(L), v \in Seq(L) :
         Among(x, B) = Among(y, B) /\ Among(u, B) = Among(v, B)
           => Among(x \o u, B) = Among(y \o v, B)
  BY ConcatAgree
<1> DEFINE a == [k \in 0 .. n |-> Among(h[k], B)]
           b == [k \in 0 .. n |-> Among(g[k], B)]
<1>6. \A k \in 1 .. n : a[k - 1] = b[k - 1] => a[k] = b[k]
  <2> SUFFICES ASSUME NEW k \in 1 .. n, a[k - 1] = b[k - 1] PROVE a[k] = b[k]
    OBVIOUS
  <2>1. k \in 0 .. n /\ k - 1 \in 0 .. n /\ k \in 1 .. m /\ k - 1 \in 0 .. m
    BY <1>0
  <2>2. Among(h[k - 1], B) = Among(g[k - 1], B)
    BY <2>1
  <2> DEFINE x == h[k - 1]
             y == g[k - 1]
             u == ss[k]
             v == tt[k]
  <2>3. /\ x \in Seq(L) /\ y \in Seq(L) /\ u \in Seq(L) /\ v \in Seq(L)
        /\ h[k] = x \o u /\ g[k] = y \o v /\ Among(x, B) = Among(y, B) /\ Among(u, B) = Among(v, B)
    BY <1>0, <1>1, <1>2, <1>3, <1>5, <2>1, <2>2
  <2>4. a[k] = Among(h[k], B) /\ b[k] = Among(g[k], B)
    BY <2>1
  <2> HIDE DEF a, b, x, y, u, v
  <2>5. Among(x \o u, B) = Among(y \o v, B)
    BY <2>3, <1>11
  <2> QED BY <2>3, <2>4, <2>5
<1>7. a[0] = b[0] /\ a[n] = Among(h[n], B) /\ b[n] = Among(g[n], B)
  BY <1>0, <1>1, <1>2
<1>8. Among(h[n], B) = Among(g[n], B)
  <2>1. a[n] = b[n]
    <3> HIDE DEF a, b
    <3> QED BY <1>0, <1>6, <1>7, StepsAgree
  <2> QED BY <1>7, <2>1
<1>9. CASE m = n
  BY <1>1, <1>2, <1>8, <1>9
<1>10. CASE m = n + 1 /\ Among(tt[m], B) = <<>>
  <2> DEFINE y == g[n]
             v == tt[m]
             c == Among(y, B)
             z == <<>>
  <2>1. m \in 1 .. m /\ m - 1 = n /\ n \in 0 .. m
    BY <1>0, <1>10
  <2>2. y \in Seq(L) /\ v \in Seq(L) /\ g[m] = y \o v
    BY <1>0, <1>2, <1>5, <2>1
  <2> HIDE DEF y, v
  <2>6. y \in Seq(L) /\ v \in Seq(L)
    BY <2>2
  <2>7. Among(y \o v, B) = Among(y, B) \o Among(v, B)
    BY <2>6, AmongConcat
  <2>8. c \in Seq(L)
    BY <2>6, AmongIs
  <2>3. Among(y \o v, B) = Among(y, B) \o Among(v, B) /\ c \in Seq(L)
    BY <2>7, <2>8
  <2> HIDE DEF c
  <2>4. c \o z = c
    BY <2>3
  <2>5. Among(v, B) = z
    BY <1>10 DEF v
  <2> QED BY <1>1, <1>2, <1>8, <2>2, <2>3, <2>4, <2>5 DEF y, c
<1> QED BY <1>4, <1>9, <1>10

-----------------------------------------------------------------------------
(* Documents that agree on some lines of the sections of some kinds.       *)

\* A document, to its lines.
IsDocument(d) == IsDoc(d) /\ \A i \in DOMAIN d.secs : IsEntries(d.secs[i].ents)

\* e has the sections of d and maybe one more; in those of the kinds K the
\* lines with texts in B are the same, in their order.
Agrees(d, e, K, B) ==
  /\ IsDocument(e)
  /\ \/ Len(e.secs) = Len(d.secs)
     \/ /\ Len(e.secs) = Len(d.secs) + 1
        /\ e.secs[Len(e.secs)].kind \in K => Among(Texts(e.secs[Len(e.secs)].ents), B) = <<>>
  /\ \A i \in DOMAIN d.secs :
       /\ SameHead(d.secs[i], e.secs[i])
       /\ d.secs[i].kind \in K => Among(Texts(e.secs[i].ents), B) = Among(Texts(d.secs[i].ents), B)

LEMMA AgreesRefl == ASSUME NEW d, IsDocument(d), NEW K, NEW B PROVE Agrees(d, d, K, B)
BY SameRefl DEF Agrees, IsDocument, SameHeads

LEMMA AgreesTrans ==
  ASSUME NEW d, IsDocument(d), NEW e, NEW f, NEW K, NEW B, Agrees(d, e, K, B), Agrees(e, f, K, B),
         Len(f.secs) = Len(e.secs)
  PROVE  Agrees(d, f, K, B)
<1> DEFINE n == Len(d.secs)
           m == Len(e.secs)
<1>1. /\ n \in Nat /\ DOMAIN d.secs = 1 .. n /\ DOMAIN e.secs = 1 .. m
      /\ Len(f.secs) = m /\ (m = n \/ m = n + 1)
  BY DocDomain DEF IsDocument, Agrees
<1> HIDE DEF n, m
<1>2. DOMAIN d.secs \subseteq DOMAIN e.secs /\ m \in {n, n + 1} /\ (m = n + 1 => m \in DOMAIN e.secs)
  BY <1>1
<1>3. \A i \in DOMAIN e.secs :
        /\ SameHead(e.secs[i], f.secs[i])
        /\ e.secs[i].kind \in K => Among(Texts(f.secs[i].ents), B) = Among(Texts(e.secs[i].ents), B)
  BY DEF Agrees
<1>4. \A i \in DOMAIN d.secs :
        /\ SameHead(d.secs[i], e.secs[i])
        /\ d.secs[i].kind \in K => Among(Texts(e.secs[i].ents), B) = Among(Texts(d.secs[i].ents), B)
  BY DEF Agrees
<1>5. \A i \in DOMAIN d.secs :
        /\ SameHead(d.secs[i], f.secs[i])
        /\ d.secs[i].kind \in K => Among(Texts(f.secs[i].ents), B) = Among(Texts(d.secs[i].ents), B)
  BY <1>2, <1>3, <1>4, SameHeadTrans DEF SameHead
<1>6. m = n + 1 /\ f.secs[m].kind \in K => Among(Texts(f.secs[m].ents), B) = <<>>
  <2> SUFFICES ASSUME m = n + 1, f.secs[m].kind \in K
               PROVE  Among(Texts(f.secs[m].ents), B) = <<>>
    OBVIOUS
  <2>1. e.secs[m].kind \in K /\ Among(Texts(f.secs[m].ents), B) = Among(Texts(e.secs[m].ents), B)
    BY <1>2, <1>3 DEF SameHead
  <2>2. e.secs[m].kind \in K => Among(Texts(e.secs[m].ents), B) = <<>>
    <3>1. n # n + 1
      BY <1>1
    <3> QED BY <3>1 DEF Agrees, n, m
  <2> QED BY <2>1, <2>2
<1>7. IsDocument(f)
  BY DEF Agrees
<1>8. Len(f.secs) = m /\ (m = n \/ m = n + 1)
  BY <1>1
<1> QED BY <1>5, <1>6, <1>7, <1>8 DEF Agrees, n

\* The sections of a document with the same heads.
LEMMA HeadsAgree ==
  ASSUME NEW d, IsDocument(d), NEW e, SameHeads(d, e), NEW K, NEW B,
         \A i \in DOMAIN d.secs :
           /\ IsEntries(e.secs[i].ents)
           /\ d.secs[i].kind \in K => Among(Texts(e.secs[i].ents), B) = Among(Texts(d.secs[i].ents), B)
  PROVE  Agrees(d, e, K, B)
<1>1. DOMAIN e.secs = DOMAIN d.secs
  BY DocDomain DEF SameHeads, IsDocument
<1>2. IsDocument(e)
  BY <1>1 DEF IsDocument, SameHeads
<1> QED BY <1>2 DEF SameHeads, Agrees

\* One section rewritten, the lines before the sections, and every section of a board.
LEMMA OneAgrees ==
  ASSUME NEW d, IsDocument(d), NEW i, NEW s, NEW K, NEW B,
         i \in DOMAIN d.secs => /\ SameHead(d.secs[i], s) /\ IsEntries(s.ents)
                                /\ d.secs[i].kind \in K => Keeps(d.secs[i].ents, s.ents, B)
  PROVE  Agrees(d, InSection(d, i, s), K, B) /\ Len(InSection(d, i, s).secs) = Len(d.secs)
<1> DEFINE x == [d.secs EXCEPT ![i] = s]
           e == InSection(d, i, s)
<1>1. SameHeads(d, e)
  BY InSectionKeeps DEF IsDocument
<1>2. e.secs = x
  <2>1. e = [d EXCEPT !.secs = x]
    BY DEF InSection
  <2> HIDE DEF x, e
  <2>2. e = [pre |-> d.pre, secs |-> x, dirty |-> d.dirty]
    BY <2>1, DocExcept DEF IsDocument
  <2> QED BY <2>2
<1>3. \A k \in DOMAIN d.secs : x[k] = IF k = i THEN s ELSE d.secs[k]
  OBVIOUS
<1> HIDE DEF e, x
<1>4. \A k \in DOMAIN d.secs :
        /\ IsEntries(e.secs[k].ents)
        /\ d.secs[k].kind \in K => Among(Texts(e.secs[k].ents), B) = Among(Texts(d.secs[k].ents), B)
  BY <1>2, <1>3 DEF Keeps, IsDocument
<1> QED BY <1>1, <1>4, HeadsAgree DEF SameHeads, e

LEMMA PreAgrees ==
  ASSUME NEW d, IsDocument(d), NEW x, NEW K, NEW B
  PROVE  Agrees(d, [d EXCEPT !.pre = x], K, B) /\ Len([d EXCEPT !.pre = x].secs) = Len(d.secs)
<1> DEFINE e == [d EXCEPT !.pre = x]
<1>1. SameHeads(d, e)
  <2>1. IsDoc(d) /\ (0 \in DOMAIN d.secs => SameHead(d.secs[0], d.secs[0]))
    BY DEF IsDocument, IsDoc, SameHead
  <2> QED BY <2>1, OneKeeps
<1>2. e = [pre |-> x, secs |-> d.secs, dirty |-> d.dirty]
  BY DocExcept DEF IsDocument
<1> HIDE DEF e
<1>3. e.secs = d.secs
  BY <1>2
<1> QED BY <1>1, <1>3, HeadsAgree DEF IsDocument, SameHeads, e

\* Every section of a board made anew.
LEMMA BoardAgrees ==
  ASSUME NEW d, IsDocument(d), NEW e, SameHeads(d, e), NEW K, NEW B, NEW x, e = [d EXCEPT !.secs = x],
         \A i \in DOMAIN d.secs : x[i] = d.secs[i] \/ Keeps(d.secs[i].ents, x[i].ents, B)
  PROVE  Agrees(d, e, K, B)
<1>1. e = [pre |-> d.pre, secs |-> x, dirty |-> d.dirty]
  BY DocExcept DEF IsDocument
<1>2. e.secs = x
  BY <1>1
<1> QED BY <1>2, HeadsAgree DEF IsDocument, Keeps

\* A section is added behind the others; the last one may gain a blank line.
LEMMA AppendAgrees ==
  ASSUME NEW d, IsDocument(d), NEW n, IsName(n), NEW kind, NEW K, NEW B, No("blank", B)
  PROVE  /\ Agrees(d, append_section(d, n, kind), K, B)
         /\ Len(append_section(d, n, kind).secs) = Len(d.secs) + 1
         /\ append_section(d, n, kind).secs[Len(d.secs) + 1].ents = <<>>
<1> DEFINE style == file_eol(d)
           bytes == serialize(d)
           open  == bytes # <<>> /\ bytes[Len(bytes)].eol = "none"
           l     == Len(d.secs)
           ended == IF ~open THEN d
                    ELSE IF d.secs # <<>>
                    THEN [d EXCEPT !.secs[Len(d.secs)] = WithEndEol(@, style)]
                    ELSE [d EXCEPT !.pre[Len(d.pre)].eol = style]
           blank == Entry(BlankText, style)
           apart == IF bytes = <<>> \/ last_is_blank(ended) THEN ended
                    ELSE IF d.secs # <<>>
                    THEN [ended EXCEPT !.secs[Len(d.secs)].ents = Append(@, blank)]
                    ELSE [ended EXCEPT !.pre = Append(@, blank)]
           new   == NewSection(n, kind, IF open THEN "none" ELSE style)
           last2 == [apart EXCEPT !.secs = Append(@, new)]
           f     == append_section(d, n, kind)
           Good(e) == Agrees(d, e, K, B) /\ Len(e.secs) = l
<1>1. f = [last2 EXCEPT !.dirty = TRUE]
  BY DEF append_section
<1>2. Good(ended)
  <2>1. Good(d)
    BY AgreesRefl
  <2>2. Good([d EXCEPT !.secs[Len(d.secs)] = WithEndEol(@, style)])
    <3> DEFINE s == WithEndEol(d.secs[l], style)
    <3>1. l \in DOMAIN d.secs => SameHead(d.secs[l], s) /\ IsEntries(s.ents)
                                 /\ (d.secs[l].kind \in K => Keeps(d.secs[l].ents, s.ents, B))
      <4> HIDE DEF style
      <4> QED BY EolKeeps DEF IsDocument, IsDoc, Keeps
    <3> HIDE DEF s, l
    <3>2. Agrees(d, InSection(d, l, s), K, B) /\ Len(InSection(d, l, s).secs) = Len(d.secs)
      BY <3>1, OneAgrees
    <3> QED BY <3>2 DEF InSection, s, l
  <2>3. Good([d EXCEPT !.pre[Len(d.pre)].eol = style])
    <3> DEFINE x == [d.pre EXCEPT ![Len(d.pre)].eol = style]
    <3>1. Agrees(d, [d EXCEPT !.pre = x], K, B) /\ Len([d EXCEPT !.pre = x].secs) = Len(d.secs)
      <4> HIDE DEF x
      <4> QED BY PreAgrees
    <3> QED BY <3>1
  <2> HIDE DEF open, style, Good
  <2> QED BY <2>1, <2>2, <2>3
<1> HIDE DEF ended
<1>3. Good(apart)
  <2>0. IsDocument(ended) /\ Len(ended.secs) = l
    BY <1>2 DEF Agrees
  <2>4. ASSUME NEW e, Agrees(ended, e, K, B), Len(e.secs) = Len(ended.secs) PROVE Good(e)
    BY <1>2, <2>4, AgreesTrans
  <2>1. Good([ended EXCEPT !.secs[Len(d.secs)].ents = Append(@, blank)])
    <3> DEFINE t == [ended.secs[l] EXCEPT !.ents = Append(ended.secs[l].ents, blank)]
    <3>1. l \in DOMAIN ended.secs => SameHead(ended.secs[l], t) /\ IsEntries(t.ents)
                                     /\ (ended.secs[l].kind \in K => Keeps(ended.secs[l].ents, t.ents, B))
      <4> SUFFICES ASSUME l \in DOMAIN ended.secs
                   PROVE  SameHead(ended.secs[l], t) /\ Keeps(ended.secs[l].ents, t.ents, B)
        BY DEF Keeps
      <4> DEFINE s == ended.secs[l]
                 y == Append(s.ents, blank)
      <4>1. IsSection(s) /\ IsEntries(s.ents)
        BY <2>0 DEF IsDocument, IsDoc
      <4>2. IsEntry(blank) /\ blank.text \notin B
        <5>1. \A o : IsEntry(Entry(BlankText, o)) /\ Entry(BlankText, o).text.k = "blank"
          BY DEF Entry, IsEntry, BlankText
        <5>2. IsEntry(blank) /\ blank.text.k = "blank"
          BY <5>1
        <5> HIDE DEF blank
        <5> QED BY <5>2 DEF No
      <4> HIDE DEF blank, s
      <4>3. Keeps(s.ents, y, B)
        BY <4>1, <4>2, AppendKeeps
      <4> HIDE DEF y
      <4>4. SameHead(s, [s EXCEPT !.ents = y]) /\ [s EXCEPT !.ents = y].ents = y
        BY <4>1, SectionEnts
      <4> QED BY <4>3, <4>4 DEF s, y
    <3>2. [ended EXCEPT !.secs[Len(d.secs)].ents = Append(@, blank)] = InSection(ended, l, t)
      BY DEF InSection
    <3> HIDE DEF t, l, Good
    <3>3. Agrees(ended, InSection(ended, l, t), K, B)
          /\ Len(InSection(ended, l, t).secs) = Len(ended.secs)
      BY <2>0, <3>1, OneAgrees
    <3> QED BY <2>4, <3>2, <3>3
  <2>2. Good([ended EXCEPT !.pre = Append(@, blank)])
    <3> DEFINE x == Append(ended.pre, blank)
    <3> HIDE DEF Good, x
    <3>1. Agrees(ended, [ended EXCEPT !.pre = x], K, B)
          /\ Len([ended EXCEPT !.pre = x].secs) = Len(ended.secs)
      BY <2>0, PreAgrees
    <3> QED BY <2>4, <3>1 DEF x
  <2> HIDE DEF blank, bytes, Good
  <2> QED BY <1>2, <2>1, <2>2
<1> HIDE DEF apart
<1>4. Agrees(d, [last2 EXCEPT !.dirty = TRUE], K, B)
      /\ Len([last2 EXCEPT !.dirty = TRUE].secs) = l + 1
      /\ [last2 EXCEPT !.dirty = TRUE].secs[l + 1].ents = <<>>
  <2> DEFINE x == Append(apart.secs, new)
             e == [last2 EXCEPT !.dirty = TRUE]
  <2>1. IsDocument(apart) /\ IsDoc(apart) /\ Len(apart.secs) = l /\ Agrees(d, apart, K, B)
    BY <1>3 DEF Agrees, IsDocument
  <2>2. IsSection(new) /\ new.name = n /\ new.kind = kind /\ new.ents = <<>>
    BY NewSectionIs
  <2> HIDE DEF new, Good
  <2>3. last2 = [pre |-> apart.pre, secs |-> x, dirty |-> apart.dirty]
    <3> HIDE DEF x
    <3>1. last2 = [apart EXCEPT !.secs = x]
      BY DEF x
    <3> QED BY <3>1, <2>1, DocExcept
  <2>4. /\ IsList(x) /\ Len(x) = l + 1 /\ x[l + 1] = new
        /\ \A i \in DOMAIN apart.secs : x[i] = apart.secs[i]
    BY <2>1, ListAppend DEF IsDoc
  <2>5. /\ DOMAIN apart.secs = 1 .. l /\ l \in Nat
        /\ DOMAIN d.secs = 1 .. l
        /\ DOMAIN x = 1 .. l + 1
    <3> HIDE DEF x, l
    <3>1. DOMAIN d.secs = 1 .. l /\ l \in Nat
      BY DocDomain DEF l, IsDocument
    <3> QED BY <2>1, <2>4, <3>1, DocDomain, ListLen
  <2> HIDE DEF x
  <2>6. e.secs = x /\ e = [pre |-> e.pre, secs |-> e.secs, dirty |-> e.dirty]
    <3> DEFINE p == apart.pre
               y == apart.dirty
               r == [pre |-> p, secs |-> x, dirty |-> y]
    <3>1. last2 = r
      BY <2>3
    <3>2. \A z : [r EXCEPT !.dirty = z] = [pre |-> p, secs |-> x, dirty |-> z]
      <4> HIDE DEF p, y, last2, e
      <4> QED BY DocMark
    <3> HIDE DEF last2, r
    <3>3. e = [pre |-> apart.pre, secs |-> x, dirty |-> TRUE]
      BY <3>1, <3>2
    <3> HIDE DEF e
    <3> QED BY <3>3
  <2> HIDE DEF e, l
  <2>7. IsEntries(<<>>) /\ Among(Texts(<<>>), B) = <<>>
    <3> DEFINE z == <<>>
    <3>0. z \in Seq({}) /\ DOMAIN z = {}
      OBVIOUS
    <3>2. Texts(z) = z
      BY DEF Texts
    <3> HIDE DEF z
    <3>1. IsList(z) /\ DOMAIN z = {}
      BY <3>0, ListOfSeq
    <3>3. Among(z, B) = z
      BY AmongEmpty DEF z
    <3>4. IsEntries(z) /\ Among(Texts(z), B) = z
      BY <3>1, <3>2, <3>3 DEF IsEntries
    <3> QED BY <3>4 DEF z
  <2>8. \A i \in 1 .. l + 1 : IsSection(x[i]) /\ IsEntries(x[i].ents)
    <3>1. \A i \in 1 .. l + 1 : i \in DOMAIN apart.secs \/ i = l + 1
      BY <2>5
    <3> QED BY <3>1, <2>1, <2>2, <2>4, <2>7 DEF IsDoc, IsDocument
  <2>9. IsDocument(e)
    BY <2>4, <2>5, <2>6, <2>8 DEF IsDoc, IsDocument
  <2>10. \A i \in DOMAIN d.secs :
           /\ SameHead(d.secs[i], e.secs[i])
           /\ d.secs[i].kind \in K => Among(Texts(e.secs[i].ents), B) = Among(Texts(d.secs[i].ents), B)
    BY <2>1, <2>4, <2>5, <2>6 DEF Agrees
  <2>11. Len(e.secs) = l + 1 /\ e.secs[l + 1].ents = <<>>
    BY <2>2, <2>4, <2>6
  <2>12. Agrees(d, e, K, B)
    BY <2>7, <2>9, <2>10, <2>11 DEF Agrees, l
  <2> QED BY <2>11, <2>12 DEF e
<1> HIDE DEF f
<1>5. Agrees(d, f, K, B) /\ Len(f.secs) = l + 1 /\ f.secs[l + 1].ents = <<>>
  BY <1>1, <1>4
<1> QED BY <1>5 DEF f, l

\* A section is made where there is none, and then written to.
LEMMA MadeAgrees ==
  ASSUME NEW d, IsDocument(d), NEW n, IsName(n), NEW kind, NEW K, NEW B, No("blank", B),
         NEW base, base = d \/ base = append_section(d, n, kind), NEW i, NEW s,
         i \in DOMAIN base.secs => /\ SameHead(base.secs[i], s) /\ IsEntries(s.ents)
                                   /\ base.secs[i].kind \in K => Keeps(base.secs[i].ents, s.ents, B)
  PROVE  Agrees(d, InSection(base, i, s), K, B)
<1>1. Agrees(d, base, K, B)
  BY AppendAgrees, AgreesRefl
<1>2. IsDocument(base)
  BY <1>1 DEF Agrees
<1>3. Agrees(base, InSection(base, i, s), K, B) /\ Len(InSection(base, i, s).secs) = Len(base.secs)
  BY <1>2, OneAgrees
<1> QED BY <1>1, <1>3, AgreesTrans

LEMMA DocumentSections ==
  ASSUME NEW d, IsDocument(d), NEW n, IsName(n), NEW kind, NEW base,
         base = d \/ base = append_section(d, n, kind)
  PROVE  IsDocument(base) /\ \A i \in DOMAIN base.secs : IsSection(base.secs[i]) /\ IsEntries(base.secs[i].ents)
<1>1. No("blank", {})
  BY DEF No
<1>2. IsDocument(base)
  BY <1>1, AppendAgrees DEF Agrees
<1> QED BY <1>2 DEF IsDocument, IsDoc

\* Writing and removing labels leaves the lines of other sorts.
LEMMA LabelAgrees ==
  ASSUME NEW d, IsDocument(d), NEW b, NEW c, NEW t, NEW K, NEW B, No("label", B), No("blank", B)
  PROVE  Agrees(d, set_label(d, b, c, t), K, B)
<1> DEFINE i == LastSection(d, LAMBDA s : feeds_board(s, b) /\ label_index(s, c) # 0)
           k == LastSection(d, LAMBDA s : feeds_board(s, b) /\ get_binding(s, c) # NoVal)
           set(s) == SectionSetLabel(s, c, t, file_eol(d))
           at == LastSection(d, LAMBDA s : feeds_board(s, b))
           base == IF at = 0 THEN append_section(d, PlainName(Main), "main") ELSE d
           j == IF at = 0 THEN Len(base.secs) ELSE at
<1>1. set_label(d, b, c, t) = IF i # 0 THEN InSection(d, i, set(d.secs[i]))
                              ELSE IF k # 0 THEN InSection(d, k, set(d.secs[k]))
                              ELSE InSection(base, j, set(base.secs[j]))
  BY DEF set_label, InTarget
<1>2. ASSUME NEW s, IsSection(s), IsEntries(s.ents)
      PROVE  SameHead(s, set(s)) /\ IsEntries(set(s).ents) /\ Keeps(s.ents, set(s).ents, B)
  <2> DEFINE e == file_eol(d)
  <2> HIDE DEF e
  <2>1. SameHead(s, SectionSetLabel(s, c, t, e)) /\ Keeps(s.ents, SectionSetLabel(s, c, t, e).ents, B)
    BY <1>2, LabelKeepsHead, LabelKeeps
  <2> QED BY <2>1 DEF e, Keeps
<1>3. IsName(PlainName(Main))
  BY PlainIsName
<1>4. base = d \/ base = append_section(d, PlainName(Main), "main")
  OBVIOUS
<1> HIDE DEF set, i, k, at, j, base
<1>5. /\ \A x \in DOMAIN d.secs : IsSection(d.secs[x]) /\ IsEntries(d.secs[x].ents)
      /\ \A x \in DOMAIN base.secs : IsSection(base.secs[x]) /\ IsEntries(base.secs[x].ents)
  BY <1>3, <1>4, DocumentSections
<1>6. Agrees(d, InSection(d, i, set(d.secs[i])), K, B)
  BY <1>2, <1>5, OneAgrees
<1>7. Agrees(d, InSection(d, k, set(d.secs[k])), K, B)
  BY <1>2, <1>5, OneAgrees
<1>8. Agrees(d, InSection(base, j, set(base.secs[j])), K, B)
  BY <1>2, <1>3, <1>4, <1>5, MadeAgrees
<1> QED BY <1>1, <1>6, <1>7, <1>8

\* A value or a cleared key is an edit of bindings only, a cleared label of labels only.
LEMMA BindingAgrees ==
  ASSUME NEW d, IsDocument(d), NEW b, NEW c, NEW v, NEW K, NEW B, No("bind", B), No("blank", B)
  PROVE  Agrees(d, set_layer_binding(d, b, c, v), K, B)
<1> DEFINE i == LastSection(d, LAMBDA s : feeds_board(s, b) /\ get_binding(s, c) # NoVal)
           set(s) == set_or_add_binding(s, c, v, file_eol(d))
           at == LastSection(d, LAMBDA s : feeds_board(s, b))
           base == IF at = 0 THEN append_section(d, PlainName(Main), "main") ELSE d
           j == IF at = 0 THEN Len(base.secs) ELSE at
<1>1. set_layer_binding(d, b, c, v) = IF i # 0 THEN InSection(d, i, set(d.secs[i]))
                                      ELSE InSection(base, j, set(base.secs[j]))
  BY DEF set_layer_binding, InTarget
<1>2. ASSUME NEW s, IsSection(s), IsEntries(s.ents)
      PROVE  SameHead(s, set(s)) /\ IsEntries(set(s).ents) /\ Keeps(s.ents, set(s).ents, B)
  <2> DEFINE e == file_eol(d)
  <2> HIDE DEF e
  <2>1. SameHead(s, set_or_add_binding(s, c, v, e)) /\ Keeps(s.ents, set_or_add_binding(s, c, v, e).ents, B)
    BY <1>2, SetKeepsHead, SetKeeps
  <2> QED BY <2>1 DEF e, Keeps
<1>3. IsName(PlainName(Main))
  BY PlainIsName
<1>4. base = d \/ base = append_section(d, PlainName(Main), "main")
  OBVIOUS
<1> HIDE DEF set, i, at, j, base
<1>5. /\ \A x \in DOMAIN d.secs : IsSection(d.secs[x]) /\ IsEntries(d.secs[x].ents)
      /\ \A x \in DOMAIN base.secs : IsSection(base.secs[x]) /\ IsEntries(base.secs[x].ents)
  BY <1>3, <1>4, DocumentSections
<1>6. Agrees(d, InSection(d, i, set(d.secs[i])), K, B)
  BY <1>2, <1>5, OneAgrees
<1>8. Agrees(d, InSection(base, j, set(base.secs[j])), K, B)
  BY <1>2, <1>3, <1>4, <1>5, MadeAgrees
<1> QED BY <1>1, <1>6, <1>8

LEMMA ClearAgrees ==
  ASSUME NEW d, IsDocument(d), NEW b, NEW c, NEW K, NEW B
  PROVE  /\ No("bind", B) => Agrees(d, clear_binding(d, b, c), K, B)
         /\ No("bind", B) => Agrees(d, remove_chord(d, b, c), K, B)
         /\ No("label", B) => Agrees(d, clear_label(d, b, c), K, B)
<1>0. /\ SameHeads(d, clear_binding(d, b, c))
      /\ SameHeads(d, clear_label(d, b, c))
      /\ SameHeads(d, remove_chord(d, b, c))
      /\ \A i \in DOMAIN d.secs : IsSection(d.secs[i]) /\ IsEntries(d.secs[i].ents)
  BY OnBoardKeeps DEF IsDocument, IsDoc
<1>1. ASSUME No("bind", B) PROVE Agrees(d, clear_binding(d, b, c), K, B)
  <2> DEFINE x == [i \in DOMAIN d.secs |->
                     IF feeds_board(d.secs[i], b) THEN remove_binding(d.secs[i], c) ELSE d.secs[i]]
  <2>1. clear_binding(d, b, c) = [d EXCEPT !.secs = x]
    BY DEF clear_binding, OnBoard
  <2>2. \A i \in DOMAIN d.secs : x[i] = d.secs[i] \/ Keeps(d.secs[i].ents, x[i].ents, B)
    BY <1>0, <1>1, ClearKeeps
  <2> HIDE DEF x
  <2> QED BY <1>0, <2>1, <2>2, BoardAgrees
<1>2. ASSUME No("label", B) PROVE Agrees(d, clear_label(d, b, c), K, B)
  <2> DEFINE x == [i \in DOMAIN d.secs |->
                     IF feeds_board(d.secs[i], b) THEN SectionClearLabel(d.secs[i], c) ELSE d.secs[i]]
  <2>1. clear_label(d, b, c) = [d EXCEPT !.secs = x]
    BY DEF clear_label, OnBoard
  <2>2. \A i \in DOMAIN d.secs : x[i] = d.secs[i] \/ Keeps(d.secs[i].ents, x[i].ents, B)
    BY <1>0, <1>2, ClearKeeps
  <2> HIDE DEF x
  <2> QED BY <1>0, <2>1, <2>2, BoardAgrees
<1>3. ASSUME No("bind", B) PROVE Agrees(d, remove_chord(d, b, c), K, B)
  <2> DEFINE x == [i \in DOMAIN d.secs |->
                     IF feeds_board(d.secs[i], b) THEN DropChord(d.secs[i], c) ELSE d.secs[i]]
  <2>1. remove_chord(d, b, c) = [d EXCEPT !.secs = x]
    BY DEF remove_chord, OnBoard, DropChord
  <2>2. \A i \in DOMAIN d.secs : x[i] = d.secs[i] \/ Keeps(d.secs[i].ents, x[i].ents, B)
    BY <1>0, <1>3, ClearKeeps
  <2> HIDE DEF x
  <2> QED BY <1>0, <2>1, <2>2, BoardAgrees
<1> QED BY <1>1, <1>2, <1>3

\* A chord, for which the document remains one.
LEMMA ChordDocument ==
  ASSUME NEW d, IsDocument(d), NEW b, NEW c, NEW v
  PROVE  IsDocument(set_layer_chord(d, b, c, v)) /\ IsDocument(remove_chord(d, b, c))
<1> DEFINE holds(s) == SelectLastInSeq(s.ents, LAMBDA e : SameChord(e, c))
           i == LastSection(d, LAMBDA s : feeds_board(s, b) /\ holds(s) # 0)
           spelt == d.secs[i].ents[holds(d.secs[i])].text.key
           set(s) == set_or_add_binding(s, c, v, file_eol(d))
           at == LastSection(d, LAMBDA s : feeds_board(s, b))
           base == IF at = 0 THEN append_section(d, PlainName(Main), "main") ELSE d
           j == IF at = 0 THEN Len(base.secs) ELSE at
           new == set_or_add_binding(d.secs[i], spelt, v, file_eol(d))
           eol == file_eol(d)
           K == {}
           B == {}
<1>1. set_layer_chord(d, b, c, v) = IF i # 0 THEN InSection(d, i, new)
                                    ELSE InSection(base, j, set(base.secs[j]))
  BY DEF set_layer_chord, InTarget
<1>0. No("bind", B) /\ No("blank", B)
  BY DEF No
<1>2. ASSUME NEW s, IsSection(s), IsEntries(s.ents), NEW x
      PROVE  SameHead(s, set_or_add_binding(s, x, v, eol)) /\ IsEntries(set_or_add_binding(s, x, v, eol).ents)
             /\ Keeps(s.ents, set_or_add_binding(s, x, v, eol).ents, B)
  <2> HIDE DEF eol, B
  <2> QED BY <1>0, <1>2, SetKeepsHead, SetKeeps DEF Keeps
<1>3. IsName(PlainName(Main))
  BY PlainIsName
<1>4. base = d \/ base = append_section(d, PlainName(Main), "main")
  OBVIOUS
<1>5. \A s : IsSection(s) /\ IsEntries(s.ents)
             => SameHead(s, set(s)) /\ IsEntries(set(s).ents) /\ Keeps(s.ents, set(s).ents, B)
  <2> HIDE DEF B
  <2> QED BY <1>2 DEF eol
<1>6. IsSection(d.secs[i]) /\ IsEntries(d.secs[i].ents)
         => SameHead(d.secs[i], new) /\ IsEntries(new.ents) /\ Keeps(d.secs[i].ents, new.ents, B)
  <2> HIDE DEF holds, i, spelt, B
  <2> QED BY <1>2 DEF eol
<1> HIDE DEF holds, set, i, at, j, base, new, K, B
<1>7. /\ \A x \in DOMAIN d.secs : IsSection(d.secs[x]) /\ IsEntries(d.secs[x].ents)
      /\ \A x \in DOMAIN base.secs : IsSection(base.secs[x]) /\ IsEntries(base.secs[x].ents)
  BY <1>3, <1>4, DocumentSections
<1>8. Agrees(d, InSection(d, i, new), K, B)
  BY <1>6, <1>7, OneAgrees
<1>9. Agrees(d, InSection(base, j, set(base.secs[j])), K, B)
  BY <1>0, <1>3, <1>4, <1>5, <1>7, MadeAgrees
<1>10. IsDocument(set_layer_chord(d, b, c, v))
  BY <1>1, <1>8, <1>9 DEF Agrees
<1>11. IsDocument(remove_chord(d, b, c))
  BY <1>0, ClearAgrees DEF Agrees
<1> QED BY <1>10, <1>11

-----------------------------------------------------------------------------
(* Sections whose kind is what their name says.                            *)

\* The kinds of a composite and of [global] are those of their names.
FitsName(n, kind) ==
  /\ IsList(n.parts) /\ n.parts # <<>>
  /\ kind = "composite" => Len(n.parts) > 1
  /\ n = PlainName(<<"global">>) <=> kind = "global"
  /\ kind = "main" => n.parts = Main
Fits(d) == \A i \in DOMAIN d.secs : FitsName(d.secs[i].name, d.secs[i].kind)

\* The kind a name is given, case by case.
LEMMA KindIs ==
  ASSUME NEW n
  PROVE  section_kind(n) = IF n = PlainName(<<"ids">>) THEN "ids"
                           ELSE IF n = PlainName(<<"global">>) THEN "global"
                           ELSE IF n = PlainName(<<"aliases">>) THEN "aliases"
                           ELSE IF n.parts = Main /\ ~n.pad THEN "main"
                           ELSE IF Len(n.parts) > 1 THEN "composite" ELSE "layer"
<1> DEFINE a == n = PlainName(<<"ids">>)
           b == n = PlainName(<<"global">>)
           c == n = PlainName(<<"aliases">>)
           e == n.parts = Main /\ ~n.pad
           f == Len(n.parts) > 1
<1>1. PlainName(<<"ids">>) # PlainName(<<"global">>) /\ PlainName(<<"ids">>) # PlainName(<<"aliases">>)
      /\ PlainName(<<"aliases">>) # PlainName(<<"global">>)
  <2>1. PlainName(<<"ids">>).parts[1] = "ids" /\ PlainName(<<"global">>).parts[1] = "global"
        /\ PlainName(<<"aliases">>).parts[1] = "aliases"
    BY DEF PlainName
  <2> QED BY <2>1
<1>2. \A x \in {"ids", "global", "aliases"} : PlainName(<<x>>).parts # Main /\ ~(Len(PlainName(<<x>>).parts) > 1)
  <2> SUFFICES ASSUME NEW x \in {"ids", "global", "aliases"}
               PROVE  PlainName(<<x>>).parts # Main /\ ~(Len(PlainName(<<x>>).parts) > 1)
    OBVIOUS
  <2>1. PlainName(<<x>>).parts = <<x>> /\ Len(PlainName(<<x>>).parts) = 1
    BY PlainIsName, PlainList
  <2>2. <<x>> # Main
    <3>1. <<x>>[1] # Main[1]
      BY DEF Main
    <3> QED BY <3>1
  <2> DEFINE p == PlainName(<<x>>).parts
  <2>3. p # Main /\ Len(p) = 1
    BY <2>1, <2>2
  <2> HIDE DEF p
  <2>4. p # Main /\ ~(Len(p) > 1)
    BY <2>3
  <2> QED BY <2>4 DEF p
<1>3. e => ~f
  <2>1. Len(Main) = 1
    BY OnePartList DEF Main
  <2>2. ASSUME n.parts = Main PROVE ~(Len(n.parts) > 1)
    <3> DEFINE k == Len(n.parts)
    <3>1. k = 1
      BY <2>1, <2>2
    <3> HIDE DEF k
    <3>2. ~(k > 1)
      BY <3>1
    <3> QED BY <3>2 DEF k
  <2> QED BY <2>2
<1>4. /\ a => ~b /\ ~c /\ ~e /\ ~f
      /\ b => ~c /\ ~e /\ ~f
      /\ c => ~e /\ ~f
  BY <1>1, <1>2
<1>5. section_kind(n) = CASE a -> "ids" [] b -> "global" [] c -> "aliases" [] e -> "main"
                          [] f -> "composite" [] OTHER -> "layer"
  BY DEF section_kind
<1> HIDE DEF a, b, c, e, f
<1>12. section_kind(n) = IF a THEN "ids" ELSE IF b THEN "global" ELSE IF c THEN "aliases"
                         ELSE IF e THEN "main" ELSE IF f THEN "composite" ELSE "layer"
  <2>1. CASE a
    BY <1>5, <1>4, <2>1, Zenon
  <2>2. CASE ~a /\ b
    BY <1>5, <1>4, <2>2, Zenon
  <2>3. CASE ~a /\ ~b /\ c
    BY <1>5, <1>4, <2>3, Zenon
  <2>4. CASE ~a /\ ~b /\ ~c /\ e
    BY <1>5, <1>3, <2>4, Zenon
  <2>5. CASE ~a /\ ~b /\ ~c /\ ~e /\ f
    BY <1>5, <2>5, Zenon
  <2>6. CASE ~a /\ ~b /\ ~c /\ ~e /\ ~f
    BY <1>5, <2>6, Zenon
  <2> QED BY <2>6, <2>1, <2>2, <2>3, <2>4, <2>5
<1> QED BY <1>12 DEF a, b, c, e, f

LEMMA KindFits ==
  ASSUME NEW n, IsList(n.parts), n.parts # <<>>
  PROVE  FitsName(n, section_kind(n))
<1>1. PlainName(<<"ids">>) # PlainName(<<"global">>)
  <2>1. PlainName(<<"ids">>).parts[1] = "ids" /\ PlainName(<<"global">>).parts[1] = "global"
    BY DEF PlainName
  <2> QED BY <2>1
<1> QED BY <1>1, KindIs DEF FitsName

\* Operations that keep the heads, or add one that fits.
LEMMA FitsSame == ASSUME NEW d, IsDoc(d), NEW e, SameHeads(d, e), Fits(d) PROVE Fits(e)
<1>1. DOMAIN e.secs = DOMAIN d.secs
  BY DocDomain DEF SameHeads
<1> QED BY <1>1 DEF Fits, SameHeads, SameHead

LEMMA FitsAdds ==
  ASSUME NEW d, IsDoc(d), NEW e, NEW n, NEW kind, Adds(d, e, n, kind), Fits(d), FitsName(n, kind)
  PROVE  Fits(e)
<1>1. Len(d.secs) \in Nat /\ DOMAIN d.secs = 1 .. Len(d.secs)
  BY DocDomain
<1>2. Len(e.secs) = Len(d.secs) + 1 /\ DOMAIN e.secs = 1 .. Len(e.secs)
  BY DocDomain DEF Adds
<1>3. \A i \in DOMAIN e.secs : i \in DOMAIN d.secs \/ i = Len(e.secs)
  BY <1>1, <1>2
<1> QED BY <1>3 DEF Fits, Adds, SameHead

LEMMA MadeFits ==
  /\ FitsName(PlainName(Main), "main")
  /\ FitsName(PlainName(<<"global">>), "global")
  /\ \A n : FitsName(PlainName(<<n>>), section_kind(PlainName(<<n>>)))
<1>1. PlainName(Main) # PlainName(<<"global">>)
  <2>1. PlainName(Main).parts[1] = "main" /\ PlainName(<<"global">>).parts[1] = "global"
    BY DEF PlainName, Main
  <2> QED BY <2>1
<1>2. /\ IsList(PlainName(Main).parts) /\ PlainName(Main).parts # <<>>
      /\ \A n : IsList(PlainName(<<n>>).parts) /\ PlainName(<<n>>).parts # <<>>
  BY PlainList DEF Main
<1>3. \A n : FitsName(PlainName(<<n>>), section_kind(PlainName(<<n>>)))
  BY <1>2, KindFits
<1>4. PlainName(Main).parts = Main
  BY PlainIsName
<1>5. FitsName(PlainName(Main), "main")
  BY <1>1, <1>2, <1>4, Zenon DEF FitsName
<1>6. FitsName(PlainName(<<"global">>), "global")
  BY <1>2, Zenon DEF FitsName
<1> QED BY <1>3, <1>5, <1>6

\* What is left when a layer is removed.
LEMMA RemoveLeaves ==
  ASSUME NEW d, IsDocument(d), Fits(d), NEW b
  PROVE  /\ IsDocument(remove_layer(d, b)) /\ Fits(remove_layer(d, b))
         /\ remove_layer(d, b).secs = Among(d.secs, {s \in ToSet(d.secs) : ~feeds_board(s, b)})
<1> DEFINE S == {s \in ToSet(d.secs) : ~feeds_board(s, b)}
           x == Among(d.secs, S)
           t == [d EXCEPT !.secs = x]
           e == [t EXCEPT !.dirty = TRUE]
<1>1. remove_layer(d, b) = e
  BY DEF remove_layer
<1>2. d.secs \in Seq(ToSet(d.secs)) /\ IsDoc(d)
  BY DEF IsDocument, IsDoc, IsList, ToSet
<1>3. x \in Seq(ToSet(d.secs))
  <2> HIDE DEF S
  <2> QED BY <1>2, AmongIs
<1> HIDE DEF x
<1>4. t = [pre |-> d.pre, secs |-> x, dirty |-> d.dirty]
  BY <1>2, DocExcept
<1>5. \A z : [t EXCEPT !.dirty = z] = [pre |-> d.pre, secs |-> x, dirty |-> z]
  <2> DEFINE p == d.pre
             y == d.dirty
  <2>1. t = [pre |-> p, secs |-> x, dirty |-> y]
    BY <1>4
  <2> HIDE DEF t, p, y
  <2>2. \A z : [t EXCEPT !.dirty = z] = [pre |-> p, secs |-> x, dirty |-> z]
    BY <2>1, DocMark
  <2> QED BY <2>2 DEF p
<1>6. e = [pre |-> d.pre, secs |-> x, dirty |-> TRUE]
  <2> HIDE DEF t
  <2> QED BY <1>5
<1> HIDE DEF e
<1>7. e.secs = x
  BY <1>6
<1>8. \A i \in DOMAIN x : x[i] \in ToSet(d.secs)
  BY <1>3, ListOfSeq
<1>9. \A s \in ToSet(d.secs) : IsEntries(s.ents) /\ FitsName(s.name, s.kind)
  BY DEF IsDocument, Fits, ToSet
<1>10. IsDoc(e)
  BY <1>1, <1>2, RemoveHeads
<1>11. e.secs = Among(d.secs, S)
  BY <1>7 DEF x
<1>12. IsDocument(e) /\ Fits(e)
  BY <1>7, <1>8, <1>9, <1>10 DEF IsDocument, Fits
<1> QED BY <1>1, <1>11, <1>12

\* A section of a document in which a layer is renamed.
LEMMA RenamedFits ==
  ASSUME NEW s, IsSection(s), IsEntries(s.ents), FitsName(s.name, s.kind),
         NEW old, NEW new, new # "global"
  PROVE  LET t == RenameRefs(RenameHead(s, old, new), old, new)
         IN  /\ IsEntries(t.ents) /\ FitsName(t.name, t.kind)
             /\ ~is_board(s.kind) => t = s
<1> DEFINE h == RenameHead(s, old, new)
           t == RenameRefs(h, old, new)
           sub(i) == IF s.name.parts[i] = old /\ ~(s.name.pad /\ i = 1) THEN new ELSE s.name.parts[i]
           parts  == [i \in DOMAIN s.name.parts |-> sub(i)]
<1>0. IsName(s.name)
  BY DEF IsSection
<1>1. /\ FitsName(h.name, h.kind) /\ h.ents = s.ents /\ IsSection(h)
      /\ ~is_board(s.kind) => h = s
      /\ h.kind = s.kind
  <2>0. ASSUME NEW n, IsName(n), NEW z
        PROVE  LET u == [s EXCEPT !.name = n, !.dirty = z]
               IN  u.ents = s.ents /\ u.kind = s.kind /\ u.name = n /\ IsSection(u)
    <3> DEFINE k == s.kind
               e == s.head
               x == s.ents
               y == s.dirty
               o == s.name
               r == [name |-> o, kind |-> k, head |-> e, ents |-> x, dirty |-> y]
               v == [name |-> n, kind |-> k, head |-> e, ents |-> x, dirty |-> y]
               u == [name |-> n, kind |-> k, head |-> e, ents |-> x, dirty |-> z]
    <3>1. [r EXCEPT !.name = n] = v /\ [v EXCEPT !.dirty = z] = u
      <4> HIDE DEF o, k, e, x, y
      <4> QED OBVIOUS
    <3>2. s = r
      BY DEF IsSection
    <3>3. [s EXCEPT !.name = n, !.dirty = z] = u
      <4>1. [s EXCEPT !.name = n] = v
        <5> HIDE DEF r, v
        <5> QED BY <3>1, <3>2
      <4>2. [s EXCEPT !.name = n, !.dirty = z] = [[s EXCEPT !.name = n] EXCEPT !.dirty = z]
        OBVIOUS
      <4> DEFINE m == [s EXCEPT !.name = n]
      <4>3. [s EXCEPT !.name = n, !.dirty = z] = [m EXCEPT !.dirty = z] /\ m = v
        BY <4>1, <4>2
      <4> HIDE DEF m, u, v
      <4> QED BY <3>1, <4>3
    <3>4. u.ents = x /\ u.kind = k /\ u.name = n /\ IsSection(u)
      <4> HIDE DEF k, e, x
      <4> QED BY <2>0 DEF IsSection
    <3> HIDE DEF u
    <3> QED BY <3>3, <3>4
  <2>1. CASE Named(s, old)
    <3> DEFINE n == [s.name EXCEPT !.parts = <<new>>, !.pad = FALSE]
    <3>1. h = [s EXCEPT !.name = n, !.dirty = TRUE]
      BY <2>1, Zenon DEF RenameHead, Named
    <3>2. IsName(n) /\ n.parts = <<new>>
      <4> DEFINE m == s.name
                 new1 == <<new>>
      <4>1. \A x : IsName([m EXCEPT !.parts = new1, !.pad = x])
                  /\ [m EXCEPT !.parts = new1, !.pad = x].parts = new1
        <5> HIDE DEF m, new1
        <5> QED BY <1>0, NameExcept DEF m
      <4> QED BY <4>1
    <3> HIDE DEF n
    <3>3. h.ents = s.ents /\ h.kind = s.kind /\ h.name = n /\ IsSection(h)
      <4>1. \A z : LET u == [s EXCEPT !.name = n, !.dirty = z]
                   IN  u.ents = s.ents /\ u.kind = s.kind /\ u.name = n /\ IsSection(u)
        BY <2>0, <3>2
      <4> QED BY <3>1, <4>1
    <3>4. n # PlainName(<<"global">>) /\ IsList(n.parts) /\ n.parts # <<>>
      <4>1. PlainName(<<"global">>).parts = <<"global">> /\ <<"global">>[1] = "global" /\ <<new>>[1] = new
            /\ IsList(<<new>>) /\ <<new>> # <<>>
        BY PlainIsName, OnePartList
      <4> QED BY <3>2, <4>1
    <3> QED BY <2>1, <3>3, <3>4 DEF Named, FitsName, is_board, BoardKinds
  <2>2. CASE s.kind = "composite" /\ parts # s.name.parts
    <3> DEFINE n == [s.name EXCEPT !.parts = parts]
    <3>1. ~Named(s, old)
      BY <2>2 DEF Named
    <3>2. h = [s EXCEPT !.name = n, !.dirty = TRUE]
      BY <2>2, <3>1, Zenon DEF RenameHead
    <3>3. IsName(n) /\ n.parts = parts
      <4> HIDE DEF parts
      <4> QED BY <1>0, NameExcept
    <3>4. IsList(parts) /\ Len(parts) > 1 /\ parts # <<>>
      <4>1. IsList(s.name.parts) /\ Len(s.name.parts) > 1
        BY <2>2 DEF FitsName
      <4>2. DOMAIN parts = DOMAIN s.name.parts /\ parts = [i \in DOMAIN s.name.parts |-> parts[i]]
        OBVIOUS
      <4> HIDE DEF parts
      <4>3. IsList(parts) /\ Len(parts) > 1
        BY <4>1, <4>2, ListMap
      <4>4. \A p : Len(p) > 1 => p # <<>>
        OBVIOUS
      <4> QED BY <4>3, <4>4
    <3> HIDE DEF n, parts
    <3>5. h.ents = s.ents /\ h.kind = s.kind /\ h.name = n /\ IsSection(h)
      <4>1. \A z : LET u == [s EXCEPT !.name = n, !.dirty = z]
                   IN  u.ents = s.ents /\ u.kind = s.kind /\ u.name = n /\ IsSection(u)
        BY <2>0, <3>3
      <4> QED BY <3>2, <4>1
    <3>6. n # PlainName(<<"global">>)
      <4>1. PlainName(<<"global">>).parts = <<"global">> /\ Len(<<"global">>) = 1
        BY PlainIsName, OnePartList
      <4>2. \A p : p = <<"global">> => ~(Len(p) > 1)
        BY <4>1
      <4> QED BY <3>3, <3>4, <4>1, <4>2
    <3> QED BY <2>2, <3>3, <3>4, <3>5, <3>6 DEF FitsName, is_board, BoardKinds
  <2>3. CASE ~Named(s, old) /\ ~(s.kind = "composite" /\ parts # s.name.parts)
    <3>1. h = s
      BY <2>3, Zenon DEF RenameHead
    <3> QED BY <2>3, <3>1
  <2> HIDE DEF h, parts
  <2> QED BY <2>1, <2>2, <2>3
<1> DEFINE hit(e) == e.text.k = "bind" /\ old \in layer_refs(e.text.val)
           ren(e) == IF hit(e) THEN [e EXCEPT !.text.val = Splice(@, old, new), !.dirty = TRUE] ELSE e
           x == [i \in DOMAIN h.ents |-> ren(h.ents[i])]
<1>2. t = IF is_board(h.kind) THEN [h EXCEPT !.ents = x] ELSE h
  BY DEF RenameRefs
<1> HIDE DEF h
<1>3. IsEntries(x)
  <2>1. IsEntries(h.ents)
    BY <1>1
  <2>2. \A e : IsEntry(e) => IsEntry(ren(e))
    <3> SUFFICES ASSUME NEW e, IsEntry(e), hit(e) PROVE IsEntry(ren(e))
      OBVIOUS
    <3> DEFINE y == [e.text EXCEPT !.val = Splice(@, old, new)]
               f == [e EXCEPT !.text = y]
    <3>1. ren(e) = [f EXCEPT !.dirty = TRUE]
      OBVIOUS
    <3> HIDE DEF y, hit
    <3>2. IsEntry(f)
      BY EntryExcept
    <3> HIDE DEF f, ren
    <3>3. \A z : IsEntry([f EXCEPT !.dirty = z])
      BY <3>2, EntryExcept
    <3> QED BY <3>1, <3>3
  <2>3. DOMAIN x = DOMAIN h.ents /\ x = [i \in DOMAIN h.ents |-> x[i]]
        /\ \A i \in DOMAIN h.ents : x[i] = ren(h.ents[i])
    OBVIOUS
  <2> HIDE DEF x, ren, hit
  <2>4. IsList(x)
    BY <2>1, <2>3, ListMap DEF IsEntries
  <2> QED BY <2>1, <2>2, <2>3, <2>4 DEF IsEntries
<1> HIDE DEF x
<1>31. IsSection(h)
  BY <1>1
<1> HIDE DEF t, hit, ren, sub, parts
<1>4. SameHead(h, [h EXCEPT !.ents = x]) /\ [h EXCEPT !.ents = x].ents = x
  BY <1>31, SectionExcept
<1> HIDE DEF t
<1>5. IsEntries(t.ents) /\ FitsName(t.name, t.kind) /\ (~is_board(s.kind) => t = s)
  BY <1>1, <1>2, <1>3, <1>4 DEF SameHead
<1> QED BY <1>5 DEF t, h

\* What is left when a layer is renamed.
LEMMA RenameLeaves ==
  ASSUME NEW d, IsDocument(d), Fits(d), NEW old, NEW new, new # "global"
  PROVE  /\ IsDocument(rename_layer(d, old, new)) /\ Fits(rename_layer(d, old, new))
         /\ Len(rename_layer(d, old, new).secs) = Len(d.secs)
         /\ \A i \in DOMAIN d.secs : /\ rename_layer(d, old, new).secs[i].kind = d.secs[i].kind
                                     /\ ~is_board(d.secs[i].kind)
                                          => rename_layer(d, old, new).secs[i] = d.secs[i]
<1> DEFINE x == [i \in DOMAIN d.secs |-> RenameRefs(RenameHead(d.secs[i], old, new), old, new)]
           t == [d EXCEPT !.secs = x]
           e == [t EXCEPT !.dirty = TRUE]
<1>0. IsDoc(d)
  BY DEF IsDocument
<1>1. rename_layer(d, old, new) = e
  BY DEF rename_layer
<1>2. \A i \in DOMAIN d.secs : IsSection(d.secs[i]) /\ IsEntries(d.secs[i].ents)
                               /\ FitsName(d.secs[i].name, d.secs[i].kind)
  BY DEF IsDocument, IsDoc, Fits
<1>3. /\ DOMAIN x = DOMAIN d.secs /\ x = [i \in DOMAIN d.secs |-> x[i]]
      /\ \A i \in DOMAIN d.secs : /\ x[i].kind = d.secs[i].kind
                                  /\ IsEntries(x[i].ents) /\ FitsName(x[i].name, x[i].kind)
                                  /\ ~is_board(d.secs[i].kind) => x[i] = d.secs[i]
  BY <1>2, RenamedSection, RenamedFits
<1> HIDE DEF x
<1>4. Len(x) = Len(d.secs)
  BY <1>0, <1>3, ListMap DEF IsDoc
<1>5. e = [pre |-> d.pre, secs |-> x, dirty |-> TRUE]
  <2> DEFINE p == d.pre
             y == d.dirty
  <2>1. t = [pre |-> p, secs |-> x, dirty |-> y]
    BY <1>0, DocExcept
  <2> HIDE DEF t, p, y
  <2>2. \A z : [t EXCEPT !.dirty = z] = [pre |-> p, secs |-> x, dirty |-> z]
    BY <2>1, DocMark
  <2> QED BY <2>2 DEF p
<1> HIDE DEF e
<1>6. e.secs = x
  BY <1>5
<1>7. IsDoc(e)
  BY <1>0, <1>1, RenameHeads
<1>8. IsDocument(e) /\ Fits(e)
  BY <1>3, <1>6, <1>7 DEF IsDocument, Fits
<1> QED BY <1>1, <1>3, <1>4, <1>6, <1>8

\* What parse makes of a file.
LEMMA ParseLeaves ==
  ASSUME NEW f, IsFile(f)
  PROVE  IsDocument(parse(f)) /\ Fits(parse(f))
<1> DEFINE p == parse(f)
<1>1. PICK X, E : p \in DocsOf(X, E) /\ \A x \in X : IsText(x)
  BY ParseIs
<1>2. IsDoc(p)
  BY ParseIs
<1> HIDE DEF p
<1>3. \A e \in EntriesOf(X, E) : IsEntry(e)
  BY DEF EntriesOf, Entry, IsEntry
<1>4. \A s \in SectionsOf(X, E) : IsEntries(s.ents) /\ FitsName(s.name, s.kind)
  <2> SUFFICES ASSUME NEW s \in SectionsOf(X, E) PROVE IsEntries(s.ents) /\ FitsName(s.name, s.kind)
    OBVIOUS
  <2>1. s.name \in {t.name : t \in {u \in X : u.k = "head"}} /\ s.kind = section_kind(s.name)
        /\ s.ents \in Seq(EntriesOf(X, E))
    BY DEF SectionsOf
  <2>2. IsList(s.name.parts) /\ s.name.parts # <<>>
    <3>1. PICK t \in X : t.k = "head" /\ s.name = t.name
      BY <2>1
    <3> QED BY <1>1, <3>1 DEF IsText, IsList, ToSet
  <2>3. IsEntries(s.ents)
    BY <1>3, <2>1, SeqEntries
  <2> QED BY <2>1, <2>2, <2>3, KindFits
<1>5. p.secs \in Seq(SectionsOf(X, E))
  BY <1>1 DEF DocsOf
<1>6. \A i \in DOMAIN p.secs : p.secs[i] \in SectionsOf(X, E)
  BY <1>5, ListOfSeq
<1> QED BY <1>2, <1>4, <1>6 DEF IsDocument, Fits, p

\* Options leave the lines of every board.
LEMMA OptionAgrees ==
  ASSUME NEW d, IsDocument(d), Fits(d), NEW c, NEW v, NEW B, No("blank", B)
  PROVE  /\ Agrees(d, set_global_option(d, c, v), BoardKinds, B)
         /\ Agrees(d, clear_global(d, c), BoardKinds, B)
<1> DEFINE name == PlainName(<<"global">>)
           at == LastSection(d, LAMBDA s : s.name = PlainName(<<"global">>))
           base == IF at = 0 THEN append_section(d, name, "global") ELSE d
           j == IF at = 0 THEN Len(base.secs) ELSE at
           set(s) == set_or_add_binding(s, c, v, file_eol(d))
           i == SelectInSeq(d.secs, LAMBDA s : s.name = PlainName(<<"global">>))
           I == {x \in 1 .. Len(d.secs) : d.secs[x].name = name}
<1>0. IsDoc(d) /\ IsList(d.secs) /\ Len(d.secs) \in Nat /\ DOMAIN d.secs = 1 .. Len(d.secs)
  BY DocDomain DEF IsDocument, IsDoc
<1>1. /\ set_global_option(d, c, v) = InSection(base, j, set(base.secs[j]))
      /\ clear_global(d, c) = IF i = 0 THEN d ELSE InSection(d, i, remove_binding(d.secs[i], c))
  BY DEF set_global_option, clear_global
<1>2. \A x \in I : d.secs[x].kind = "global"
  BY <1>0 DEF Fits, FitsName
<1>3. at # 0 => at \in I
  <2>1. at = IF I # {} THEN Max(I) ELSE 0
    BY DEF LastSection, SelectLastInSeq
  <2> HIDE DEF at, name
  <2>2. LET k == IF I # {} THEN Max(I) ELSE 0 IN k # 0 => k \in I
    BY <1>0, LastLine
  <2> QED BY <2>1, <2>2
<1>4. i # 0 => i \in I
  <2>1. i = IF I # {} THEN Min(I) ELSE 0
    BY DEF SelectInSeq
  <2>2. I \in SUBSET Nat
    BY <1>0
  <2> HIDE DEF i, name, I
  <2> QED BY <2>1, <2>2, MinIs
<1>5. IsName(name)
  BY PlainIsName
<1>6. base = d \/ base = append_section(d, name, "global")
  OBVIOUS
<1>7. j \in DOMAIN base.secs => base.secs[j].kind = "global"
  <2>1. CASE at = 0
    <3>1. Adds(d, append_section(d, name, "global"), name, "global")
      <4> HIDE DEF name
      <4> QED BY <1>0, <1>5, AppendAdds
    <3> QED BY <2>1, <3>1 DEF Adds
  <2>2. CASE at # 0
    BY <1>2, <1>3, <2>2
  <2> QED BY <2>1, <2>2
<1>8. "global" \notin BoardKinds
  BY DEF BoardKinds
<1>9. No("bind", {})
  BY DEF No
<1>10. ASSUME NEW s, IsSection(s), IsEntries(s.ents)
       PROVE  /\ SameHead(s, set(s)) /\ IsEntries(set(s).ents)
              /\ SameHead(s, remove_binding(s, c)) /\ IsEntries(remove_binding(s, c).ents)
  <2> DEFINE e == file_eol(d)
  <2> HIDE DEF e
  <2>1. SameHead(s, set_or_add_binding(s, c, v, e)) /\ Keeps(s.ents, set_or_add_binding(s, c, v, e).ents, {})
    BY <1>9, <1>10, SetKeepsHead, SetKeeps
  <2>2. SameHead(s, remove_binding(s, c)) /\ Keeps(s.ents, remove_binding(s, c).ents, {})
    BY <1>9, <1>10, DropKeepsHead, ClearKeeps
  <2> QED BY <2>1, <2>2 DEF e, Keeps
<1>11. i # 0 => Agrees(d, InSection(d, i, remove_binding(d.secs[i], c)), BoardKinds, B)
  <2> SUFFICES ASSUME i # 0 PROVE Agrees(d, InSection(d, i, remove_binding(d.secs[i], c)), BoardKinds, B)
    OBVIOUS
  <2>1. i \in DOMAIN d.secs /\ d.secs[i].kind = "global"
    BY <1>0, <1>2, <1>4
  <2> HIDE DEF i, set
  <2>2. IsSection(d.secs[i]) /\ IsEntries(d.secs[i].ents)
    BY <2>1 DEF IsDocument, IsDoc
  <2> QED BY <1>8, <1>10, <2>1, <2>2, OneAgrees
<1> HIDE DEF set, i, I, at, j, base, name
<1>12. \A x \in DOMAIN base.secs : IsSection(base.secs[x]) /\ IsEntries(base.secs[x].ents)
  BY <1>5, <1>6, DocumentSections
<1>13. Agrees(d, InSection(base, j, set(base.secs[j])), BoardKinds, B)
  BY <1>5, <1>6, <1>7, <1>8, <1>10, <1>12, MadeAgrees
<1> QED BY <1>1, <1>11, <1>13, AgreesRefl

-----------------------------------------------------------------------------
(* What the panel selects from a document.                                 *)

\* The texts of some sections, section by section.
Rows(d, P) == [i \in DOMAIN d.secs |-> IF i \in P THEN Texts(d.secs[i].ents) ELSE <<>>]
TextsOf(d) == UNION {{d.secs[i].ents[j].text : j \in DOMAIN d.secs[i].ents} : i \in DOMAIN d.secs}
Valued(L)   == {t \in L : t.k = "bind" /\ t.val # NoVal}
Labelled(L) == {t \in L : t.k = "label"}

LEMMA RowsAre ==
  ASSUME NEW d, IsDocument(d), NEW P, NEW L, TextsOf(d) \subseteq L
  PROVE  Rows(d, P) \in Seq(Seq(L)) /\ Len(Rows(d, P)) = Len(d.secs)
         /\ DOMAIN Rows(d, P) = DOMAIN d.secs
<1> DEFINE n == Len(d.secs)
           r == Rows(d, P)
<1>1. n \in Nat /\ DOMAIN d.secs = 1 .. n
  BY DocDomain DEF IsDocument
<1> HIDE DEF n
<1>2. \A i \in 1 .. n : r[i] \in Seq(L)
  <2> SUFFICES ASSUME NEW i \in 1 .. n PROVE r[i] \in Seq(L)
    OBVIOUS
  <2> DEFINE x == d.secs[i].ents
             T == {x[j].text : j \in DOMAIN x}
  <2>1. IsEntries(x) /\ T \subseteq L
    BY <1>1 DEF IsDocument, TextsOf
  <2>2. r[i] = Texts(x) \/ r[i] = <<>>
    BY <1>1 DEF Rows
  <2> HIDE DEF x, r
  <2>3. Texts(x) \in Seq(T)
    BY <2>1, EntriesSeq
  <2> HIDE DEF T
  <2>4. Texts(x) \in Seq(L) /\ <<>> \in Seq(L)
    BY <2>1, <2>3
  <2> QED BY <2>2, <2>4
<1>3. DOMAIN r = 1 .. n /\ r = [i \in 1 .. n |-> r[i]]
  BY <1>1 DEF Rows
<1> HIDE DEF r
<1>4. r \in Seq(Seq(L)) /\ Len(r) = n
  <2> DEFINE S == Seq(L)
  <2>1. \A i \in 1 .. n : r[i] \in S
    BY <1>2
  <2> HIDE DEF S
  <2> QED BY <1>1, <1>3, <2>1 DEF S
<1> QED BY <1>1, <1>3, <1>4 DEF r, n

\* Documents that agree on the lines in B have the same ones, in the same order.
\* e has the sections of d and maybe one more; in those that are in Q the
\* lines with texts in B are the same, in their order.
Stays(d, e, Q, B) ==
  /\ IsDocument(e)
  /\ \/ Len(e.secs) = Len(d.secs)
     \/ /\ Len(e.secs) = Len(d.secs) + 1
        /\ Len(e.secs) \in Q => Among(Texts(e.secs[Len(e.secs)].ents), B) = <<>>
  /\ \A i \in DOMAIN d.secs :
       /\ SameHead(d.secs[i], e.secs[i])
       /\ i \in Q => Among(Texts(e.secs[i].ents), B) = Among(Texts(d.secs[i].ents), B)

LEMMA RowsStay ==
  ASSUME NEW d, IsDocument(d), NEW e, NEW B, NEW P, NEW Q, Stays(d, e, Q, B),
         \A i \in DOMAIN d.secs : i \in P <=> i \in Q
  PROVE  Among(FlattenSeq(Rows(d, P)), B) = Among(FlattenSeq(Rows(e, Q)), B)
<1> DEFINE L == TextsOf(d) \union TextsOf(e)
           n == Len(d.secs)
           m == Len(e.secs)
           ss == Rows(d, P)
           tt == Rows(e, Q)
<1>1. /\ n \in Nat /\ DOMAIN d.secs = 1 .. n /\ DOMAIN e.secs = 1 .. m
      /\ m = n \/ m = n + 1
      /\ IsDocument(e)
  BY DocDomain DEF IsDocument, Stays
<1>2. /\ ss \in Seq(Seq(L)) /\ Len(ss) = n
      /\ tt \in Seq(Seq(L)) /\ Len(tt) = m
  <2> DEFINE l == L
  <2>1. TextsOf(d) \subseteq l /\ TextsOf(e) \subseteq l
    OBVIOUS
  <2> HIDE DEF l
  <2>2. Rows(d, P) \in Seq(Seq(l)) /\ Len(Rows(d, P)) = Len(d.secs)
        /\ Rows(e, Q) \in Seq(Seq(l)) /\ Len(Rows(e, Q)) = Len(e.secs)
    BY <1>1, <2>1, RowsAre
  <2> QED BY <2>2 DEF l
<1>3. \A i \in DOMAIN d.secs : i \in Q => Among(Texts(e.secs[i].ents), B) = Among(Texts(d.secs[i].ents), B)
  BY DEF Stays
<1>4. \A i \in 1 .. n : i \in 1 .. m
  BY <1>1
<1>5. \A i \in 1 .. n : Among(ss[i], B) = Among(tt[i], B)
  <2> SUFFICES ASSUME NEW i \in 1 .. n PROVE Among(ss[i], B) = Among(tt[i], B)
    OBVIOUS
  <2>1. i \in DOMAIN d.secs /\ i \in DOMAIN e.secs
    BY <1>1, <1>4
  <2>2. /\ ss[i] = IF i \in P THEN Texts(d.secs[i].ents) ELSE <<>>
        /\ tt[i] = IF i \in Q THEN Texts(e.secs[i].ents) ELSE <<>>
    BY <2>1 DEF Rows
  <2>3. i \in P => Among(Texts(e.secs[i].ents), B) = Among(Texts(d.secs[i].ents), B)
    BY <1>3, <2>1
  <2>4. i \in P <=> i \in Q
    BY <2>1
  <2> QED BY <2>2, <2>3, <2>4
<1>6. m = n + 1 => Among(tt[m], B) = <<>>
  <2> SUFFICES ASSUME m = n + 1 PROVE Among(tt[m], B) = <<>>
    OBVIOUS
  <2>1. m \in DOMAIN e.secs /\ m # n
    BY <1>1
  <2>2. m \in Q => Among(Texts(e.secs[m].ents), B) = <<>>
    BY <2>1 DEF Stays
  <2>3. tt[m] = IF m \in Q THEN Texts(e.secs[m].ents) ELSE <<>>
    BY <2>1 DEF Rows
  <2>4. Among(<<>>, B) = <<>>
    BY AmongEmpty
  <2> QED BY <2>1, <2>2, <2>3, <2>4
<1> HIDE DEF ss, tt, L
<1>7. Len(tt) = Len(ss) \/ (Len(tt) = Len(ss) + 1 /\ Among(tt[Len(tt)], B) = <<>>)
  BY <1>1, <1>2, <1>6
<1>8. \A i \in 1 .. Len(ss) : Among(ss[i], B) = Among(tt[i], B)
  BY <1>2, <1>5
<1> HIDE DEF n, m
<1>9. Among(FlattenSeq(ss), B) = Among(FlattenSeq(tt), B)
  BY <1>2, <1>7, <1>8, FlattenAmong
<1> QED BY <1>9 DEF ss, tt

LEMMA AgreesStays ==
  ASSUME NEW d, IsDocument(d), NEW e, NEW K, NEW B, Agrees(d, e, K, B), NEW Q,
         \A i \in DOMAIN e.secs : i \in Q => e.secs[i].kind \in K
  PROVE  Stays(d, e, Q, B)
<1> DEFINE n == Len(d.secs)
           m == Len(e.secs)
<1>1. /\ n \in Nat /\ DOMAIN d.secs = 1 .. n /\ m \in Nat /\ DOMAIN e.secs = 1 .. m
      /\ IsDocument(e)
  BY DocDomain DEF IsDocument, Agrees
<1>2. m = n \/ m = n + 1
  BY DEF Agrees
<1>3. m = n + 1 => (e.secs[m].kind \in K => Among(Texts(e.secs[m].ents), B) = <<>>) /\ m \in DOMAIN e.secs
  <2> SUFFICES ASSUME m = n + 1
               PROVE  (e.secs[m].kind \in K => Among(Texts(e.secs[m].ents), B) = <<>>) /\ m \in DOMAIN e.secs
    OBVIOUS
  <2>1. m \in DOMAIN e.secs /\ m # n
    BY <1>1
  <2> QED BY <2>1 DEF Agrees
<1>4. \A i \in DOMAIN d.secs : i \in DOMAIN e.secs
  BY <1>1, <1>2
<1>5. \A i \in DOMAIN d.secs :
        /\ SameHead(d.secs[i], e.secs[i]) /\ e.secs[i].kind = d.secs[i].kind
        /\ d.secs[i].kind \in K => Among(Texts(e.secs[i].ents), B) = Among(Texts(d.secs[i].ents), B)
  BY DEF Agrees, SameHead
<1>6. \A i \in DOMAIN d.secs : i \in Q => Among(Texts(e.secs[i].ents), B) = Among(Texts(d.secs[i].ents), B)
  BY <1>4, <1>5
<1> HIDE DEF n, m
<1> QED BY <1>1, <1>2, <1>3, <1>5, <1>6 DEF Stays, n, m

LEMMA RowsAgree ==
  ASSUME NEW d, IsDocument(d), NEW e, NEW K, NEW B, Agrees(d, e, K, B), NEW P, NEW Q,
         \A i \in DOMAIN d.secs : i \in P <=> i \in Q,
         \A i \in DOMAIN e.secs : i \in Q => e.secs[i].kind \in K
  PROVE  Among(FlattenSeq(Rows(d, P)), B) = Among(FlattenSeq(Rows(e, Q)), B)
<1>1. Stays(d, e, Q, B)
  BY AgreesStays
<1> QED BY <1>1, RowsStay

\* The lists derive selects, over any set the texts are in.
LEMMA SelectionsAre ==
  ASSUME NEW L, NEW x \in Seq(L)
  PROVE  bindings(x) = Among(x, Valued(L)) /\ section_labels(x) = Among(x, Labelled(L))
<1>1. Len(x) \in Nat /\ \A k \in 1 .. Len(x) : x[k] \in L /\ x[k] \in ToSet(x)
  BY DEF ToSet
<1>2. \A k \in 1 .. Len(x) : /\ x[k] \in {t \in ToSet(x) : t.k = "bind" /\ t.val # NoVal} <=> x[k] \in Valued(L)
                             /\ x[k] \in {t \in ToSet(x) : t.k = "label"} <=> x[k] \in Labelled(L)
  BY <1>1 DEF Valued, Labelled
<1> DEFINE V == {t \in ToSet(x) : t.k = "bind" /\ t.val # NoVal}
           M == {t \in ToSet(x) : t.k = "label"}
           W == Valued(L)
           N == Labelled(L)
<1>3. bindings(x) = Among(x, V) /\ section_labels(x) = Among(x, M)
  BY DEF bindings, section_labels
<1>4. \A k \in 1 .. Len(x) : (x[k] \in V <=> x[k] \in W) /\ (x[k] \in M <=> x[k] \in N)
  BY <1>2
<1> HIDE DEF V, M, W, N
<1>5. Among(x, V) = Among(x, W) /\ Among(x, M) = Among(x, N)
  BY <1>4, AmongSame
<1> QED BY <1>3, <1>5 DEF W, N

\* Bindings are neither labels nor blank, nor are labels bindings.
LEMMA NoneOf == \A L : /\ No("label", Valued(L)) /\ No("blank", Valued(L))
                       /\ No("bind", Labelled(L)) /\ No("blank", Labelled(L))
  BY DEF No, Valued, Labelled

Both(d, e) == TextsOf(d) \union TextsOf(e)

\* Documents that agree on their bindings, or labels, give the same lists of them.
LEMMA SelectAgree ==
  ASSUME NEW d, IsDocument(d), NEW e, IsDocument(e), NEW K, NEW P, NEW Q,
         \A i \in DOMAIN d.secs : i \in P <=> i \in Q,
         \A i \in DOMAIN e.secs : i \in Q => e.secs[i].kind \in K
  PROVE  /\ Agrees(d, e, K, Valued(Both(d, e)))
              => bindings(FlattenSeq(Rows(d, P))) = bindings(FlattenSeq(Rows(e, Q)))
         /\ Agrees(d, e, K, Labelled(Both(d, e)))
              => section_labels(FlattenSeq(Rows(d, P))) = section_labels(FlattenSeq(Rows(e, Q)))
<1> DEFINE L == Both(d, e)
           x == FlattenSeq(Rows(d, P))
           y == FlattenSeq(Rows(e, Q))
           B == Valued(L)
           C == Labelled(L)
<1>1. TextsOf(d) \subseteq L /\ TextsOf(e) \subseteq L
  BY DEF Both
<1> HIDE DEF L
<1>2. Rows(d, P) \in Seq(Seq(L)) /\ Rows(e, Q) \in Seq(Seq(L))
  BY <1>1, RowsAre
<1>3. x \in Seq(L) /\ y \in Seq(L)
  BY <1>2, FlattenHas
<1> HIDE DEF x, y
<1>4. /\ bindings(x) = Among(x, B) /\ section_labels(x) = Among(x, C)
      /\ bindings(y) = Among(y, B) /\ section_labels(y) = Among(y, C)
  BY <1>3, SelectionsAre
<1> HIDE DEF B, C
<1>5. Agrees(d, e, K, B) => Among(x, B) = Among(y, B)
  BY RowsAgree DEF x, y
<1>6. Agrees(d, e, K, C) => Among(x, C) = Among(y, C)
  BY RowsAgree DEF x, y
<1>7. /\ Agrees(d, e, K, B) => bindings(x) = bindings(y)
      /\ Agrees(d, e, K, C) => section_labels(x) = section_labels(y)
  BY <1>4, <1>5, <1>6
<1> QED BY <1>7 DEF x, y, B, C, L

\* The chords of a board, and the options, as functions of the lists selected.
ChordsIn(x) == KeepLast(Among(x, {t \in ToSet(x) : is_chord_key(t.key)}),
                        LAMBDA t, u : canonical_chord(t.key) = canonical_chord(u.key))
OptionsIn(x) == KeepLast(x, LAMBDA t, u : t.key = u.key)
Globals(d) == {i \in DOMAIN d.secs : d.secs[i].kind = "global"}

\* The lists of the panel are selections of those rows.
LEMMA ListsFrom ==
  ASSUME NEW d, NEW b
  PROVE  /\ chords(d, b) = ChordsIn(bindings(FlattenSeq(Rows(d, Boards(d, b)))))
         /\ global_entries(d) = OptionsIn(bindings(FlattenSeq(Rows(d, Globals(d)))))
<1>1. [i \in DOMAIN d.secs |->
          IF feeds_board(d.secs[i], b)
          THEN [j \in DOMAIN d.secs[i].ents |-> d.secs[i].ents[j].text] ELSE <<>>]
        = Rows(d, Boards(d, b))
  BY DEF Rows, Boards, Texts
<1>2. [i \in DOMAIN d.secs |->
          IF d.secs[i].kind = "global"
          THEN [j \in DOMAIN d.secs[i].ents |-> d.secs[i].ents[j].text] ELSE <<>>]
        = Rows(d, Globals(d))
  BY DEF Rows, Globals, Texts
<1>3. TextsIn(d, LAMBDA s : feeds_board(s, b)) = FlattenSeq(Rows(d, Boards(d, b)))
  BY <1>1 DEF TextsIn
<1>4. TextsIn(d, LAMBDA s : s.kind = "global") = FlattenSeq(Rows(d, Globals(d)))
  BY <1>2 DEF TextsIn
<1>5. chords(d, b) = ChordsIn(bindings(TextsIn(d, LAMBDA s : feeds_board(s, b))))
  BY DEF chords, ChordsIn
<1>6. global_entries(d) = OptionsIn(bindings(TextsIn(d, LAMBDA s : s.kind = "global")))
  BY DEF global_entries, OptionsIn
<1> QED BY <1>3, <1>4, <1>5, <1>6

\* The chords, and the options, follow from them.
LEMMA ChordsAgree ==
  ASSUME NEW d, IsDocument(d), NEW e, Agrees(d, e, BoardKinds, Valued(Both(d, e))), NEW b
  PROVE  chords(e, b) = chords(d, b)
<1>1. IsDocument(e) /\ \A i \in DOMAIN d.secs : SameHead(d.secs[i], e.secs[i])
  BY DEF Agrees
<1>2. DOMAIN d.secs \subseteq DOMAIN e.secs
  BY DocDomain DEF Agrees, IsDocument
<1>3. \A i \in DOMAIN d.secs : i \in Boards(d, b) <=> i \in Boards(e, b)
  BY <1>1, <1>2 DEF Boards, feeds_board, SameHead
<1>4. \A i \in DOMAIN e.secs : i \in Boards(e, b) => e.secs[i].kind \in BoardKinds
  BY DEF Boards, feeds_board, is_board
<1>5. bindings(FlattenSeq(Rows(d, Boards(d, b)))) = bindings(FlattenSeq(Rows(e, Boards(e, b))))
  BY <1>1, <1>3, <1>4, SelectAgree
<1> QED BY <1>5, ListsFrom

LEMMA OptionsAgree ==
  ASSUME NEW d, IsDocument(d), NEW e, Agrees(d, e, {"global"}, Valued(Both(d, e)))
  PROVE  global_entries(e) = global_entries(d)
<1> DEFINE K == {"global"}
<1>1. IsDocument(e) /\ \A i \in DOMAIN d.secs : SameHead(d.secs[i], e.secs[i])
  BY DEF Agrees
<1>2. DOMAIN d.secs \subseteq DOMAIN e.secs
  BY DocDomain DEF Agrees, IsDocument
<1>3. \A i \in DOMAIN d.secs : i \in Globals(d) <=> i \in Globals(e)
  BY <1>1, <1>2 DEF Globals, SameHead
<1>4. \A i \in DOMAIN e.secs : i \in Globals(e) => e.secs[i].kind \in K
  BY DEF Globals
<1> HIDE DEF K
<1>5. Agrees(d, e, K, Valued(Both(d, e)))
  BY DEF K
<1>6. bindings(FlattenSeq(Rows(d, Globals(d)))) = bindings(FlattenSeq(Rows(e, Globals(e))))
  BY <1>1, <1>3, <1>4, <1>5, SelectAgree
<1> QED BY <1>6, ListsFrom

\* One row more, and rows that are dropped because they are empty.
LEMMA FlattenAppend ==
  ASSUME NEW L, NEW ss \in Seq(Seq(L)), NEW x \in Seq(L)
  PROVE  FlattenSeq(Append(ss, x)) = FlattenSeq(ss) \o x
<1> DEFINE n == Len(ss)
           S == Seq(L)
           tt == Append(ss, x)
<1>0. ss \in Seq(S) /\ x \in S
  OBVIOUS
<1> HIDE DEF S
<1>1. /\ n \in Nat /\ Len(tt) = n + 1 /\ tt \in Seq(S) /\ tt[n + 1] = x
      /\ \A k \in 1 .. n : tt[k] = ss[k]
  BY <1>0
<1> HIDE DEF tt
<1>2. PICK h : /\ h[0] = <<>>
               /\ \A k \in 1 .. Len(ss) : h[k] = h[k - 1] \o ss[k] /\ h[k] \in Seq(L)
               /\ FlattenSeq(ss) = h[Len(ss)]
  BY FlattenSteps
<1>3. PICK g : /\ g[0] = <<>>
               /\ \A k \in 1 .. Len(tt) : g[k] = g[k - 1] \o tt[k] /\ g[k] \in Seq(L)
               /\ FlattenSeq(tt) = g[Len(tt)]
  BY <1>1, FlattenSteps DEF S
<1> HIDE DEF n
<1>4. \A k \in 1 .. n : g[k - 1] = h[k - 1] => g[k] = h[k]
  <2>1. \A k \in 1 .. n : k \in 1 .. Len(tt)
    BY <1>1
  <2> QED BY <1>1, <1>2, <1>3, <2>1 DEF n
<1>5. g[n] = h[n]
  <2>1. n \in Nat /\ g[0] = h[0]
    BY <1>1, <1>2, <1>3
  <2> QED BY <1>4, <2>1, StepsAgree
<1>6. n + 1 \in 1 .. Len(tt) /\ (n + 1) - 1 = n
  BY <1>1
<1>7. g[n + 1] = g[n] \o x
  BY <1>1, <1>3, <1>6
<1> QED BY <1>1, <1>2, <1>3, <1>5, <1>7 DEF tt, n

RowsBy(s, r) == [i \in DOMAIN s |-> r[s[i]]]

\* Rows left out that were empty.
LEMMA FlattenDropped ==
  ASSUME NEW T, NEW L, NEW r \in [T -> Seq(L)], NEW S, \A x \in T : x \notin S => r[x] = <<>>,
         NEW s \in Seq(T)
  PROVE  FlattenSeq(RowsBy(s, r)) = FlattenSeq(RowsBy(Among(s, S), r))
<1> DEFINE R == Seq(L)
           Good(u) == FlattenSeq(RowsBy(u, r)) = FlattenSeq(RowsBy(Among(u, S), r))
           G == {u \in Seq(T) : Good(u)}
<1>1. ASSUME NEW u \in Seq(T) PROVE RowsBy(u, r) \in Seq(Seq(L))
  <2> HIDE DEF R
  <2>1. Len(u) \in Nat /\ DOMAIN u = 1 .. Len(u) /\ \A i \in 1 .. Len(u) : r[u[i]] \in R
    BY DEF R
  <2>2. RowsBy(u, r) \in Seq(R)
    BY <2>1 DEF RowsBy
  <2> QED BY <2>2 DEF R
<1>2. ASSUME NEW u \in Seq(T), NEW x \in T
      PROVE  RowsBy(Append(u, x), r) = Append(RowsBy(u, r), r[x])
  <2> DEFINE n == Len(u)
             v == Append(u, x)
             a == RowsBy(v, r)
             b == Append(RowsBy(u, r), r[x])
  <2>1. /\ n \in Nat /\ Len(v) = n + 1 /\ v \in Seq(T) /\ v[n + 1] = x
        /\ DOMAIN v = 1 .. n + 1 /\ DOMAIN u = 1 .. n
        /\ \A k \in 1 .. n : v[k] = u[k]
    OBVIOUS
  <2> HIDE DEF v
  <2>2. a \in Seq(R) /\ RowsBy(u, r) \in Seq(R) /\ r[x] \in R
    BY <1>1, <2>1
  <2>3. Len(RowsBy(u, r)) = n
    <3> DEFINE w == RowsBy(u, r)
    <3>1. DOMAIN w = 1 .. n
      BY <2>1 DEF RowsBy
    <3> HIDE DEF w, R, n
    <3> QED BY <2>1, <2>2, <3>1 DEF w
  <2>4. Len(a) = n + 1
    <3>1. DOMAIN a = 1 .. n + 1
      BY <2>1 DEF RowsBy
    <3> HIDE DEF a, R, n
    <3> QED BY <2>1, <2>2, <3>1
  <2>5. /\ b \in Seq(R) /\ Len(b) = n + 1 /\ b[n + 1] = r[x]
        /\ \A k \in 1 .. n : b[k] = RowsBy(u, r)[k]
    <3> DEFINE w == RowsBy(u, r)
               y == r[x]
    <3> HIDE DEF w, y, R, n
    <3> QED BY <2>1, <2>2, <2>3 DEF w, y
  <2>6. /\ a[n + 1] = r[x] /\ \A k \in 1 .. n : a[k] = RowsBy(u, r)[k]
    <3>1. \A k \in 1 .. n : a[k] = r[v[k]] /\ RowsBy(u, r)[k] = r[u[k]]
      BY <2>1 DEF RowsBy
    <3>2. n + 1 \in DOMAIN v
      BY <2>1
    <3>3. a[n + 1] = r[v[n + 1]]
      BY <3>2 DEF RowsBy
    <3> QED BY <2>1, <3>1, <3>3
  <2> HIDE DEF a, b, R, n
  <2>7. \A k \in 1 .. n + 1 : k \in 1 .. n \/ k = n + 1
    BY <2>1
  <2>8. a = b
    BY <2>2, <2>4, <2>5, <2>6, <2>7, SeqEqual
  <2> QED BY <2>8 DEF a, b, v
<1>3. <<>> \in G
  <2>1. Among(<<>>, S) = <<>>
    BY AmongEmpty
  <2> QED BY <2>1
<1>4. ASSUME NEW u \in Seq(T), NEW x \in T, u \in G PROVE Append(u, x) \in G
  <2> DEFINE w == Among(u, S)
             f == FlattenSeq(RowsBy(u, r))
  <2>1. Good(u) /\ w \in Seq(T) /\ Append(u, x) \in Seq(T)
    BY <1>4, AmongIs
  <2>2. Among(Append(u, x), S) = IF x \in S THEN Append(w, x) ELSE w
    BY AmongAppend
  <2> HIDE DEF w
  <2>3. RowsBy(u, r) \in Seq(Seq(L)) /\ RowsBy(w, r) \in Seq(Seq(L)) /\ r[x] \in Seq(L)
    BY <1>1, <2>1
  <2>4. FlattenSeq(Append(RowsBy(u, r), r[x])) = f \o r[x]
    BY <2>3, FlattenAppend
  <2>5. FlattenSeq(Append(RowsBy(w, r), r[x])) = FlattenSeq(RowsBy(w, r)) \o r[x]
    BY <2>3, FlattenAppend
  <2>6. FlattenSeq(RowsBy(w, r)) = f
    BY <2>1 DEF w
  <2>7. f \in Seq(L)
    BY <2>3, FlattenHas
  <2> HIDE DEF f
  <2>8. FlattenSeq(RowsBy(Append(u, x), r)) = f \o r[x]
    BY <1>2, <2>4
  <2>9. x \in S => FlattenSeq(RowsBy(Append(w, x), r)) = f \o r[x]
    BY <1>2, <2>1, <2>5, <2>6
  <2>10. x \notin S => f \o r[x] = f
    <3>1. x \notin S => r[x] = <<>>
      OBVIOUS
    <3>2. f \o <<>> = f
      BY <2>7
    <3> QED BY <3>1, <3>2
  <2>11. Good(Append(u, x))
    BY <2>2, <2>6, <2>8, <2>9, <2>10
  <2> HIDE DEF Good
  <2> QED BY <2>1, <2>11
<1>5. \A u \in Seq(T) : u \in G
  <2> HIDE DEF G
  <2> QED BY <1>3, <1>4, SeqInSet
<1> QED BY <1>5

\* Adding, removing and renaming layers leaves the options.
LEMMA AddOptions ==
  ASSUME NEW d, IsDocument(d), NEW n
  PROVE  IsDocument(add_layer(d, n)) /\ global_entries(add_layer(d, n)) = global_entries(d)
<1> DEFINE p == PlainName(<<n>>)
           e == add_layer(d, n)
<1>1. IsName(p)
  BY PlainIsName
<1>2. e = append_section(d, p, section_kind(p))
  BY DEF add_layer
<1> HIDE DEF e, p
<1>3. \A K, B : No("blank", B) => Agrees(d, e, K, B)
  BY <1>1, <1>2, AppendAgrees
<1>4. Agrees(d, e, {"global"}, Valued(Both(d, e)))
  BY <1>3, NoneOf
<1>5. IsDocument(e) /\ global_entries(e) = global_entries(d)
  BY <1>4, OptionsAgree DEF Agrees
<1> QED BY <1>5 DEF e

LEMMA RenameOptions ==
  ASSUME NEW d, IsDocument(d), Fits(d), NEW old, NEW new, new # "global"
  PROVE  global_entries(rename_layer(d, old, new)) = global_entries(d)
<1> DEFINE e == rename_layer(d, old, new)
<1>1. /\ IsDocument(e) /\ Len(e.secs) = Len(d.secs)
      /\ \A i \in DOMAIN d.secs : /\ e.secs[i].kind = d.secs[i].kind
                                  /\ ~is_board(d.secs[i].kind) => e.secs[i] = d.secs[i]
  BY RenameLeaves
<1> HIDE DEF e
<1>2. DOMAIN e.secs = DOMAIN d.secs
  BY <1>1, DocDomain DEF IsDocument
<1>3. Globals(e) = Globals(d) /\ \A i \in Globals(d) : i \in DOMAIN d.secs /\ e.secs[i] = d.secs[i]
  BY <1>1, <1>2 DEF Globals, is_board, BoardKinds
<1>4. Rows(e, Globals(e)) = Rows(d, Globals(d))
  BY <1>2, <1>3 DEF Rows
<1>5. global_entries(e) = global_entries(d)
  BY <1>4, ListsFrom
<1> QED BY <1>5 DEF e

LEMMA RemoveOptions ==
  ASSUME NEW d, IsDocument(d), Fits(d), NEW b
  PROVE  global_entries(remove_layer(d, b)) = global_entries(d)
<1> DEFINE e == remove_layer(d, b)
           T == ToSet(d.secs)
           S == {s \in T : ~feeds_board(s, b)}
           L == TextsOf(d)
           r == [s \in T |-> IF s.kind = "global" THEN Texts(s.ents) ELSE <<>>]
<1>1. e.secs = Among(d.secs, S) /\ IsDocument(e)
  BY RemoveLeaves
<1>2. d.secs \in Seq(T)
  BY DEF IsDocument, IsDoc, IsList, ToSet
<1>3. r \in [T -> Seq(L)]
  <2> DEFINE Z == Seq(L)
  <2>1. \A s \in T : r[s] \in Z
    <3> SUFFICES ASSUME NEW s \in T PROVE r[s] \in Z
      OBVIOUS
    <3> DEFINE x == s.ents
               X == {x[j].text : j \in DOMAIN x}
    <3>1. PICK i \in DOMAIN d.secs : s = d.secs[i]
      BY DEF ToSet
    <3>2. IsEntries(x) /\ X \subseteq L
      BY <3>1 DEF IsDocument, TextsOf
    <3>3. r[s] = Texts(x) \/ r[s] = <<>>
      OBVIOUS
    <3> HIDE DEF x, r, L
    <3>4. Texts(x) \in Seq(X)
      BY <3>2, EntriesSeq
    <3> HIDE DEF X
    <3>5. Texts(x) \in Seq(L) /\ <<>> \in Seq(L)
      BY <3>2, <3>4
    <3> QED BY <3>3, <3>5
  <2> HIDE DEF Z
  <2> QED BY <2>1 DEF Z
<1>4. \A x \in T : x \notin S => r[x] = <<>>
  BY DEF feeds_board, is_board, BoardKinds
<1>5. Rows(d, Globals(d)) = RowsBy(d.secs, r)
  BY DEF Rows, Globals, RowsBy, ToSet
<1>6. Rows(e, Globals(e)) = RowsBy(e.secs, r)
  <2>0. \A i \in DOMAIN e.secs : e.secs[i] \in T
    <3>1. e.secs \in Seq(T)
      <4> HIDE DEF S, T, e
      <4> QED BY <1>1, <1>2, AmongIs
    <3> HIDE DEF e, T
    <3> QED BY <3>1, ListOfSeq
  <2> HIDE DEF e
  <2>1. \A i \in DOMAIN e.secs : r[e.secs[i]] = IF i \in Globals(e) THEN Texts(e.secs[i].ents) ELSE <<>>
    BY <2>0 DEF Globals
  <2> HIDE DEF r
  <2> QED BY <2>1 DEF Rows, RowsBy
<1> HIDE DEF e, r, S, T, L
<1>7. FlattenSeq(RowsBy(d.secs, r)) = FlattenSeq(RowsBy(Among(d.secs, S), r))
  BY <1>2, <1>3, <1>4, FlattenDropped
<1>8. FlattenSeq(Rows(e, Globals(e))) = FlattenSeq(Rows(d, Globals(d)))
  BY <1>1, <1>5, <1>6, <1>7
<1>9. global_entries(e) = global_entries(d)
  BY <1>8, ListsFrom
<1> QED BY <1>9 DEF e

-----------------------------------------------------------------------------
(* The warnings.                                                           *)

\* The valued bindings of the boards, each with the name of its section.
BoardSecs(d) == {i \in DOMAIN d.secs : is_board(d.secs[i].kind)}
Told(n, x) == [j \in DOMAIN x |-> [section |-> n, text |-> x[j].text]]
BindingsOf(d) ==
  UNION {{[section |-> d.secs[i].name.parts, text |-> t] :
            t \in Valued({d.secs[i].ents[j].text : j \in DOMAIN d.secs[i].ents})} : i \in BoardSecs(d)}

\* What BoardBindings lists is that set.
LEMMA BoardBindingsAre ==
  ASSUME NEW d, IsDocument(d)
  PROVE  ToSet(BoardBindings(d)) = BindingsOf(d)
<1> DEFINE n == Len(d.secs)
           Tx(i) == {d.secs[i].ents[j].text : j \in DOMAIN d.secs[i].ents}
           Rec(i) == {[section |-> d.secs[i].name.parts, text |-> t] : t \in Tx(i)}
           M == UNION {Rec(i) : i \in DOMAIN d.secs}
           ss == [i \in DOMAIN d.secs |->
                    IF is_board(d.secs[i].kind) THEN Told(d.secs[i].name.parts, d.secs[i].ents) ELSE <<>>]
           all == FlattenSeq(ss)
           S == {e \in ToSet(all) : e.text.k = "bind" /\ e.text.val # NoVal}
<1>1. BoardBindings(d) = Among(all, S)
  BY DEF BoardBindings, Told
<1>2. n \in Nat /\ DOMAIN d.secs = 1 .. n
  BY DocDomain DEF IsDocument
<1>3. \A i \in 1 .. n : /\ ss[i] \in Seq(M)
                        /\ ToSet(ss[i]) = IF i \in BoardSecs(d) THEN Rec(i) ELSE {}
  <2> SUFFICES ASSUME NEW i \in 1 .. n
               PROVE  ss[i] \in Seq(M) /\ ToSet(ss[i]) = IF i \in BoardSecs(d) THEN Rec(i) ELSE {}
    OBVIOUS
  <2> DEFINE x == d.secs[i].ents
             p == d.secs[i].name.parts
             R == Rec(i)
  <2>1. IsList(x) /\ Len(x) \in Nat /\ DOMAIN x = 1 .. Len(x)
    BY <1>2, ListLen DEF IsDocument, IsEntries
  <2>2. R \subseteq M
    BY <1>2
  <2>3. Told(p, x) \in Seq(R) /\ ToSet(Told(p, x)) = R
    <3>1. \A j \in DOMAIN x : Told(p, x)[j] \in R
      BY DEF Told
    <3>2. DOMAIN Told(p, x) = 1 .. Len(x) /\ Told(p, x) = [j \in 1 .. Len(x) |-> Told(p, x)[j]]
      BY <2>1 DEF Told
    <3>3. R = {Told(p, x)[j] : j \in DOMAIN x}
      BY DEF Told
    <3> HIDE DEF R, x
    <3>4. Told(p, x) \in Seq(R)
      BY <2>1, <3>1, <3>2
    <3> QED BY <2>1, <3>2, <3>3, <3>4 DEF ToSet
  <2>4. ss[i] = IF i \in BoardSecs(d) THEN Told(p, x) ELSE <<>>
    BY <1>2 DEF BoardSecs
  <2> HIDE DEF R, x, p, ss, M, Rec
  <2>5. Told(p, x) \in Seq(M) /\ <<>> \in Seq(M)
    BY <2>2, <2>3
  <2>6. ToSet(<<>>) = {}
    BY DEF ToSet
  <2> QED BY <2>3, <2>4, <2>5, <2>6 DEF R
<1>4. ss \in Seq(Seq(M)) /\ Len(ss) = n
  <2> DEFINE Z == Seq(M)
  <2>1. \A i \in 1 .. n : ss[i] \in Z
    BY <1>3
  <2>2. DOMAIN ss = 1 .. n /\ ss = [i \in 1 .. n |-> ss[i]]
    BY <1>2
  <2> HIDE DEF Z, ss, n, M
  <2> QED BY <1>2, <2>1, <2>2 DEF Z
<1> HIDE DEF ss, n, M
<1>5. all \in Seq(M) /\ ToSet(all) = UNION {ToSet(ss[i]) : i \in 1 .. n}
  BY <1>4, FlattenHas
<1> HIDE DEF all, Rec
<1>6. ToSet(all) = UNION {Rec(i) : i \in BoardSecs(d)}
  <2>1. BoardSecs(d) \subseteq 1 .. n
    BY <1>2 DEF BoardSecs
  <2> QED BY <1>3, <1>5, <2>1
<1>7. ToSet(BoardBindings(d)) = S
  <2>1. S \subseteq ToSet(all)
    OBVIOUS
  <2> HIDE DEF S
  <2>2. ToSet(Among(all, S)) = ToSet(all) \intersect S
    BY <1>5, AmongIs
  <2> QED BY <1>1, <2>1, <2>2
<1>8. S = BindingsOf(d)
  <2> DEFINE V(i) == {[section |-> d.secs[i].name.parts, text |-> t] : t \in Valued(Tx(i))}
  <2>1. ASSUME NEW i \in BoardSecs(d)
        PROVE  V(i) = {e \in Rec(i) : e.text.k = "bind" /\ e.text.val # NoVal}
    BY DEF Rec, Valued
  <2>2. BindingsOf(d) = UNION {V(i) : i \in BoardSecs(d)}
    BY DEF BindingsOf
  <2> HIDE DEF V
  <2> QED BY <1>6, <2>1, <2>2
<1> QED BY <1>7, <1>8

\* Documents that agree on the bindings of the boards have the same.
LEMMA BindingsAgree ==
  ASSUME NEW d, IsDocument(d), NEW e, Agrees(d, e, BoardKinds, Valued(Both(d, e)))
  PROVE  BindingsOf(e) = BindingsOf(d)
<1> DEFINE L == Both(d, e)
           B == Valued(L)
           n == Len(d.secs)
           m == Len(e.secs)
           Tx(f, i) == {f.secs[i].ents[j].text : j \in DOMAIN f.secs[i].ents}
           V(f, i) == {[section |-> f.secs[i].name.parts, text |-> t] : t \in Valued(Tx(f, i))}
<1>1. /\ n \in Nat /\ DOMAIN d.secs = 1 .. n /\ DOMAIN e.secs = 1 .. m
      /\ m = n \/ m = n + 1
      /\ IsDocument(e)
  BY DocDomain DEF IsDocument, Agrees
<1>2. ASSUME NEW f, IsDocument(f), TextsOf(f) \subseteq L, NEW i \in DOMAIN f.secs
      PROVE  Valued(Tx(f, i)) = ToSet(Among(Texts(f.secs[i].ents), B))
  <2> DEFINE x == f.secs[i].ents
             y == Texts(x)
             T == Tx(f, i)
  <2>1. IsEntries(x) /\ T \subseteq L
    BY <1>2 DEF IsDocument, TextsOf
  <2> HIDE DEF L
  <2>2. y \in Seq(T)
    <3> HIDE DEF x
    <3> QED BY <2>1, EntriesSeq DEF x
  <2>3. ToSet(y) = T
    <3>1. DOMAIN y = DOMAIN x /\ \A j \in DOMAIN x : y[j] = x[j].text
      BY DEF Texts
    <3> HIDE DEF y
    <3> QED BY <3>1 DEF ToSet
  <2> HIDE DEF y, B, T
  <2>4. ToSet(Among(y, B)) = ToSet(y) \intersect B
    BY <2>2, AmongIs
  <2>5. Valued(T) = T \intersect B
    BY <2>1 DEF B, Valued
  <2> QED BY <2>3, <2>4, <2>5 DEF T, y
<1>3. TextsOf(d) \subseteq L /\ TextsOf(e) \subseteq L
  BY DEF Both
<1>4. ASSUME NEW i \in DOMAIN d.secs
      PROVE  /\ i \in DOMAIN e.secs /\ (i \in BoardSecs(d) <=> i \in BoardSecs(e))
             /\ i \in BoardSecs(d) => V(d, i) = V(e, i)
  <2>1. i \in DOMAIN e.secs
    BY <1>1
  <2>2. /\ SameHead(d.secs[i], e.secs[i])
        /\ d.secs[i].kind \in BoardKinds
             => Among(Texts(e.secs[i].ents), B) = Among(Texts(d.secs[i].ents), B)
    BY DEF Agrees
  <2>3. Valued(Tx(d, i)) = ToSet(Among(Texts(d.secs[i].ents), B))
        /\ Valued(Tx(e, i)) = ToSet(Among(Texts(e.secs[i].ents), B))
    <3> HIDE DEF Tx, B, L
    <3> QED BY <1>1, <1>2, <1>3, <2>1
  <2>4. i \in BoardSecs(d) => Valued(Tx(d, i)) = Valued(Tx(e, i))
    <3> HIDE DEF Tx, B, L
    <3> QED BY <2>2, <2>3 DEF BoardSecs, is_board
  <2>5. d.secs[i].name.parts = e.secs[i].name.parts
    BY <2>2 DEF SameHead
  <2>6. i \in BoardSecs(d) <=> i \in BoardSecs(e)
    BY <2>1, <2>2 DEF BoardSecs, SameHead
  <2> HIDE DEF Tx
  <2> QED BY <2>1, <2>4, <2>5, <2>6
<1>5. ASSUME NEW i \in DOMAIN e.secs, i \in BoardSecs(e), i \notin DOMAIN d.secs PROVE V(e, i) = {}
  <2>1. i = m /\ m = n + 1 /\ m # n
    BY <1>1, <1>5
  <2>2. e.secs[m].kind \in BoardKinds
    BY <1>5, <2>1 DEF BoardSecs, is_board
  <2>3. Among(Texts(e.secs[m].ents), B) = <<>>
    BY <2>1, <2>2 DEF Agrees
  <2>4. Valued(Tx(e, i)) = ToSet(<<>>)
    <3> HIDE DEF Tx, B, L, m
    <3> QED BY <1>1, <1>2, <1>3, <2>1, <2>3
  <2>5. Valued(Tx(e, i)) = {}
    BY <2>4 DEF ToSet
  <2> HIDE DEF Tx
  <2> QED BY <2>5
<1>6. BindingsOf(d) = UNION {V(d, i) : i \in BoardSecs(d)} /\ BindingsOf(e) = UNION {V(e, i) : i \in BoardSecs(e)}
  BY DEF BindingsOf
<1>7. BoardSecs(d) \subseteq DOMAIN d.secs /\ BoardSecs(e) \subseteq DOMAIN e.secs
  BY DEF BoardSecs
<1> HIDE DEF V
<1> QED BY <1>4, <1>5, <1>6, <1>7

\* The warnings from what they are read off.
Orphans(R, D) ==
  UNION {{[section |-> e.section, key |-> e.text.key, layer |-> n] :
            n \in {m \in layer_refs(e.text.val) : <<m>> \notin D}} : e \in R}

\* The orphans follow from the bindings of the boards and the layers defined.
LEMMA OrphansAgree ==
  ASSUME NEW d, IsDocument(d), NEW e, IsDocument(e), BindingsOf(e) = BindingsOf(d),
         Defined(e) = Defined(d) \/ Defined(d) = {}
  PROVE  orphan_layer_refs(e) = orphan_layer_refs(d)
<1>1. orphan_layer_refs(d) = Orphans(BindingsOf(d), Defined(d))
  BY BoardBindingsAre DEF orphan_layer_refs, Orphans
<1>2. orphan_layer_refs(e) = Orphans(BindingsOf(e), Defined(e))
  BY BoardBindingsAre DEF orphan_layer_refs, Orphans
<1>3. CASE Defined(e) = Defined(d)
  BY <1>1, <1>2, <1>3
<1>4. CASE Defined(d) = {}
  <2>1. BoardSecs(d) = {}
    BY <1>4 DEF BoardSecs, Defined
  <2>2. BindingsOf(d) = {}
    BY <2>1 DEF BindingsOf
  <2>3. \A D : Orphans({}, D) = {}
    BY DEF Orphans
  <2> QED BY <1>1, <1>2, <2>2, <2>3
<1> QED BY <1>3, <1>4

\* Dangling parts are those of composites, whose heads an edit leaves alone.
LEMMA DanglingAgree ==
  ASSUME NEW d, IsDocument(d), NEW e,
         \/ Gains(d, e, PlainName(Main), "main")
         \/ Gains(d, e, PlainName(<<"global">>), "global")
  PROVE  dangling_composites(e) = dangling_composites(d)
<1>1. /\ Len(d.secs) \in Nat /\ DOMAIN d.secs = 1 .. Len(d.secs)
      /\ Len(e.secs) \in Nat /\ DOMAIN e.secs = 1 .. Len(e.secs)
  BY DocDomain DEF IsDocument, Gains, SameHeads, Adds
<1>2. \A i \in DOMAIN d.secs : i \in DOMAIN e.secs /\ e.secs[i].name = d.secs[i].name
                               /\ e.secs[i].kind = d.secs[i].kind
  BY <1>1 DEF Gains, SameHeads, Adds, SameHead
<1>3. \A i \in DOMAIN e.secs : i \in DOMAIN d.secs
         \/ (e.secs[i].kind = "main" /\ e.secs[i].name.parts = Main) \/ e.secs[i].kind = "global"
  <2>1. \A n, kind : Adds(d, e, n, kind) => \A i \in DOMAIN e.secs :
           i \in DOMAIN d.secs \/ (e.secs[i].name = n /\ e.secs[i].kind = kind)
    BY <1>1 DEF Adds
  <2>2. SameHeads(d, e) => DOMAIN e.secs = DOMAIN d.secs
    BY <1>1 DEF SameHeads
  <2>3. CASE SameHeads(d, e)
    BY <2>2, <2>3
  <2>4. CASE Adds(d, e, PlainName(Main), "main")
    <3>1. PlainName(Main).parts = Main
      BY PlainIsName
    <3>2. \A i \in DOMAIN e.secs : i \in DOMAIN d.secs
             \/ (e.secs[i].name = PlainName(Main) /\ e.secs[i].kind = "main")
      BY <2>1, <2>4
    <3> QED BY <3>1, <3>2
  <2>5. CASE Adds(d, e, PlainName(<<"global">>), "global")
    BY <2>1, <2>5
  <2> QED BY <2>3, <2>4, <2>5 DEF Gains
<1> DEFINE C == {i \in DOMAIN d.secs : d.secs[i].kind = "composite"}
           Miss(p, P) == {<<p, n>> : n \in {m \in ToSet(p) : m # "main" /\ <<m>> \notin P}}
<1>4. C = {i \in DOMAIN e.secs : e.secs[i].kind = "composite"}
  BY <1>2, <1>3
<1>5. \A m : m # "main" => (<<m>> \in Plain(e) <=> <<m>> \in Plain(d))
  <2> SUFFICES ASSUME NEW m, m # "main" PROVE <<m>> \in Plain(e) <=> <<m>> \in Plain(d)
    OBVIOUS
  <2>1. <<m>> # Main
    BY DEF Main
  <2> QED BY <1>2, <1>3, <2>1 DEF Plain
<1>6. \A p : Miss(p, Plain(e)) = Miss(p, Plain(d))
  BY <1>5
<1>7. dangling_composites(d) = UNION {Miss(d.secs[i].name.parts, Plain(d)) : i \in C}
  BY DEF dangling_composites
<1>8. dangling_composites(e) = UNION {Miss(e.secs[i].name.parts, Plain(e)) : i \in C}
  BY <1>4 DEF dangling_composites
<1> HIDE DEF Miss
<1> QED BY <1>2, <1>6, <1>7, <1>8

\* An edit that leaves the bindings of the boards, and what can dangle, leaves the warnings.
LEMMA WarningsAgree ==
  ASSUME NEW d, IsDocument(d), NEW e, Agrees(d, e, BoardKinds, Valued(Both(d, e))),
         \/ Gains(d, e, PlainName(Main), "main")
         \/ Gains(d, e, PlainName(<<"global">>), "global"),
         Defined(e) = Defined(d) \/ Defined(d) = {}
  PROVE  orphan_warnings(e) = orphan_warnings(d)
<1>1. orphan_layer_refs(e) = orphan_layer_refs(d)
  BY OrphansAgree, BindingsAgree DEF Agrees
<1>2. dangling_composites(e) = dangling_composites(d)
  BY DanglingAgree
<1> QED BY <1>1, <1>2 DEF orphan_warnings

\* Where the layer has a section, labelling it makes none.
LEMMA LabelSame ==
  ASSUME NEW d, IsDocument(d), NEW b, Boards(d, b) # {}, NEW c, NEW t
  PROVE  SameHeads(d, set_label(d, b, c, t))
<1> DEFINE style == file_eol(d)
           at    == LastSection(d, LAMBDA s : feeds_board(s, b))
           lab   == LastSection(d, LAMBDA s : feeds_board(s, b) /\ label_index(s, c) # 0)
           bnd   == LastSection(d, LAMBDA s : feeds_board(s, b) /\ get_binding(s, c) # NoVal)
           Set(i) == InSection(d, i, SectionSetLabel(d.secs[i], c, t, style))
           e     == set_label(d, b, c, t)
<1>1. \A i \in DOMAIN d.secs : IsSection(d.secs[i])
  BY DEF IsDocument, IsDoc
<1>2. at # 0
  <2> DEFINE I == {i \in 1 .. Len(d.secs) : feeds_board(d.secs[i], b)}
  <2>1. at = IF I # {} THEN Max(I) ELSE 0
    BY DEF LastSection, SelectLastInSeq
  <2>2. Len(d.secs) \in Nat /\ DOMAIN d.secs = 1 .. Len(d.secs)
    BY DocDomain DEF IsDocument
  <2>3. Boards(d, b) \in SUBSET (1 .. Len(d.secs)) /\ I = Boards(d, b)
    BY <2>2 DEF Boards
  <2> HIDE DEF at, I
  <2>4. Max(Boards(d, b)) \in Boards(d, b)
    BY <2>2, <2>3, MaxIs
  <2> QED BY <2>1, <2>2, <2>3, <2>4
<1>3. e = Set(lab) \/ e = Set(bnd) \/ e = Set(at)
  <2>1. e = IF lab # 0 THEN Set(lab) ELSE IF bnd # 0 THEN Set(bnd)
            ELSE InTarget(d, b, LAMBDA s : SectionSetLabel(s, c, t, style))
    BY DEF set_label
  <2>2. InTarget(d, b, LAMBDA s : SectionSetLabel(s, c, t, style)) = Set(at)
    BY <1>2 DEF InTarget
  <2> QED BY <2>1, <2>2
<1> HIDE DEF e, at, lab, bnd, style
<1>4. \A i : SameHeads(d, Set(i))
  BY <1>1, InSectionKeeps, LabelKeepsHead DEF IsDocument
<1> HIDE DEF Set
<1>5. SameHeads(d, e)
  BY <1>3, <1>4
<1> QED BY <1>5 DEF e

\* A document the editor can be in: its lines are entries and its sections
\* have the kind their name gives them.
Sound(d) == IsDocument(d) /\ Fits(d)

\* An edit of a key, a label, a chord or an option leaves a document.
LEMMA GainsFits ==
  ASSUME NEW d, Sound(d), NEW e,
         \/ Gains(d, e, PlainName(Main), "main")
         \/ Gains(d, e, PlainName(<<"global">>), "global")
  PROVE  Fits(e)
<1>1. IsDoc(d) /\ Fits(d)
  BY DEF Sound, IsDocument
<1>2. CASE SameHeads(d, e)
  BY <1>1, <1>2, FitsSame
<1>3. CASE Adds(d, e, PlainName(Main), "main")
  BY <1>1, <1>3, FitsAdds, MadeFits
<1>4. CASE Adds(d, e, PlainName(<<"global">>), "global")
  BY <1>1, <1>4, FitsAdds, MadeFits
<1> QED BY <1>2, <1>3, <1>4 DEF Gains

LEMMA NoNothing == \A k : No(k, {})
BY DEF No

LEMMA BindingSound ==
  ASSUME NEW d, Sound(d), NEW b, NEW c, NEW v
  PROVE  Sound(set_layer_binding(d, b, c, v)) /\ Sound(clear_binding(d, b, c))
<1>1. IsDocument(d) /\ IsDoc(d)
  BY DEF Sound, IsDocument
<1>2. IsDocument(set_layer_binding(d, b, c, v)) /\ IsDocument(clear_binding(d, b, c))
  BY <1>1, BindingAgrees, ClearAgrees, NoNothing DEF Agrees
<1>3. Gains(d, set_layer_binding(d, b, c, v), PlainName(Main), "main")
  BY <1>1, BindingHeads
<1>4. Gains(d, clear_binding(d, b, c), PlainName(Main), "main")
  BY <1>1, OnBoardKeeps DEF Gains
<1> QED BY <1>2, <1>3, <1>4, GainsFits DEF Sound

LEMMA ChordSound ==
  ASSUME NEW d, Sound(d), NEW b, NEW c, NEW v
  PROVE  Sound(set_layer_chord(d, b, c, v)) /\ Sound(remove_chord(d, b, c))
<1>1. IsDocument(d) /\ IsDoc(d)
  BY DEF Sound, IsDocument
<1>2. IsDocument(set_layer_chord(d, b, c, v)) /\ IsDocument(remove_chord(d, b, c))
  BY <1>1, ChordDocument
<1>3. Gains(d, set_layer_chord(d, b, c, v), PlainName(Main), "main")
  BY <1>1, ChordHeads
<1>4. Gains(d, remove_chord(d, b, c), PlainName(Main), "main")
  BY <1>1, OnBoardKeeps DEF Gains
<1> QED BY <1>2, <1>3, <1>4, GainsFits DEF Sound

\* A label edit of a board that is there, or of the first [main], is a label
\* edit only: every warning stays.
LEMMA LabelSound ==
  ASSUME NEW d, Sound(d), NEW b, NEW c, NEW t
  PROVE  /\ Sound(set_label(d, b, c, t)) /\ Sound(clear_label(d, b, c))
         /\ orphan_warnings(clear_label(d, b, c)) = orphan_warnings(d)
         /\ Boards(d, b) # {} \/ (b = Main /\ (Main \notin Defined(d) => Defined(d) = {}))
              => orphan_warnings(set_label(d, b, c, t)) = orphan_warnings(d)
<1> DEFINE s == set_label(d, b, c, t)
           u == clear_label(d, b, c)
<1>1. IsDocument(d) /\ IsDoc(d)
  BY DEF Sound, IsDocument
<1>2. Agrees(d, s, BoardKinds, Valued(Both(d, s))) /\ Agrees(d, u, BoardKinds, Valued(Both(d, u)))
  BY <1>1, LabelAgrees, ClearAgrees, NoneOf
<1>3. Gains(d, s, PlainName(Main), "main")
  BY <1>1, LabelHeads
<1>4. SameHeads(d, u)
  BY <1>1, OnBoardKeeps
<1>5. Gains(d, u, PlainName(Main), "main")
  BY <1>4 DEF Gains
<1>6. ASSUME Boards(d, b) # {} PROVE SameHeads(d, s)
  BY <1>1, <1>6, LabelSame
<1>7. Boards(d, Main) # {} <=> Main \in Defined(d)
  BY DEF Boards, Defined, feeds_board
<1> HIDE DEF s, u
<1>8. Sound(s) /\ Sound(u)
  BY <1>2, <1>3, <1>5, GainsFits DEF Sound, Agrees
<1>9. orphan_warnings(u) = orphan_warnings(d)
  BY <1>1, <1>2, <1>4, <1>5, DefinedSame, WarningsAgree
<1>10. ASSUME Boards(d, b) # {} \/ (b = Main /\ (Main \notin Defined(d) => Defined(d) = {}))
       PROVE  orphan_warnings(s) = orphan_warnings(d)
  <2>1. Defined(s) = Defined(d) \/ Defined(d) = {}
    BY <1>1, <1>6, <1>7, <1>10, DefinedSame
  <2> QED BY <1>1, <1>2, <1>3, <2>1, WarningsAgree
<1> QED BY <1>8, <1>9, <1>10 DEF s, u

\* An option edit leaves the boards' chords and every warning.
LEMMA OptionSound ==
  ASSUME NEW d, Sound(d), NEW c, NEW v
  PROVE  \A e \in {set_global_option(d, c, v), clear_global(d, c)} :
           /\ Sound(e) /\ orphan_warnings(e) = orphan_warnings(d)
           /\ \A b : chords(e, b) = chords(d, b)
<1> TAKE e \in {set_global_option(d, c, v), clear_global(d, c)}
<1>1. IsDocument(d) /\ IsDoc(d) /\ Fits(d)
  BY DEF Sound, IsDocument
<1>2. Agrees(d, e, BoardKinds, Valued(Both(d, e)))
  BY <1>1, OptionAgrees, NoneOf
<1>3. Gains(d, e, PlainName(<<"global">>), "global")
  BY <1>1, OptionHeads DEF Gains
<1>4. Defined(e) = Defined(d)
  <2>1. ~is_board("global")
    BY DEF is_board, BoardKinds
  <2>2. CASE SameHeads(d, e)
    BY <1>1, <2>2, DefinedSame
  <2>3. CASE Adds(d, e, PlainName(<<"global">>), "global")
    BY <1>1, <2>1, <2>3, DefinedAdds
  <2> QED BY <1>3, <2>2, <2>3 DEF Gains
<1>5. Sound(e)
  BY <1>2, <1>3, GainsFits DEF Sound, Agrees
<1>6. orphan_warnings(e) = orphan_warnings(d)
  BY <1>1, <1>2, <1>3, <1>4, WarningsAgree
<1> QED BY <1>1, <1>2, <1>5, <1>6, ChordsAgree

\* A layer edit leaves the options.
LEMMA LayerSound ==
  ASSUME NEW d, Sound(d)
  PROVE  /\ \A n : Sound(add_layer(d, n)) /\ global_entries(add_layer(d, n)) = global_entries(d)
         /\ \A b : Sound(remove_layer(d, b)) /\ global_entries(remove_layer(d, b)) = global_entries(d)
         /\ \A old, new : CanRename(d, old, new) =>
              Sound(rename_layer(d, old, new)) /\ global_entries(rename_layer(d, old, new)) = global_entries(d)
<1>1. IsDocument(d) /\ IsDoc(d) /\ Fits(d)
  BY DEF Sound, IsDocument
<1>2. ASSUME NEW n
      PROVE  Sound(add_layer(d, n)) /\ global_entries(add_layer(d, n)) = global_entries(d)
  <2> DEFINE p == PlainName(<<n>>)
             k == section_kind(p)
  <2>2. Adds(d, add_layer(d, n), p, k) /\ FitsName(p, k)
    BY <1>1, AddHeads, MadeFits
  <2> HIDE DEF p, k
  <2>1. Fits(add_layer(d, n))
    BY <1>1, <2>2, FitsAdds
  <2> QED BY <1>1, <2>1, AddOptions DEF Sound
<1>3. ASSUME NEW b
      PROVE  Sound(remove_layer(d, b)) /\ global_entries(remove_layer(d, b)) = global_entries(d)
  BY <1>1, RemoveLeaves, RemoveOptions DEF Sound
<1>4. ASSUME NEW old, NEW new, CanRename(d, old, new)
      PROVE  Sound(rename_layer(d, old, new))
             /\ global_entries(rename_layer(d, old, new)) = global_entries(d)
  <2>1. new # "global"
    BY <1>4 DEF CanRename, Reserved
  <2> QED BY <1>1, <2>1, RenameLeaves, RenameOptions DEF Sound
<1> QED BY <1>2, <1>3, <1>4

-----------------------------------------------------------------------------
(* What is on screen.                                                      *)

\* The layer bar offers layers of the document; only a document without a
\* board has its edits land on a [main] that is not there; no key is selected
\* while the chords or the options are shown; and the lists are the document's.
ScreenInv ==
  /\ FocusInv /\ Sound(edit)
  /\ ToSet(lists.layers) \subseteq Defined(edit)
  /\ layer = Main /\ Main \notin Defined(edit) => Defined(edit) = {}
  /\ lists.warnings = orphan_warnings(edit)
  /\ chordMode => lists.chords = chords(edit, layer)
  /\ globalForm => lists.globals = global_entries(edit)

\* A callback that leaves the layer and the modes as they are.
LEMMA KeptScreen ==
  ASSUME ScreenInv, FocusInv', UNCHANGED <<layer, mode>>, lists'.layers = lists.layers,
         Sound(edit'), Grows(edit, edit'),
         lists'.warnings = orphan_warnings(edit'),
         chordMode => lists'.chords = chords(edit', layer),
         globalForm => lists'.globals = global_entries(edit')
  PROVE  ScreenInv'
<1>1. Defined(edit) \subseteq Defined(edit') /\ Defined(edit') \subseteq Defined(edit) \union {Main}
  BY DEF Grows
<1>2. /\ layer' = layer /\ chordMode' = chordMode /\ globalForm' = globalForm
      /\ lists'.layers = lists.layers
  BY DEF mode
<1>3. ToSet(lists'.layers) \subseteq Defined(edit')
  BY <1>1, <1>2 DEF ScreenInv
<1>4. layer' = Main /\ Main \notin Defined(edit') => Defined(edit') = {}
  BY <1>1, <1>2 DEF ScreenInv
<1>5. /\ lists'.warnings = orphan_warnings(edit')
      /\ chordMode' => lists'.chords = chords(edit', layer')
      /\ globalForm' => lists'.globals = global_entries(edit')
  BY <1>2
<1> QED BY <1>3, <1>4, <1>5 DEF ScreenInv

LEMMA GrowsRefl == ASSUME NEW d, IsDoc(d) PROVE Grows(d, d)
  BY DEF Grows

\* The callbacks that change neither the document nor what is listed.
LEMMA StillScreen ==
  ASSUME ScreenInv, FocusInv', UNCHANGED <<edit, layer, mode, lists>>
  PROVE  ScreenInv'
<1>1. Grows(edit, edit')
  BY GrowsRefl DEF ScreenInv, FocusInv
<1>2. edit' = edit /\ lists' = lists
  OBVIOUS
<1>3. /\ lists'.layers = lists.layers /\ Sound(edit')
      /\ lists'.warnings = orphan_warnings(edit')
      /\ chordMode => lists'.chords = chords(edit', layer)
      /\ globalForm => lists'.globals = global_entries(edit')
  BY <1>2 DEF ScreenInv
<1> QED BY <1>1, <1>3, KeptScreen

\* One list, or two, replaced.
LEMMA ListsReplaced ==
  ASSUME NEW l, IsLists(l), NEW x, NEW y
  PROVE  LET c == [l EXCEPT !.chords = x]
             g == [l EXCEPT !.globals = x]
             w == [l EXCEPT !.warnings = y]
             b == [l EXCEPT !.chords = x, !.warnings = y]
         IN  /\ c.layers = l.layers /\ c.chords = x /\ c.globals = l.globals /\ c.warnings = l.warnings
             /\ g.layers = l.layers /\ g.chords = l.chords /\ g.globals = x /\ g.warnings = l.warnings
             /\ w.layers = l.layers /\ w.chords = l.chords /\ w.globals = l.globals /\ w.warnings = y
             /\ b.layers = l.layers /\ b.chords = x /\ b.globals = l.globals /\ b.warnings = y
<1> DEFINE c == [l EXCEPT !.chords = x]
           g == [l EXCEPT !.globals = x]
           w == [l EXCEPT !.warnings = y]
           b == [c EXCEPT !.warnings = y]
<1>1. c = [layers |-> l.layers, chords |-> x, globals |-> l.globals, warnings |-> l.warnings]
  BY ListsExcept
<1>2. g = [layers |-> l.layers, chords |-> l.chords, globals |-> x, warnings |-> l.warnings]
  BY ListsExcept
<1>3. w = [layers |-> l.layers, chords |-> l.chords, globals |-> l.globals, warnings |-> y]
  BY ListsExcept
<1>4. b = [l EXCEPT !.chords = x, !.warnings = y]
  OBVIOUS
<1> HIDE DEF c
<1>5. IsLists(c) /\ c.layers = l.layers /\ c.chords = x /\ c.globals = l.globals
  BY <1>1 DEF IsLists
<1>6. b = [layers |-> c.layers, chords |-> c.chords, globals |-> c.globals, warnings |-> y]
  BY <1>5, ListsExcept
<1> HIDE DEF g, w, b
<1>7. b.layers = l.layers /\ b.chords = x /\ b.globals = l.globals /\ b.warnings = y
  BY <1>5, <1>6
<1>8. c.layers = l.layers /\ c.chords = x /\ c.globals = l.globals /\ c.warnings = l.warnings
  BY <1>1
<1>9. g.layers = l.layers /\ g.chords = l.chords /\ g.globals = x /\ g.warnings = l.warnings
  BY <1>2
<1>10. w.layers = l.layers /\ w.chords = l.chords /\ w.globals = l.globals /\ w.warnings = y
  BY <1>3
<1> QED BY <1>4, <1>7, <1>8, <1>9, <1>10 DEF c, g, w, b

\* The callbacks that edit nothing.
LEMMA SelectingShows ==
  ASSUME ScreenInv, FocusInv', FocusNext
  PROVE  ScreenInv'
<1>0. IsLists(lists)
  BY DEF ScreenInv, FocusInv
<1>1. ASSUME NEW k \in EditKeys, SelectKey(k) PROVE ScreenInv'
  <2>1. UNCHANGED <<edit, layer, mode, lists>>
    BY <1>1 DEF SelectKey, vars
  <2> QED BY <2>1, StillScreen
<1>2. ASSUME NEW i \in DOMAIN lists.layers, PickEditLayer(lists.layers[i]) PROVE ScreenInv'
  <2> DEFINE b == lists.layers[i]
             x == chords(edit, b)
  <2>1. /\ layer' = b /\ edit' = edit /\ chordMode' = chordMode /\ globalForm' = FALSE
        /\ IF chordMode THEN lists' = [lists EXCEPT !.chords = x] ELSE lists' = lists
    BY <1>2 DEF PickEditLayer, vars
  <2>2. b \in Defined(edit)
    BY DEF ScreenInv, ToSet
  <2> HIDE DEF x
  <2>3. /\ lists'.layers = lists.layers /\ lists'.warnings = lists.warnings
        /\ chordMode => lists'.chords = x
    <3> DEFINE c == [lists EXCEPT !.chords = x]
    <3>1. c.layers = lists.layers /\ c.chords = x /\ c.warnings = lists.warnings
      BY <1>0, ListsReplaced
    <3>2. lists' = IF chordMode THEN c ELSE lists
      BY <2>1
    <3> HIDE DEF c
    <3> QED BY <3>1, <3>2
  <2>4. chordMode' => lists'.chords = chords(edit', layer')
    BY <2>1, <2>3 DEF x
  <2> HIDE DEF b
  <2>5. /\ ToSet(lists'.layers) \subseteq Defined(edit')
        /\ lists'.warnings = orphan_warnings(edit') /\ Sound(edit')
    BY <2>1, <2>3 DEF ScreenInv
  <2>6. layer' = Main /\ Main \notin Defined(edit') => Defined(edit') = {}
    BY <2>1, <2>2
  <2> QED BY <2>1, <2>4, <2>5, <2>6 DEF ScreenInv
<1>3. ASSUME SetBoardMode PROVE ScreenInv'
  <2> DEFINE x == chords(edit, layer)
  <2>1. /\ layer' = layer /\ edit' = edit /\ ~globalForm /\ globalForm' = globalForm
        /\ chordMode' = ~chordMode
        /\ lists' = IF chordMode THEN lists ELSE [lists EXCEPT !.chords = x]
    BY <1>3 DEF SetBoardMode, vars
  <2> HIDE DEF x
  <2>2. /\ lists'.layers = lists.layers /\ lists'.warnings = lists.warnings
        /\ chordMode' => lists'.chords = x
    <3> DEFINE c == [lists EXCEPT !.chords = x]
    <3>1. c.layers = lists.layers /\ c.chords = x /\ c.warnings = lists.warnings
      BY <1>0, ListsReplaced
    <3>2. lists' = (IF chordMode THEN lists ELSE c) /\ chordMode' = ~chordMode
      BY <2>1
    <3> HIDE DEF c
    <3> QED BY <3>1, <3>2
  <2>3. chordMode' => lists'.chords = chords(edit', layer')
    BY <2>1, <2>2 DEF x
  <2>4. /\ ToSet(lists'.layers) \subseteq Defined(edit')
        /\ lists'.warnings = orphan_warnings(edit') /\ Sound(edit')
        /\ layer' = Main /\ Main \notin Defined(edit') => Defined(edit') = {}
    BY <2>1, <2>2 DEF ScreenInv
  <2> QED BY <2>1, <2>3, <2>4 DEF ScreenInv
<1>4. ASSUME EditGlobal PROVE ScreenInv'
  <2> DEFINE x == global_entries(edit)
  <2>1. /\ layer' = layer /\ edit' = edit /\ globalForm' = ~globalForm /\ chordMode' = chordMode
        /\ IF globalForm THEN lists' = lists ELSE lists' = [lists EXCEPT !.globals = x]
    BY <1>4 DEF EditGlobal, vars
  <2> HIDE DEF x
  <2>2. /\ lists'.layers = lists.layers /\ lists'.warnings = lists.warnings
        /\ lists'.chords = lists.chords
        /\ globalForm' => lists'.globals = x
    <3> DEFINE g == [lists EXCEPT !.globals = x]
    <3>1. /\ g.layers = lists.layers /\ g.globals = x /\ g.warnings = lists.warnings
          /\ g.chords = lists.chords
      BY <1>0, ListsReplaced
    <3>2. lists' = (IF globalForm THEN lists ELSE g) /\ globalForm' = ~globalForm
      BY <2>1
    <3> HIDE DEF g
    <3> QED BY <3>1, <3>2
  <2>3. globalForm' => lists'.globals = global_entries(edit')
    BY <2>1, <2>2 DEF x
  <2>4. /\ ToSet(lists'.layers) \subseteq Defined(edit')
        /\ lists'.warnings = orphan_warnings(edit') /\ Sound(edit')
        /\ layer' = Main /\ Main \notin Defined(edit') => Defined(edit') = {}
        /\ chordMode' => lists'.chords = chords(edit', layer')
    BY <2>1, <2>2 DEF ScreenInv
  <2> QED BY <2>3, <2>4 DEF ScreenInv
<1> QED BY <1>1, <1>2, <1>3, <1>4 DEF FocusNext

\* Where the focus moves to a board of the new document, or to none.
LEMMA RefocusShows ==
  ASSUME ScreenInv, FocusInv', NEW b, Refocus(b), Sound(edit'),
         b # <<>> => b \in Defined(edit'),
         global_entries(edit') = global_entries(edit)
  PROVE  ScreenInv'
<1> DEFINE l == Lists(edit', b)
           g == lists.globals
<1>1. layer' = b /\ lists' = [l EXCEPT !.globals = g] /\ chordMode' = chordMode /\ globalForm' = globalForm
  BY DEF Refocus, mode
<1>2. /\ IsLists(l) /\ l.layers = editable_sections(edit') /\ l.chords = chords(edit', b)
      /\ l.warnings = orphan_warnings(edit')
  BY ListsAre
<1> HIDE DEF l, g
<1>3. /\ lists'.layers = l.layers /\ lists'.chords = l.chords /\ lists'.globals = g
      /\ lists'.warnings = l.warnings
  BY <1>1, <1>2, ListsReplaced
<1>4. ToSet(lists'.layers) = Defined(edit')
  BY <1>2, <1>3, EditableAre DEF Sound, IsDocument
<1>5. layer' = Main /\ Main \notin Defined(edit') => Defined(edit') = {}
  BY <1>1 DEF Main
<1>6. globalForm' => lists'.globals = global_entries(edit')
  BY <1>1, <1>3 DEF g, ScreenInv
<1>7. chordMode' => lists'.chords = chords(edit', layer')
  BY <1>1, <1>2, <1>3
<1> QED BY <1>2, <1>3, <1>4, <1>5, <1>6, <1>7 DEF ScreenInv

LEMMA LayersShow ==
  ASSUME ScreenInv, FocusInv', LayerNext
  PROVE  ScreenInv'
<1>0. Sound(edit) /\ IsDoc(edit)
  BY DEF ScreenInv, FocusInv
<1>1. ASSUME NEW n \in NewNames, CreateLayer(n) PROVE ScreenInv'
  <2> DEFINE e == add_layer(edit, n)
  <2>1. edit' = e /\ n \notin Reserved /\ Refocus(<<n>>)
    BY <1>1 DEF CreateLayer, AddLayer, Mutates, CanAdd
  <2> DEFINE p == PlainName(<<n>>)
             k == section_kind(p)
  <2>2. Adds(edit, e, p, k) /\ is_board(k) /\ p.parts = <<n>>
    BY <1>0, <2>1, AddHeads, LayerKind, PlainIsName
  <2>3. Sound(e) /\ global_entries(e) = global_entries(edit)
    BY <1>0, LayerSound
  <2> HIDE DEF e, p, k
  <2>4. <<n>> \in Defined(e)
    BY <1>0, <2>2, DefinedAdds
  <2> QED BY <2>1, <2>3, <2>4, RefocusShows
<1>2. ASSUME NEW n \in NewNames, Rename(n) PROVE ScreenInv'
  <2> DEFINE o == layer[1]
             e == rename_layer(edit, o, n)
  <2>1. edit' = e /\ CanRename(edit, o, n) /\ Refocus(<<n>>)
    BY <1>2 DEF Rename, RenameLayer, Mutates
  <2> HIDE DEF o
  <2>2. Sound(e) /\ global_entries(e) = global_entries(edit)
    BY <1>0, <2>1, LayerSound
  <2>3. <<n>> \in Defined(e)
    BY <1>0, <2>1, RenameHeads
  <2> HIDE DEF e
  <2> QED BY <2>1, <2>2, <2>3, RefocusShows
<1>3. ASSUME AskDelete \/ CancelDelete PROVE ScreenInv'
  <2>1. UNCHANGED <<edit, layer, mode, lists>>
    BY <1>3 DEF AskDelete, CancelDelete, vars
  <2> QED BY <2>1, StillScreen
<1>4. ASSUME ConfirmDelete PROVE ScreenInv'
  <2> DEFINE p == prompt.name
             e == remove_layer(edit, p)
             b == First(edit')
  <2>1. edit' = e /\ Refocus(b)
    BY <1>4 DEF ConfirmDelete, RemoveLayer, Mutates
  <2> HIDE DEF p
  <2>2. Sound(e) /\ global_entries(e) = global_entries(edit)
    BY <1>0, LayerSound
  <2> HIDE DEF e
  <2>3. b # <<>> => b \in Defined(edit')
    BY <2>1, <2>2, EditableAre DEF Sound, IsDocument
  <2> HIDE DEF b
  <2> QED BY <2>1, <2>2, <2>3, RefocusShows
<1> QED BY <1>1, <1>2, <1>3, <1>4 DEF LayerNext

\* Every write of a key's value or of a chord leaves a document.
LEMMA WritesSound ==
  ASSUME Sound(edit)
  PROVE  /\ \A b, c, v : SetBinding(b, c, v) => Sound(edit')
         /\ \A b, c : ClearBinding(b, c) => Sound(edit')
         /\ \A b, k, kind, n : SetLayerAction(b, k, kind, n) => Sound(edit')
         /\ \A b, k, n, tap, f : SetTapHold(b, k, n, tap, f) => Sound(edit')
         /\ \A b, k, v : SetMacro(b, k, v) => Sound(edit')
         /\ \A b, c : RemoveChord(b, c) => Sound(edit')
         /\ \A v : AddChord(v) => Sound(edit')
<1>1. ASSUME NEW b, NEW c, NEW v, SetBinding(b, c, v) PROVE Sound(edit')
  BY <1>1, BindingSound DEF SetBinding, Mutates
<1>2. ASSUME NEW b, NEW c, ClearBinding(b, c) PROVE Sound(edit')
  BY <1>2, BindingSound DEF ClearBinding, Mutates
<1>3. ASSUME NEW b, NEW k, NEW kind, NEW n, SetLayerAction(b, k, kind, n) PROVE Sound(edit')
  BY <1>3, BindingSound DEF SetLayerAction, Mutates
<1>4. ASSUME NEW b, NEW k, NEW n, NEW tap, NEW f, SetTapHold(b, k, n, tap, f) PROVE Sound(edit')
  <2> DEFINE v == TapHoldValue(ComposeTapHold(current_tap_hold(edit, b, k), n, tap, f))
  <2>1. edit' = set_layer_binding(edit, b, <<k>>, v)
    BY <1>4 DEF SetTapHold, Mutates
  <2> HIDE DEF v
  <2> QED BY <2>1, BindingSound
<1>5. ASSUME NEW b, NEW k, NEW v, SetMacro(b, k, v) PROVE Sound(edit')
  BY <1>5, BindingSound DEF SetMacro, Mutates
<1>6. ASSUME NEW b, NEW c, RemoveChord(b, c) PROVE Sound(edit')
  BY <1>6, ChordSound DEF RemoveChord, Mutates
<1>7. ASSUME NEW v, AddChord(v) PROVE Sound(edit')
  <2> DEFINE set == set_layer_chord(edit, layer, picks, v)
  <2>1. edit' = set \/ edit' = remove_chord(set, layer, orig)
    BY <1>7 DEF AddChord, Mutates
  <2>2. Sound(set)
    BY ChordSound
  <2> HIDE DEF set
  <2> QED BY <2>1, <2>2, ChordSound
<1> QED BY <1>1, <1>2, <1>3, <1>4, <1>5, <1>6, <1>7

\* A key's value is written with the board on screen: the warnings are retold.
LEMMA ValueShows ==
  ASSUME ScreenInv, FocusInv', KeyForm, Warn, UNCHANGED <<layer, mode>>, Sound(edit'), Grows(edit, edit')
  PROVE  ScreenInv'
<1> DEFINE w == orphan_warnings(edit')
<1>1. IsLists(lists) /\ lists' = [lists EXCEPT !.warnings = w]
  BY DEF Warn, ScreenInv, FocusInv
<1> HIDE DEF w
<1>2. lists'.layers = lists.layers /\ lists'.warnings = w
  BY <1>1, ListsReplaced
<1>3. ~chordMode /\ ~globalForm
  BY DEF KeyForm
<1> QED BY <1>2, <1>3, KeptScreen DEF w

\* Keys, chords and options.
LEMMA KeysShow ==
  ASSUME ScreenInv, FocusInv', KeyNext
  PROVE  ScreenInv'
<1>0. Sound(edit) /\ IsDoc(edit)
  BY DEF ScreenInv, FocusInv
<1>1. ASSUME KeyForm, NEW v, Reseeded(v), Sound(edit'), Grows(edit, edit') PROVE ScreenInv'
  BY <1>1, ValueShows DEF Reseeded, Rest
<1>2. ASSUME KeyForm, Relabelled, Sound(edit'), Grows(edit, edit'),
             orphan_warnings(edit') = orphan_warnings(edit)
      PROVE  ScreenInv'
  <2>1. UNCHANGED <<layer, mode, lists>> /\ ~chordMode /\ ~globalForm
    BY <1>2 DEF Relabelled, Rest, KeyForm
  <2>2. lists'.layers = lists.layers /\ lists'.warnings = orphan_warnings(edit')
    BY <1>2, <2>1 DEF ScreenInv
  <2> QED BY <1>2, <2>1, <2>2, KeptScreen
<1>3. ASSUME UNCHANGED <<vars, layer, mode, lists>> PROVE ScreenInv'
  BY <1>3, StillScreen DEF vars
<1>4. ASSUME NEW v \in Values, ApplyBinding(v) PROVE ScreenInv'
  BY <1>0, <1>1, <1>4, KeyEditsGrow, WritesSound DEF ApplyBinding
<1>5. ASSUME MakeTransparent PROVE ScreenInv'
  BY <1>0, <1>1, <1>5, KeyEditsGrow, WritesSound DEF MakeTransparent
<1>6. ASSUME NEW n \in HoldTargets, NEW tap \in Taps, NEW f \in Feels, ApplyTapHold(n, tap, f)
      PROVE  ScreenInv'
  BY <1>0, <1>1, <1>6, KeyEditsGrow, WritesSound DEF ApplyTapHold, ReadBack
<1>7. ASSUME NEW kind \in Kinds, NEW n \in Targets, ApplyLayerAction(kind, n) PROVE ScreenInv'
  BY <1>0, <1>1, <1>7, KeyEditsGrow, WritesSound DEF ApplyLayerAction, ReadBack
<1>8. ASSUME NEW t \in LabelTexts, LabelKey(t) PROVE ScreenInv'
  <2> DEFINE c == <<phys>>
  <2>1. /\ KeyForm /\ Relabelled /\ HasBoard(edit, layer) /\ Grows(edit, edit')
        /\ edit' = set_label(edit, layer, c, t)
    BY <1>0, <1>8, KeyEditsGrow DEF LabelKey, SetLabel, Mutates
  <2> HIDE DEF c
  <2>2. Boards(edit, layer) # {} \/ (layer = Main /\ (Main \notin Defined(edit) => Defined(edit) = {}))
    BY <2>1 DEF HasBoard, ScreenInv
  <2>3. Sound(edit') /\ orphan_warnings(edit') = orphan_warnings(edit)
    BY <1>0, <2>1, <2>2, LabelSound
  <2> QED BY <1>2, <2>1, <2>3
<1>9. ASSUME UnlabelKey PROVE ScreenInv'
  <2> DEFINE c == <<phys>>
  <2>1. /\ KeyForm /\ Relabelled /\ Grows(edit, edit')
        /\ edit' = clear_label(edit, layer, c)
    BY <1>0, <1>9, KeyEditsGrow DEF UnlabelKey, ClearLabel, Mutates
  <2> HIDE DEF c
  <2>2. Sound(edit') /\ orphan_warnings(edit') = orphan_warnings(edit)
    BY <1>0, <2>1, LabelSound
  <2> QED BY <1>2, <2>1, <2>2
<1>10. ASSUME NEW t \in StepsTyped, MacroAdd(t) PROVE ScreenInv'
  BY <1>3, <1>10 DEF MacroAdd
<1>11. ASSUME NEW i \in DOMAIN draft, MacroRemove(i) \/ MacroMove(i) PROVE ScreenInv'
  BY <1>3, <1>11 DEF MacroRemove, MacroMove
<1>12. ASSUME NEW r \in Repeats, ApplyMacro(r) PROVE ScreenInv'
  <2>1. Grows(edit, edit') /\ Sound(edit') /\ KeyForm /\ Warn /\ UNCHANGED <<layer, mode>>
    BY <1>0, <1>12, KeyEditsGrow, WritesSound DEF ApplyMacro, Rest
  <2> QED BY <2>1, ValueShows
<1> QED BY <1>4, <1>5, <1>6, <1>7, <1>8, <1>9, <1>10, <1>11, <1>12 DEF KeyNext

LEMMA ChordsShow ==
  ASSUME ScreenInv, FocusInv', ChordNext
  PROVE  ScreenInv'
<1>0. Sound(edit) /\ IsDoc(edit) /\ IsLists(lists)
  BY DEF ScreenInv, FocusInv
<1>1. ASSUME NEW c, Build(c) PROVE ScreenInv'
  BY <1>1, StillScreen DEF Build, vars
<1>2. ASSUME ChordForm, ChordsCommitted, Sound(edit'), Grows(edit, edit') PROVE ScreenInv'
  <2> DEFINE x == chords(edit', layer)
             y == orphan_warnings(edit')
  <2>1. lists' = [lists EXCEPT !.chords = x, !.warnings = y] /\ UNCHANGED <<layer, mode>>
    BY <1>2 DEF ChordsCommitted
  <2> HIDE DEF x, y
  <2>2. lists'.layers = lists.layers /\ lists'.chords = x /\ lists'.warnings = y
    BY <1>0, <2>1, ListsReplaced
  <2>3. ~globalForm
    BY <1>2 DEF ChordForm
  <2> QED BY <1>2, <2>1, <2>2, <2>3, KeptScreen DEF x, y
<1>3. ASSUME OptionCommitted, Grows(edit, edit'), NEW c, NEW v,
             edit' \in {set_global_option(edit, c, v), clear_global(edit, c)}
      PROVE  ScreenInv'
  <2> DEFINE x == global_entries(edit')
  <2>1. lists' = [lists EXCEPT !.globals = x] /\ UNCHANGED <<layer, mode>>
    BY <1>3 DEF OptionCommitted
  <2> HIDE DEF x
  <2>2. /\ lists'.layers = lists.layers /\ lists'.chords = lists.chords /\ lists'.globals = x
        /\ lists'.warnings = lists.warnings
    BY <1>0, <2>1, ListsReplaced
  <2>3. /\ Sound(edit') /\ orphan_warnings(edit') = orphan_warnings(edit)
        /\ chords(edit', layer) = chords(edit, layer)
    BY <1>0, <1>3, OptionSound
  <2>4. /\ lists'.warnings = orphan_warnings(edit')
        /\ chordMode => lists'.chords = chords(edit', layer)
    BY <2>2, <2>3 DEF ScreenInv
  <2> QED BY <1>3, <2>1, <2>2, <2>3, <2>4, KeptScreen DEF x
<1>4. ASSUME NEW k \in Members, ToggleMember(k) PROVE ScreenInv'
  BY <1>1, <1>4 DEF ToggleMember
<1>5. ASSUME NEW i \in DOMAIN lists.chords, EditChord(lists.chords[i]) PROVE ScreenInv'
  BY <1>1, <1>5 DEF EditChord
<1>6. ASSUME NEW i \in DOMAIN lists.chords, RemoveChordRow(lists.chords[i]) PROVE ScreenInv'
  BY <1>0, <1>2, <1>6, KeyEditsGrow, WritesSound DEF RemoveChordRow
<1>7. ASSUME ClearKeys PROVE ScreenInv'
  BY <1>1, <1>7 DEF ClearKeys
<1>8. ASSUME NEW v \in Values, AddChord(v) PROVE ScreenInv'
  <2>1. ChordForm /\ ChordsCommitted
    BY <1>8 DEF AddChord
  <2> QED BY <1>0, <1>2, <1>8, <2>1, AddChordGrows, WritesSound
<1>9. ASSUME NEW o \in Options, NEW v \in Values, SetOption(o, v) PROVE ScreenInv'
  <2>1. OptionCommitted /\ Grows(edit, edit') /\ edit' = set_global_option(edit, <<o>>, v)
    BY <1>0, <1>9, KeyEditsGrow DEF SetOption, SetGlobal, Mutates
  <2> QED BY <1>3, <2>1
<1>10. ASSUME NEW o \in Options, ClearOption(o) PROVE ScreenInv'
  <2>1. OptionCommitted /\ Grows(edit, edit') /\ edit' = clear_global(edit, <<o>>)
    BY <1>0, <1>10, KeyEditsGrow DEF ClearOption, ClearGlobal, Mutates
  <2> QED BY <1>3, <2>1
<1> QED BY <1>4, <1>5, <1>6, <1>7, <1>8, <1>9, <1>10 DEF ChordNext

\* A callback of the panel, or none, and what edit mode opens on.
LEMMA ScreenStep ==
  ASSUME ScreenInv, [EditNext]_<<vars, panel>>
  PROVE  ScreenInv'
<1>1. FocusInv'
  BY FocusStep DEF ScreenInv
<1>2. CASE EditNext
  BY <1>1, <1>2, SelectingShows, LayersShow, KeysShow, ChordsShow DEF EditNext
<1>3. CASE UNCHANGED <<vars, panel>>
  BY <1>1, <1>3, StillScreen DEF vars, panel
<1> QED BY <1>2, <1>3

LEMMA ScreenInit == EnterInit => ScreenInv
<1> SUFFICES ASSUME EnterInit PROVE ScreenInv
  OBVIOUS
<1>1. FocusInv
  BY FocusInit
<1>2. Sound(edit)
  <2>1. \E f : IsFile(f) /\ edit = parse(f)
    BY StarterIsFile, SessionAssumption DEF EnterInit, Init
  <2> QED BY <2>1, ParseLeaves DEF Sound
<1>3. /\ ToSet(editable_sections(edit)) = Defined(edit)
      /\ First(edit) = <<>> \/ First(edit) \in Defined(edit)
  BY <1>1, EditableAre DEF FocusInv
<1>4. /\ layer = (IF First(edit) = <<>> THEN Main ELSE First(edit))
      /\ lists = Lists(edit, layer)
  BY DEF EnterInit
<1>5. /\ lists.layers = editable_sections(edit) /\ lists.chords = chords(edit, layer)
      /\ lists.globals = global_entries(edit) /\ lists.warnings = orphan_warnings(edit)
  BY <1>4, ListsAre
<1>6. <<>> \notin Defined(edit)
  BY <1>2 DEF Sound, Fits, FitsName, Defined
<1>7. First(edit) = <<>> => Defined(edit) = {}
  <2>1. First(edit) \in ToSet(editable_sections(edit)) \/ editable_sections(edit) = <<>>
    <3>1. editable_sections(edit) \in Seq(Defined(edit))
      BY <1>1, EditableAre DEF FocusInv
    <3> QED BY <3>1 DEF First, ToSet
  <2>2. ToSet(<<>>) = {}
    BY DEF ToSet
  <2> QED BY <1>3, <1>6, <2>1, <2>2
<1> QED BY <1>1, <1>2, <1>3, <1>4, <1>5, <1>7 DEF ScreenInv

\* Whatever is done in whatever order, the lists, the board and the unsaved flag on screen are
\* those of the document, though each callback of main.rs refreshes only what its author thought
\* it could change.
THEOREM ScreenHolds == PanelSpec => []ScreenFollows
<1>1. ScreenInv => ScreenFollows
  <2> SUFFICES ASSUME ScreenInv PROVE ScreenFollows
    OBVIOUS
  <2>1. ToSet(editable_sections(edit)) = Defined(edit)
    BY EditableAre DEF ScreenInv, FocusInv
  <2> QED BY <2>1 DEF ScreenInv, FocusInv, ScreenFollows
<1> QED BY <1>1, ScreenInit, ScreenStep, PTL DEF PanelSpec

-----------------------------------------------------------------------------
(* What the forms show: the value of a key.                                *)

\* a is the last that is selected from s, where one is.
LastIs(s, S, a) ==
  \/ a = <<>> /\ \A i \in 1 .. Len(s) : s[i] \notin S
  \/ \E i \in 1 .. Len(s) : /\ s[i] \in S /\ \A j \in 1 .. Len(s) : j > i => s[j] \notin S
                            /\ a # <<>> /\ a[Len(a)] = s[i]

\* What is selected is empty, or ends with the last that is.
LEMMA LastAmong ==
  ASSUME NEW L, NEW S, NEW s \in Seq(L)
  PROVE  LastIs(s, S, Among(s, S))
<1> DEFINE T == {u \in Seq(L) : LastIs(u, S, Among(u, S))}
<1>1. <<>> \in T
  <2> DEFINE z == <<>>
  <2>1. z \in Seq(L) /\ Len(z) = 0 /\ z = <<>>
    OBVIOUS
  <2>2. Among(z, S) = z
    BY AmongEmpty
  <2> HIDE DEF z
  <2>3. LastIs(z, S, z)
    BY <2>1 DEF LastIs
  <2> QED BY <2>1, <2>2, <2>3 DEF z
<1>2. ASSUME NEW u \in Seq(L), NEW x \in L, u \in T PROVE Append(u, x) \in T
  <2> DEFINE v == Append(u, x)
             w == Among(u, S)
             a == Among(v, S)
  <2>1. /\ v \in Seq(L) /\ Len(v) = Len(u) + 1 /\ Len(u) \in Nat /\ v[Len(u) + 1] = x
        /\ \A i \in 1 .. Len(u) : v[i] = u[i]
    OBVIOUS
  <2>2. w \in Seq(L) /\ a = IF x \in S THEN Append(w, x) ELSE w
    BY AmongIs, AmongAppend
  <2>3. LastIs(u, S, w)
    BY <1>2
  <2> HIDE DEF v, w, a
  <2>4. ASSUME x \in S PROVE LastIs(v, S, a)
    <3>1. a = Append(w, x) /\ a # <<>> /\ a[Len(a)] = x
      BY <2>2, <2>4
    <3>2. Len(v) \in 1 .. Len(v) /\ v[Len(v)] = x /\ \A j \in 1 .. Len(v) : ~(j > Len(v))
      BY <2>1
    <3> QED BY <2>4, <3>1, <3>2 DEF LastIs
  <2>5. ASSUME x \notin S PROVE LastIs(v, S, a)
    <3>1. a = w
      BY <2>2, <2>5
    <3>2. \A j \in 1 .. Len(v) : j \in 1 .. Len(u) \/ v[j] \notin S
      BY <2>1, <2>5
    <3>3. 1 .. Len(u) \subseteq 1 .. Len(v)
      BY <2>1
    <3>4. ASSUME w = <<>>, \A i \in 1 .. Len(u) : u[i] \notin S PROVE LastIs(v, S, a)
      BY <2>1, <3>1, <3>2, <3>4 DEF LastIs
    <3>5. ASSUME NEW i \in 1 .. Len(u), u[i] \in S, \A j \in 1 .. Len(u) : j > i => u[j] \notin S,
                 w # <<>>, w[Len(w)] = u[i]
          PROVE  LastIs(v, S, a)
      <4>1. i \in 1 .. Len(v) /\ v[i] = u[i]
        BY <2>1, <3>3
      <4>2. \A j \in 1 .. Len(v) : j > i => v[j] \notin S
        BY <2>1, <3>2, <3>5
      <4> QED BY <3>1, <3>5, <4>1, <4>2 DEF LastIs
    <3> QED BY <2>3, <3>4, <3>5 DEF LastIs
  <2>6. LastIs(v, S, a)
    BY <2>4, <2>5
  <2> QED BY <2>1, <2>6 DEF v, a
<1>3. \A u \in Seq(L) : u \in T
  <2> HIDE DEF T
  <2> QED BY <1>1, <1>2, SeqInSet
<1> QED BY <1>3

\* The value a section gives a key is the last among its valued bindings of it.
LEMMA GetFrom ==
  ASSUME NEW s, IsEntries(s.ents), NEW c, NEW C,
         \A j \in DOMAIN s.ents : s.ents[j].text \in C <=> HasValue(s.ents[j], c)
  PROVE  get_binding(s, c) = LET v == Among(Texts(s.ents), C)
                             IN  IF v = <<>> THEN NoVal ELSE v[Len(v)].val
<1> DEFINE x == s.ents
           t == Texts(x)
           v == Among(t, C)
           I == {i \in 1 .. Len(x) : HasValue(x[i], c)}
           k == IF I # {} THEN Max(I) ELSE 0
<1>1. get_binding(s, c) = IF k = 0 THEN NoVal ELSE x[k].text.val
  BY DEF get_binding, SelectLastInSeq
<1>2. /\ IsList(t) /\ Len(t) = Len(x) /\ Len(x) \in Nat /\ DOMAIN x = 1 .. Len(x)
      /\ \A j \in 1 .. Len(x) : t[j] = x[j].text
  BY TextsList, ListLen DEF IsEntries, Texts
<1> HIDE DEF t
<1>3. LastIs(t, C, v)
  BY <1>2, LastAmong DEF IsList
<1>4. \A j \in 1 .. Len(t) : t[j] \in C <=> j \in I
  BY <1>2
<1>5. I \in SUBSET (1 .. Len(x))
  OBVIOUS
<1>6. I # {} => Max(I) \in I /\ \A j \in I : j <= Max(I)
  BY <1>2, <1>5, MaxIs
<1> HIDE DEF x, v, I
<1>7. CASE v = <<>> /\ \A i \in 1 .. Len(t) : t[i] \notin C
  <2>1. I = {}
    BY <1>2, <1>4, <1>5, <1>7
  <2>2. k = 0
    BY <2>1
  <2> QED BY <1>1, <1>7, <2>2 DEF v, t, x
<1>8. ASSUME NEW i \in 1 .. Len(t), t[i] \in C, \A j \in 1 .. Len(t) : j > i => t[j] \notin C,
             v # <<>>, v[Len(v)] = t[i]
      PROVE  get_binding(s, c) = IF v = <<>> THEN NoVal ELSE v[Len(v)].val
  <2>1. i \in I /\ \A j \in I : ~(j > i)
    BY <1>2, <1>4, <1>5, <1>8
  <2>2. Max(I) = i
    BY <1>2, <1>5, <1>6, <2>1
  <2>3. k = i /\ k # 0
    BY <1>8, <2>1, <2>2
  <2> QED BY <1>1, <1>2, <1>8, <2>3
<1> QED BY <1>3, <1>7, <1>8 DEF LastIs, v, t, x

\* An edit that leaves the values of a key on the boards.
ValuesOf(L, c) == {t \in L : t.k = "bind" /\ t.key = c /\ t.val # NoVal}

\* An edit that leaves the lines with values of a key leaves the value it shows.
LEMMA ValueStays ==
  ASSUME NEW d, IsDocument(d), NEW e, NEW c, Agrees(d, e, BoardKinds, ValuesOf(Both(d, e), c)), NEW b
  PROVE  current_binding(e, b, c) = current_binding(d, b, c)
<1> DEFINE C == ValuesOf(Both(d, e), c)
           n == Len(d.secs)
           m == Len(e.secs)
           Latest(s) == LET v == Among(Texts(s.ents), C) IN IF v = <<>> THEN NoVal ELSE v[Len(v)].val
           I == {i \in 1 .. n : feeds_board(d.secs[i], b) /\ get_binding(d.secs[i], c) # NoVal}
           J == {i \in 1 .. m : feeds_board(e.secs[i], b) /\ get_binding(e.secs[i], c) # NoVal}
           k == IF I # {} THEN Max(I) ELSE 0
           l == IF J # {} THEN Max(J) ELSE 0
<1>1. /\ n \in Nat /\ DOMAIN d.secs = 1 .. n /\ m \in Nat /\ DOMAIN e.secs = 1 .. m
      /\ m = n \/ m = n + 1
  BY DocDomain DEF IsDocument, Agrees
<1>2. /\ current_binding(d, b, c) = IF k = 0 THEN NoVal ELSE get_binding(d.secs[k], c)
      /\ current_binding(e, b, c) = IF l = 0 THEN NoVal ELSE get_binding(e.secs[l], c)
  BY DEF current_binding, LastSection, SelectLastInSeq
<1>3. \A i \in 1 .. n : get_binding(d.secs[i], c) = Latest(d.secs[i])
  <2> SUFFICES ASSUME NEW i \in 1 .. n PROVE get_binding(d.secs[i], c) = Latest(d.secs[i])
    OBVIOUS
  <2> DEFINE s == d.secs[i]
             X(y) == {d.secs[y].ents[j].text : j \in DOMAIN d.secs[y].ents}
  <2>1. IsEntries(s.ents)
    BY <1>1 DEF IsDocument
  <2>2. \A j \in DOMAIN s.ents : s.ents[j].text \in Both(d, e)
    <3>1. TextsOf(d) = UNION {X(y) : y \in DOMAIN d.secs}
      BY DEF TextsOf
    <3>2. \A j \in DOMAIN s.ents : s.ents[j].text \in X(i)
      OBVIOUS
    <3> HIDE DEF X
    <3> QED BY <1>1, <3>1, <3>2 DEF Both
  <2> HIDE DEF s
  <2>3. \A j \in DOMAIN s.ents : s.ents[j].text \in C <=> HasValue(s.ents[j], c)
    BY <2>2 DEF ValuesOf, HasValue, Binds
  <2> HIDE DEF C
  <2> QED BY <2>1, <2>3, GetFrom DEF s
<1>4. \A i \in 1 .. m : get_binding(e.secs[i], c) = Latest(e.secs[i])
  <2> SUFFICES ASSUME NEW i \in 1 .. m PROVE get_binding(e.secs[i], c) = Latest(e.secs[i])
    OBVIOUS
  <2> DEFINE s == e.secs[i]
             X(y) == {e.secs[y].ents[j].text : j \in DOMAIN e.secs[y].ents}
  <2>1. IsEntries(s.ents)
    BY <1>1 DEF IsDocument, Agrees
  <2>2. \A j \in DOMAIN s.ents : s.ents[j].text \in Both(d, e)
    <3>1. TextsOf(e) = UNION {X(y) : y \in DOMAIN e.secs}
      BY DEF TextsOf
    <3>2. \A j \in DOMAIN s.ents : s.ents[j].text \in X(i)
      OBVIOUS
    <3> HIDE DEF X
    <3> QED BY <1>1, <3>1, <3>2 DEF Both
  <2> HIDE DEF s
  <2>3. \A j \in DOMAIN s.ents : s.ents[j].text \in C <=> HasValue(s.ents[j], c)
    BY <2>2 DEF ValuesOf, HasValue, Binds
  <2> HIDE DEF C
  <2> QED BY <2>1, <2>3, GetFrom DEF s
<1>5. \A i \in 1 .. n : /\ feeds_board(e.secs[i], b) <=> feeds_board(d.secs[i], b)
                        /\ feeds_board(d.secs[i], b) =>
                             Among(Texts(e.secs[i].ents), C) = Among(Texts(d.secs[i].ents), C)
  BY <1>1 DEF Agrees, SameHead, feeds_board, is_board
<1>6. m = n + 1 /\ feeds_board(e.secs[m], b) => Among(Texts(e.secs[m].ents), C) = <<>>
  BY <1>1 DEF Agrees, feeds_board, is_board
<1> HIDE DEF C, m, n
<1>7. \A i \in 1 .. n : i \in 1 .. m /\ (feeds_board(d.secs[i], b)
                          => get_binding(e.secs[i], c) = get_binding(d.secs[i], c))
  BY <1>1, <1>3, <1>4, <1>5
<1>8. I = J
  <2>1. \A i \in 1 .. m : i \in 1 .. n \/ (m = n + 1 /\ i = m)
    BY <1>1
  <2>2. m = n + 1 => m \notin J
    BY <1>1, <1>4, <1>6
  <2>3. \A i \in 1 .. n : i \in I <=> i \in J
    BY <1>5, <1>7
  <2>4. \A i \in I : i \in J
    BY <2>3
  <2>5. \A i \in J : i \in I
    BY <2>1, <2>2, <2>3
  <2> QED BY <2>4, <2>5
<1>9. k = l /\ (k # 0 => k \in I)
  <2>1. I \in SUBSET (1 .. n)
    OBVIOUS
  <2>2. I # {} => Max(I) \in I
    BY <1>1, <2>1, MaxIs
  <2> HIDE DEF I, J
  <2> QED BY <1>8, <2>2
<1>10. k # 0 => get_binding(e.secs[k], c) = get_binding(d.secs[k], c)
  BY <1>7, <1>9
<1> HIDE DEF k, l
<1> QED BY <1>2, <1>9, <1>10

-----------------------------------------------------------------------------
(* What the forms show: the label of a key.                                *)

\* A new [main] is not among the layers.
LEMMA NamesStay ==
  ASSUME NEW d, IsDocument(d), NEW e, Gains(d, e, PlainName(Main), "main")
  PROVE  LayerNames(e) = LayerNames(d)
<1> DEFINE K == {"layer", "composite"}
           n == Len(d.secs)
           m == Len(e.secs)
           x == d.secs
           y == e.secs
<1>1. /\ n \in Nat /\ DOMAIN x = 1 .. n /\ IsList(x) /\ m \in Nat /\ DOMAIN y = 1 .. m /\ IsList(y)
      /\ IsDoc(d)
  BY DocDomain DEF IsDocument, IsDoc, Gains, SameHeads, Adds
<1>2. /\ m = n \/ (m = n + 1 /\ y[m].kind = "main")
      /\ \A i \in 1 .. n : y[i].name = x[i].name /\ y[i].kind = x[i].kind
  BY <1>1 DEF Gains, SameHeads, Adds, SameHead
<1>21. /\ x \in Seq({x[i] : i \in DOMAIN x}) /\ n = Len(x)
       /\ y \in Seq({y[i] : i \in DOMAIN y}) /\ m = Len(y)
  BY <1>1 DEF IsList
<1> HIDE DEF n, m, K, x, y
<1>3. PICK g : /\ g[0] = <<>>
               /\ \A k \in 1 .. n :
                    g[k] = IF x[k].kind \in K /\ ~Contains(g[k - 1], x[k].name.parts)
                           THEN Append(g[k - 1], x[k].name.parts) ELSE g[k - 1]
               /\ OnceNames(x, K) = g[n]
  BY <1>21, OnceSteps
<1>4. PICK h : /\ h[0] = <<>>
               /\ \A k \in 1 .. m :
                    h[k] = IF y[k].kind \in K /\ ~Contains(h[k - 1], y[k].name.parts)
                           THEN Append(h[k - 1], y[k].name.parts) ELSE h[k - 1]
               /\ OnceNames(y, K) = h[m]
  BY <1>21, OnceSteps
<1>5. g[n] = h[n]
  <2>1. \A k \in 1 .. n : g[k - 1] = h[k - 1] => g[k] = h[k]
    <3>1. \A k \in 1 .. n : k \in 1 .. m
      BY <1>1, <1>2
    <3> QED BY <1>2, <1>3, <1>4, <3>1
  <2>2. n \in Nat /\ g[0] = h[0]
    BY <1>1, <1>3, <1>4
  <2> QED BY <2>1, <2>2, StepsAgree
<1>6. h[m] = h[n]
  <2>1. CASE m = n
    BY <2>1
  <2>2. CASE m = n + 1 /\ y[m].kind = "main"
    <3>1. m \in 1 .. m /\ m - 1 = n /\ y[m].kind \notin K
      BY <1>1, <2>2 DEF K
    <3> QED BY <1>4, <3>1
  <2> QED BY <1>2, <2>1, <2>2
<1> QED BY <1>3, <1>4, <1>5, <1>6 DEF LayerNames, K, x, y

\* The labels a board shows, from the lines they are on.
KindSecs(d, k)  == {i \in DOMAIN d.secs : d.secs[i].kind = k}
LayerSecs(d, b) == {i \in DOMAIN d.secs : d.secs[i].kind \in {"layer", "composite"} /\ d.secs[i].name.parts = b}
LabelsOf(d, b)  ==
  section_labels(FlattenSeq(Rows(d, IF b = Main THEN KindSecs(d, "main") ELSE LayerSecs(d, b))))

\* What derive makes of a document's labels.
LEMMA DeriveIs ==
  ASSUME NEW d, NEW b
  PROVE  /\ derive(d).labels = section_labels(TextsIn(d, LAMBDA s : s.kind = "main"))
         /\ derive(d).layers = [i \in DOMAIN LayerNames(d) |-> DerivedLayer(d, LayerNames(d)[i])]
         /\ DerivedLayer(d, b).name = b
         /\ DerivedLayer(d, b).labels =
              section_labels(TextsIn(d, LAMBDA s : s.kind \in {"layer", "composite"} /\ s.name.parts = b))
<1>1. derive(d).labels = section_labels(TextsIn(d, LAMBDA s : s.kind = "main"))
  BY DEF derive
<1>2. derive(d).layers = [i \in DOMAIN LayerNames(d) |-> DerivedLayer(d, LayerNames(d)[i])]
  BY DEF derive
<1>3. /\ DerivedLayer(d, b).name = b
      /\ DerivedLayer(d, b).labels =
           section_labels(TextsIn(d, LAMBDA s : s.kind \in {"layer", "composite"} /\ s.name.parts = b))
  BY DEF DerivedLayer
<1> QED BY <1>1, <1>2, <1>3

\* The label shown is found among the board's labels.
LEMMA LabelsAre ==
  ASSUME NEW d, IsDocument(d), NEW b, NEW c
  PROVE  current_label(d, b, c) = IF b = Main \/ b \in ToSet(LayerNames(d))
                                  THEN label_for(LabelsOf(d, b), c) ELSE ""
<1> DEFINE names == LayerNames(d)
           n == Len(names)
           ls == derive(d).layers
           I == {j \in 1 .. Len(ls) : ls[j].name = b}
           i == IF I # {} THEN Min(I) ELSE 0
           Mine(p) == section_labels(TextsIn(d, LAMBDA s : s.kind \in {"layer", "composite"} /\ s.name.parts = p))
           main == section_labels(TextsIn(d, LAMBDA s : s.kind = "main"))
<1>1. main = section_labels(FlattenSeq(Rows(d, KindSecs(d, "main"))))
  <2>1. [j \in DOMAIN d.secs |->
          IF d.secs[j].kind = "main"
          THEN [k \in DOMAIN d.secs[j].ents |-> d.secs[j].ents[k].text] ELSE <<>>]
        = Rows(d, KindSecs(d, "main"))
    BY DEF Rows, KindSecs, Texts
  <2> QED BY <2>1 DEF TextsIn
<1>2. Mine(b) = section_labels(FlattenSeq(Rows(d, LayerSecs(d, b))))
  <2>1. [j \in DOMAIN d.secs |->
          IF d.secs[j].kind \in {"layer", "composite"} /\ d.secs[j].name.parts = b
          THEN [k \in DOMAIN d.secs[j].ents |-> d.secs[j].ents[k].text] ELSE <<>>]
        = Rows(d, LayerSecs(d, b))
    BY DEF Rows, LayerSecs, Texts
  <2> QED BY <2>1 DEF TextsIn
<1>3. current_label(d, b, c) = IF b = Main THEN label_for(derive(d).labels, c)
                               ELSE IF i = 0 THEN "" ELSE label_for(ls[i].labels, c)
  BY DEF current_label, cfg_layer, SelectInSeq
<1>4. derive(d).labels = main
  BY DeriveIs
<1>5. ls = [j \in DOMAIN names |-> DerivedLayer(d, names[j])]
  BY DeriveIs
<1>6. \A p : DerivedLayer(d, p).name = p /\ DerivedLayer(d, p).labels = Mine(p)
  BY DEF DerivedLayer
<1>7. IsList(names) /\ n \in Nat /\ DOMAIN names = 1 .. n /\ ToSet(names) = {names[j] : j \in 1 .. n}
  <2>1. IsList(names)
    <3>1. IsList(d.secs)
      BY DEF IsDocument, IsDoc
    <3> QED BY <3>1, OnceNamesIs, ListOfSeq DEF LayerNames
  <2> HIDE DEF names
  <2> QED BY <2>1, ListLen DEF ToSet
<1> HIDE DEF names, n, ls, Mine, main
<1>8. DOMAIN ls = DOMAIN names /\ ls = [j \in DOMAIN names |-> ls[j]]
  BY <1>5
<1>9. Len(ls) = n
  BY <1>7, <1>8, ListMap DEF n
<1>10. \A j \in 1 .. n : ls[j].name = names[j] /\ ls[j].labels = Mine(names[j])
  BY <1>5, <1>6, <1>7
<1>11. I \in SUBSET Nat /\ (I # {} <=> b \in ToSet(names))
  BY <1>7, <1>9, <1>10
<1>12. I # {} => Min(I) \in I
  BY <1>11, MinIs
<1>13. b \in ToSet(names) => i # 0 /\ ls[i].labels = Mine(b)
  BY <1>7, <1>9, <1>10, <1>11, <1>12
<1>14. b \notin ToSet(names) => i = 0
  BY <1>11
<1> HIDE DEF i
<1>15. current_label(d, b, c) = IF b = Main THEN label_for(main, c)
                                ELSE IF b \in ToSet(names) THEN label_for(Mine(b), c) ELSE ""
  BY <1>3, <1>4, <1>13, <1>14
<1> QED BY <1>1, <1>2, <1>15 DEF LabelsOf, names

\* An edit that leaves the labels of the boards leaves what a key shows.
LEMMA LabelStays ==
  ASSUME NEW d, IsDocument(d), NEW e, Agrees(d, e, BoardKinds, Labelled(Both(d, e))),
         Gains(d, e, PlainName(Main), "main"), NEW b, NEW c
  PROVE  current_label(e, b, c) = current_label(d, b, c)
<1> DEFINE P == IF b = Main THEN KindSecs(d, "main") ELSE LayerSecs(d, b)
           Q == IF b = Main THEN KindSecs(e, "main") ELSE LayerSecs(e, b)
<1>1. IsDocument(e) /\ \A i \in DOMAIN d.secs : SameHead(d.secs[i], e.secs[i])
  BY DEF Agrees
<1>2. DOMAIN d.secs \subseteq DOMAIN e.secs
  BY DocDomain DEF Agrees, IsDocument
<1>3. \A i \in DOMAIN d.secs : i \in P <=> i \in Q
  BY <1>1, <1>2 DEF KindSecs, LayerSecs, SameHead
<1>4. \A i \in DOMAIN e.secs : i \in Q => e.secs[i].kind \in BoardKinds
  BY DEF KindSecs, LayerSecs, BoardKinds
<1> HIDE DEF P, Q
<1>5. section_labels(FlattenSeq(Rows(d, P))) = section_labels(FlattenSeq(Rows(e, Q)))
  BY <1>1, <1>3, <1>4, SelectAgree
<1>6. LabelsOf(e, b) = LabelsOf(d, b)
  BY <1>5 DEF LabelsOf, P, Q
<1>7. LayerNames(e) = LayerNames(d)
  BY NamesStay
<1> QED BY <1>1, <1>6, <1>7, LabelsAre

\* Each of the two, under the edits of the other.
LEMMA LabelKeepsValue ==
  ASSUME NEW d, IsDocument(d), NEW x, NEW y, NEW t
  PROVE  \A e \in {set_label(d, x, y, t), clear_label(d, x, y)} :
           \A b, c : current_binding(e, b, c) = current_binding(d, b, c)
<1> TAKE e \in {set_label(d, x, y, t), clear_label(d, x, y)}
<1> SUFFICES ASSUME NEW b, NEW c PROVE current_binding(e, b, c) = current_binding(d, b, c)
  OBVIOUS
<1> DEFINE B == ValuesOf(Both(d, e), c)
<1>1. No("label", B) /\ No("blank", B)
  BY DEF No, ValuesOf
<1> HIDE DEF B
<1>2. Agrees(d, e, BoardKinds, B)
  BY <1>1, LabelAgrees, ClearAgrees
<1> QED BY <1>2, ValueStays DEF B

LEMMA ValueKeepsLabel ==
  ASSUME NEW d, IsDocument(d), NEW x, NEW y, NEW v
  PROVE  \A e \in {set_layer_binding(d, x, y, v), clear_binding(d, x, y)} :
           \A b, c : current_label(e, b, c) = current_label(d, b, c)
<1> TAKE e \in {set_layer_binding(d, x, y, v), clear_binding(d, x, y)}
<1> SUFFICES ASSUME NEW b, NEW c PROVE current_label(e, b, c) = current_label(d, b, c)
  OBVIOUS
<1>1. Agrees(d, e, BoardKinds, Labelled(Both(d, e)))
  BY BindingAgrees, ClearAgrees, NoneOf
<1>2. Gains(d, e, PlainName(Main), "main")
  BY BindingHeads, OnBoardKeeps DEF IsDocument, Gains
<1> QED BY <1>1, <1>2, LabelStays

=============================================================================
