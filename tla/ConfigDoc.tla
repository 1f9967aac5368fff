----------------------------- MODULE ConfigDoc -----------------------------
(***************************************************************************)
(* The line-faithful document of core/src/edit: a config as its lines, in  *)
(* sections, with each line's terminator, and the operations the editor    *)
(* applies to it.  Pure operators; EditSession gives them their state.     *)
(*                                                                         *)
(* A line's text is a record by what parse understands of it.  A key is    *)
(* the sequence of its `+'-joined parts, a value the tree of its function  *)
(* call; a section name has its `+'-joined parts, its qualifier and        *)
(* whether a blank precedes it inside the brackets.  raw and kind of an    *)
(* Entry are one here: every operation rewrites both together.             *)
(***************************************************************************)
EXTENDS Integers, Lists

\* Values: name(args) or a bare word; a line without `=' has no value.
Atom(n)    == [fn |-> "", name |-> n, args |-> <<>>]
Call(f, a) == [fn |-> f, name |-> "", args |-> a]
NoVal      == [fn |-> "valueless", name |-> "", args |-> <<>>]

\* Texts of lines.
BlankText       == [k |-> "blank"]
Prose(t)        == [k |-> "prose", text |-> t]
LabelText(c, t) == [k |-> "label", key |-> c, text |-> t]
BindText(c, v)  == [k |-> "bind", key |-> c, val |-> v]
HeadText(n)     == [k |-> "head", name |-> n]

\* The lines a file is made of.  A name split at `+' has a part, if an empty one.
IsName(n) == n = [parts |-> n.parts, qual |-> n.qual, pad |-> n.pad]
IsText(t) ==
  /\ t.k \in {"blank", "prose", "label", "bind", "head"}
  /\ t.k = "blank" => t = BlankText
  /\ t.k = "prose" => t = Prose(t.text)
  /\ t.k = "label" => t = LabelText(t.key, t.text)
  /\ t.k = "bind"  => t = BindText(t.key, t.val)
  /\ t.k = "head"  => /\ t = HeadText(t.name) /\ IsName(t.name)
                      /\ t.name.parts \in Seq(ToSet(t.name.parts)) /\ t.name.parts # <<>>
IsFile(bytes) ==
  /\ bytes \in Seq(ToSet(bytes))
  /\ \A l \in ToSet(bytes) : l = [text |-> l.text, eol |-> l.eol] /\ IsText(l.text)

PlainName(parts)   == [parts |-> parts, qual |-> "", pad |-> FALSE]
Line(text, eol)    == [text |-> text, eol |-> eol]
Entry(text, eol)   == [text |-> text, eol |-> eol, dirty |-> FALSE]

Main    == <<"main">>
Mods    == {"control", "shift", "alt", "meta", "altgr"}
TapHoldFns == {"lettermod", "overload", "overloadt", "overloadt2"}
LayerFns   == {"layer", "oneshot", "toggle", "swap", "layerm", "oneshotm",
               "oneshotk", "swapm", "togglem"}

-----------------------------------------------------------------------------
(* Sections                                                                *)

section_kind(n) ==
  CASE n = PlainName(<<"ids">>)            -> "ids"
    [] n = PlainName(<<"global">>)         -> "global"
    [] n = PlainName(<<"aliases">>)        -> "aliases"
    [] n.parts = Main /\ ~n.pad            -> "main"
    [] Len(n.parts) > 1                    -> "composite"
    [] OTHER                               -> "layer"

BoardKinds      == {"main", "layer", "composite"}
is_board(kind)  == kind \in BoardKinds
feeds_board(s, b) == is_board(s.kind) /\ s.name.parts = b

\* The names of the sections of some kinds, each where it first comes.
OnceNames(secs, kinds) ==
  FoldLeft(LAMBDA names, s : IF s.kind \in kinds /\ ~Contains(names, s.name.parts)
                             THEN Append(names, s.name.parts) ELSE names,
           <<>>, secs)

is_chord_key(c)    == Len(c) >= 2
canonical_chord(c) == ToBag(c)

Binds(e, c)   == e.text.k = "bind" /\ e.text.key = c
Labels(e, c)  == e.text.k = "label" /\ e.text.key = c
HasValue(e, c) == Binds(e, c) /\ e.text.val # NoVal
NotBlank(e)   == e.text.k # "blank"

BindingAt(s, c) == SelectLastInSeq(s.ents, LAMBDA e : Binds(e, c))
label_index(s, c) == SelectLastInSeq(s.ents, LAMBDA e : Labels(e, c))
get_binding(s, c) ==
  LET i == SelectLastInSeq(s.ents, LAMBDA e : HasValue(e, c))
  IN  IF i = 0 THEN NoVal ELSE s.ents[i].text.val

EndEol(s) == IF s.ents = <<>> THEN s.head ELSE s.ents[Len(s.ents)].eol
WithEndEol(s, eol) ==
  IF s.ents = <<>> THEN [s EXCEPT !.head = eol]
                   ELSE [s EXCEPT !.ents[Len(s.ents)].eol = eol]

\* Mutant: the new line does not take over the missing final newline.
PushLineUnspliced(s, text, style) ==
  LET at == 1 + SelectLastInSeq(s.ents, NotBlank)
  IN  [s EXCEPT !.ents = InsertAt(@, at, [text |-> text, eol |-> style, dirty |-> text.k = "bind"])]

\* push_binding and push_comment: after the last line that is not blank; at
\* the very end the new line takes over a missing final newline.
PushLine(s, text, style) ==
  LET at   == 1 + SelectLastInSeq(s.ents, NotBlank)
      open == at = Len(s.ents) + 1 /\ EndEol(s) = "none"
      base == IF open THEN WithEndEol(s, style) ELSE s
      new  == [text |-> text, eol |-> IF open THEN "none" ELSE style,
               dirty |-> text.k = "bind"]
  IN  [base EXCEPT !.ents = InsertAt(@, at, new)]

SetLine(s, i, text) == [s EXCEPT !.ents[i].text = text, !.ents[i].dirty = TRUE]

set_or_add_binding(s, c, v, style) ==
  LET i == BindingAt(s, c)
  IN  IF i # 0 THEN SetLine(s, i, BindText(c, v))
               ELSE PushLine(s, BindText(c, v), style)

DropLines(s, Test(_)) ==
  LET kept == Among(s.ents, {e \in ToSet(s.ents) : ~Test(e)})
  IN  [s EXCEPT !.ents = kept, !.dirty = @ \/ kept # s.ents]

remove_binding(s, c) == DropLines(s, LAMBDA e : Binds(e, c))

SectionClearLabel(s, c) == DropLines(s, LAMBDA e : Labels(e, c))

\* Section::set_label with a text that is not empty.
SectionSetLabel(s, c, t, style) ==
  LET text == LabelText(c, t)
      i    == label_index(s, c)
      at   == BindingAt(s, c)
  IN  IF i # 0 /\ s.ents[i].text = text THEN s
      ELSE [(IF i # 0 THEN [s EXCEPT !.ents[i].text = text]
             ELSE IF at # 0
             THEN [s EXCEPT !.ents = InsertAt(@, at, Entry(text, s.ents[at].eol))]
             ELSE PushLine(s, text, style)) EXCEPT !.dirty = TRUE]

-----------------------------------------------------------------------------
(* The document and its bytes                                              *)

SectionLines(s) == <<Line(HeadText(s.name), s.head)>>
                     \o [i \in DOMAIN s.ents |-> Line(s.ents[i].text, s.ents[i].eol)]
serialize(d) ==
  [i \in DOMAIN d.pre |-> Line(d.pre[i].text, d.pre[i].eol)]
    \o FlattenSeq([i \in DOMAIN d.secs |-> SectionLines(d.secs[i])])

\* A line that lost its terminator runs into the next one on disk.
Glued(x, y) ==
  CASE x.k = "blank" -> y
    [] y.k = "blank" -> x
    [] x.k = "label" -> LabelText(x.key, "glued")
    [] x.k = "prose" -> Prose("glued")
    [] OTHER         -> BindText(<<"glued">>, NoVal)

PhysicalLines(bytes) ==
  LET join(done, l) ==
        IF done # <<>> /\ done[Len(done)].eol = "none"
        THEN [done EXCEPT ![Len(done)] = Line(Glued(@.text, l.text), l.eol)]
        ELSE Append(done, l)
  IN  FoldLeft(join, <<>>, bytes)

EmptyDoc == [pre |-> <<>>, secs |-> <<>>, dirty |-> FALSE]
NewSection(n, kind, eol) ==
  [name |-> n, kind |-> kind, head |-> eol, ents |-> <<>>, dirty |-> FALSE]

parse(bytes) ==
  LET read(d, l) ==
        IF l.text.k = "head"
        THEN [d EXCEPT !.secs = Append(@, NewSection(l.text.name,
                                            section_kind(l.text.name), l.eol))]
        ELSE IF d.secs = <<>> THEN [d EXCEPT !.pre = Append(@, Entry(l.text, l.eol))]
        ELSE [d EXCEPT !.secs[Len(d.secs)].ents = Append(@, Entry(l.text, l.eol))]
  IN  FoldLeft(read, EmptyDoc, PhysicalLines(bytes))

round_trips(bytes) == serialize(parse(bytes)) = bytes

EntryDirty(e)   == e.text.k = "bind" /\ e.dirty
is_dirty(d) ==
  \/ d.dirty
  \/ \E i \in DOMAIN d.pre : EntryDirty(d.pre[i])
  \/ \E i \in DOMAIN d.secs :
       d.secs[i].dirty \/ \E j \in DOMAIN d.secs[i].ents : EntryDirty(d.secs[i].ents[j])

\* The two diagnostics: keyd rejects the file, or never matches it.
Rejected(d)   == \E i \in DOMAIN d.pre : d.pre[i].text.k = "bind"
Unmatched(d)  == \A i \in DOMAIN d.secs : d.secs[i].kind # "ids"
diagnostics(d) == (IF Rejected(d) THEN {"rejects"} ELSE {})
                    \union (IF Unmatched(d) THEN {"no ids"} ELSE {})

file_eol(d) ==
  LET ends == SelectSeq(serialize(d), LAMBDA l : l.eol # "none")
  IN  IF ends = <<>> THEN "lf" ELSE ends[1].eol

Boards(d, b)   == {i \in DOMAIN d.secs : feeds_board(d.secs[i], b)}
HasBoard(d, b) == b = Main \/ Boards(d, b) # {}

starter_config(ids) ==
  <<Line(HeadText(PlainName(<<"ids">>)), "lf")>>
    \o [i \in DOMAIN ids |-> Line(BindText(<<ids[i]>>, NoVal), "lf")]
    \o <<Line(BlankText, "lf"), Line(HeadText(PlainName(Main)), "lf")>>

-----------------------------------------------------------------------------
(* Operations on the document                                              *)

last_is_blank(d) ==
  LET ents == IF d.secs = <<>> THEN d.pre ELSE d.secs[Len(d.secs)].ents
  IN  ents # <<>> /\ ~NotBlank(ents[Len(ents)])

append_section(d, n, kind) ==
  LET style == file_eol(d)
      bytes == serialize(d)
      open  == bytes # <<>> /\ bytes[Len(bytes)].eol = "none"
      ended == IF ~open THEN d
               ELSE IF d.secs # <<>>
               THEN [d EXCEPT !.secs[Len(d.secs)] = WithEndEol(@, style)]
               ELSE [d EXCEPT !.pre[Len(d.pre)].eol = style]
      blank == Entry(BlankText, style)
      apart == IF bytes = <<>> \/ last_is_blank(ended) THEN ended
               ELSE IF d.secs # <<>>
               THEN [ended EXCEPT !.secs[Len(d.secs)].ents = Append(@, blank)]
               ELSE [ended EXCEPT !.pre = Append(@, blank)]
  IN  [apart EXCEPT
         !.secs = Append(@, NewSection(n, kind, IF open THEN "none" ELSE style)),
         !.dirty = TRUE]

LastSection(d, Test(_)) == SelectLastInSeq(d.secs, Test)
InSection(d, i, s)      == [d EXCEPT !.secs[i] = s]

\* Apply Op to the section an edit of board b targets, [main] made on demand.
InTarget(d, b, Op(_)) ==
  LET at   == LastSection(d, LAMBDA s : feeds_board(s, b))
      base == IF at = 0 THEN append_section(d, PlainName(Main), "main") ELSE d
      i    == IF at = 0 THEN Len(base.secs) ELSE at
  IN  InSection(base, i, Op(base.secs[i]))

OnBoard(d, b, Op(_)) ==
  [d EXCEPT !.secs = [i \in DOMAIN @ |-> IF feeds_board(@[i], b) THEN Op(@[i]) ELSE @[i]]]

\* Mutant: the first section that has the key is edited.
SetFirstBinding(d, b, c, v) ==
  LET i == SelectInSeq(d.secs, LAMBDA s : feeds_board(s, b) /\ get_binding(s, c) # NoVal)
      set(s) == set_or_add_binding(s, c, v, file_eol(d))
  IN  IF i # 0 THEN InSection(d, i, set(d.secs[i])) ELSE InTarget(d, b, set)

\* These four require HasBoard(d, b): the code answers false without it.
set_layer_binding(d, b, c, v) ==
  LET i == LastSection(d, LAMBDA s : feeds_board(s, b) /\ get_binding(s, c) # NoVal)
      set(s) == set_or_add_binding(s, c, v, file_eol(d))
  IN  IF i # 0 THEN InSection(d, i, set(d.secs[i])) ELSE InTarget(d, b, set)

clear_binding(d, b, c) == OnBoard(d, b, LAMBDA s : remove_binding(s, c))
clear_label(d, b, c)   == OnBoard(d, b, LAMBDA s : SectionClearLabel(s, c))

set_label(d, b, c, t) ==
  LET labelled == LastSection(d, LAMBDA s : feeds_board(s, b) /\ label_index(s, c) # 0)
      bound    == LastSection(d, LAMBDA s : feeds_board(s, b) /\ get_binding(s, c) # NoVal)
      set(s)   == SectionSetLabel(s, c, t, file_eol(d))
  IN  IF labelled # 0 THEN InSection(d, labelled, set(d.secs[labelled]))
      ELSE IF bound # 0 THEN InSection(d, bound, set(d.secs[bound]))
      ELSE InTarget(d, b, set)

\* set_layer_chord: the last line that holds the chord, under any spelling.
SameChord(e, c) == /\ e.text.k = "bind" /\ is_chord_key(e.text.key)
                   /\ canonical_chord(e.text.key) = canonical_chord(c)
set_layer_chord(d, b, c, v) ==
  LET holds(s)  == SelectLastInSeq(s.ents, LAMBDA e : SameChord(e, c))
      i         == LastSection(d, LAMBDA s : feeds_board(s, b) /\ holds(s) # 0)
      spelt     == d.secs[i].ents[holds(d.secs[i])].text.key
  IN  IF i # 0 THEN InSection(d, i, set_or_add_binding(d.secs[i], spelt, v, file_eol(d)))
      ELSE InTarget(d, b, LAMBDA s : set_or_add_binding(s, c, v, file_eol(d)))

remove_chord(d, b, c) ==
  OnBoard(d, b, LAMBDA s : DropLines(s, LAMBDA e : SameChord(e, c)))

set_global_option(d, c, v) ==
  LET at   == LastSection(d, LAMBDA s : s.name = PlainName(<<"global">>))
      base == IF at = 0 THEN append_section(d, PlainName(<<"global">>), "global") ELSE d
      i    == IF at = 0 THEN Len(base.secs) ELSE at
  IN  InSection(base, i, set_or_add_binding(base.secs[i], c, v, file_eol(d)))

clear_global(d, c) ==
  LET i == SelectInSeq(d.secs, LAMBDA s : s.name = PlainName(<<"global">>))
  IN  IF i = 0 THEN d ELSE InSection(d, i, remove_binding(d.secs[i], c))

-----------------------------------------------------------------------------
(* Layers and the references to them                                       *)

\* A name the character check refuses is one of these.
BadNames == {"", "?"}
Reserved == {"ids", "global", "aliases"}
Taken(d, n) == \E i \in DOMAIN d.secs : d.secs[i].name.parts = <<n>>

CanAdd(d, n)    == n \notin BadNames \union Reserved /\ ~Taken(d, n)
add_layer(d, n) == append_section(d, PlainName(<<n>>), section_kind(PlainName(<<n>>)))

HasLayer(d, b)     == Boards(d, b) # {}

\* Mutant: the composites the layer is part of go with it.
RemoveEveryNaming(d, b) ==
  [d EXCEPT !.secs = SelectSeq(@, LAMBDA s : ~Contains(s.name.parts, b[1])), !.dirty = TRUE]

remove_layer(d, b) ==
  [d EXCEPT !.secs = Among(@, {s \in ToSet(@) : ~feeds_board(s, b)}), !.dirty = TRUE]

\* The layer names a value activates: the first argument of a layer function,
\* also one call down in an action slot (calls nest no deeper here).
ActionSlots(fn) == CASE fn \in {"overload", "overloadt", "overloadt2"} -> {2}
                     [] fn = "overloadi" -> {1, 2}
                     [] OTHER -> {}
Activates(v)    == v.fn \in LayerFns \union TapHoldFns /\ v.args # <<>>
IsSpan(a)       == a.fn = "" /\ a.name \notin Mods
SpanOf(v)       == IF Activates(v) /\ IsSpan(v.args[1]) THEN {v.args[1].name} ELSE {}
layer_refs(v)   == SpanOf(v) \union UNION {SpanOf(v.args[i]) : i \in ActionSlots(v.fn) \cap DOMAIN v.args}

SpliceOne(v, old, new) ==
  IF old \in SpanOf(v) THEN [v EXCEPT !.args[1] = Atom(new)] ELSE v
Splice(v, old, new) ==
  LET top == SpliceOne(v, old, new)
  IN  [top EXCEPT !.args = [i \in DOMAIN @ |->
         IF i \in ActionSlots(v.fn) THEN SpliceOne(@[i], old, new) ELSE @[i]]]

\* Every valued binding of a board, in file order.
BoardBindings(d) ==
  LET of(s) == [i \in DOMAIN s.ents |-> [section |-> s.name.parts, text |-> s.ents[i].text]]
      all   == FlattenSeq([i \in DOMAIN d.secs |->
                             IF is_board(d.secs[i].kind) THEN of(d.secs[i]) ELSE <<>>])
  IN  Among(all, {e \in ToSet(all) : e.text.k = "bind" /\ e.text.val # NoVal})

references_to(d, n) == SelectSeq(BoardBindings(d), LAMBDA e : n \in layer_refs(e.text.val))

Defined(d) == {d.secs[i].name.parts : i \in {j \in DOMAIN d.secs : is_board(d.secs[j].kind)}}
orphan_layer_refs(d) ==
  UNION {{[section |-> e.section, key |-> e.text.key, layer |-> n] :
            n \in {m \in layer_refs(e.text.val) : <<m>> \notin Defined(d)}} :
         e \in ToSet(BoardBindings(d))}
Plain(d) == {d.secs[i].name.parts : i \in {j \in DOMAIN d.secs : d.secs[j].kind \in {"main", "layer"}}}
dangling_composites(d) ==
  UNION {{<<d.secs[i].name.parts, n>> : n \in {m \in ToSet(d.secs[i].name.parts) :
                                              m # "main" /\ <<m>> \notin Plain(d)}} :
         i \in {j \in DOMAIN d.secs : d.secs[j].kind = "composite"}}

Named(s, n) == s.kind = "layer" /\ s.name.parts = <<n>>
CanRename(d, old, new) ==
  /\ new \notin BadNames \union Reserved /\ new # old
  /\ \E i \in DOMAIN d.secs : Named(d.secs[i], old)
  /\ ~Taken(d, new)

\* Mutant: composites keep the old name.
RenameOwnHead(s, old, new) ==
  IF Named(s, old) THEN [s EXCEPT !.name = PlainName(<<new>>), !.dirty = TRUE] ELSE s

RenameHead(s, old, new) ==
  LET sub(i) == IF s.name.parts[i] = old /\ ~(s.name.pad /\ i = 1) THEN new ELSE s.name.parts[i]
      parts  == [i \in DOMAIN s.name.parts |-> sub(i)]
  IN  CASE Named(s, old) -> [s EXCEPT !.name = [@ EXCEPT !.parts = <<new>>, !.pad = FALSE],
                                      !.dirty = TRUE]
        [] s.kind = "composite" /\ parts # s.name.parts ->
             [s EXCEPT !.name.parts = parts, !.dirty = TRUE]
        [] OTHER -> s
RenameRefs(s, old, new) ==
  LET hit(e) == e.text.k = "bind" /\ old \in layer_refs(e.text.val)
      sub(e) == IF hit(e) THEN [e EXCEPT !.text.val = Splice(@, old, new), !.dirty = TRUE] ELSE e
  IN  IF is_board(s.kind) THEN [s EXCEPT !.ents = [i \in DOMAIN @ |-> sub(@[i])]] ELSE s
rename_layer(d, old, new) ==
  [d EXCEPT !.secs = [i \in DOMAIN @ |-> RenameRefs(RenameHead(@[i], old, new), old, new)],
            !.dirty = TRUE]
=============================================================================
