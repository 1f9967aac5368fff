---------------------------- MODULE EditSession ----------------------------
(***************************************************************************)
(* One edit session of app/src/editing.rs over one config: opened from the *)
(* file or created for a new one, and edited through its mutators.  What a *)
(* draft or an apply saves is serialize(edit).                             *)
(***************************************************************************)
EXTENDS Sheet, KeyActions

CONSTANTS
  Files,       \* contents the file may have, as bytes
  Ids,         \* the [ids] lines of a config made from scratch
  EditKeys,    \* keys of the board the user selects
  Values,      \* values the user types
  LabelTexts,  \* label texts the user types
  Targets,     \* layers a key may be pointed at
  HoldTargets, \* layers and modifiers a tap/hold key may be pointed at
  Taps,        \* what such a key may type when tapped
  Feels,       \* feels the user picks: "" for none, "responsive", "typing"
  Kinds,       \* layer actions the user picks
  ChordKeys,   \* chords the user builds
  MacroDrafts, \* [tokens, repeat] the macro builder holds
  Options,     \* names of [global] options
  NewNames,    \* names typed for a layer
  MaxEdits     \* bound: edits of one session

ASSUME SessionAssumption ==
  /\ MaxEdits \in Nat /\ Ids \in Seq(STRING) /\ Kinds \subseteq LayerKinds
  /\ NoVal \notin Values   \* a typed value is written after a `='
  /\ "" \notin EditKeys    \* a slot without a key cannot be picked
  /\ Feels \subseteq {"", "responsive", "typing"}
  /\ \A f \in Files : IsFile(f)

VARIABLES
  edit,      \* the document
  original,  \* the bytes it was opened from, none for a new config
  created,   \* the config is not on disk yet
  last,      \* the mutator that ran last, with its arguments
  edits

vars == <<edit, original, created, last, edits>>

NoKey  == <<>>

Did(op, b, c, v) == [op |-> op, board |-> b, key |-> c, val |-> v]
Quiet            == Did("none", <<>>, NoKey, NoVal)

-----------------------------------------------------------------------------
(* Queries                                                                 *)

editable_sections(d)  == OnceNames(d.secs, BoardKinds)
require_board(d, b) == b = Main \/ Contains(editable_sections(d), b)

current_binding(d, b, c) ==
  LET i == LastSection(d, LAMBDA s : feeds_board(s, b) /\ get_binding(s, c) # NoVal)
  IN  IF i = 0 THEN NoVal ELSE get_binding(d.secs[i], c)

current_tap_hold(d, b, k)     == ParseTapHold(k, current_binding(d, b, <<k>>))
current_layer_action(d, b, k) == ParseLayerAction(current_binding(d, b, <<k>>))
current_macro(d, b, k)        == ParseMacro(current_binding(d, b, <<k>>))
current_label(d, b, c) ==
  LET cfg == derive(d)
      i   == cfg_layer(cfg, b)
  IN  IF b = Main THEN label_for(cfg.labels, c)
      ELSE IF i = 0 THEN "" ELSE label_for(cfg.layers[i].labels, c)

\* Keep-last lists of the chords of a board and of the [global] options.
KeepLast(texts, Same(_, _)) ==
  FoldLeft(LAMBDA out, t : Append(Among(out, {u \in ToSet(out) : ~Same(u, t)}), t), <<>>, texts)
chords(d, b) ==
  LET texts == bindings(TextsIn(d, LAMBDA s : feeds_board(s, b)))
  IN  KeepLast(Among(texts, {t \in ToSet(texts) : is_chord_key(t.key)}),
               LAMBDA t, u : canonical_chord(t.key) = canonical_chord(u.key))
global_entries(d) ==
  KeepLast(bindings(TextsIn(d, LAMBDA s : s.kind = "global")), LAMBDA t, u : t.key = u.key)

\* Every group of orphan references and every dangling composite is one line.
orphan_warnings(d) ==
  {<<"orphan", o.layer>> : o \in orphan_layer_refs(d)}
    \union {<<"dangling", p>> : p \in dangling_composites(d)}

dirty == created \/ is_dirty(edit)

-----------------------------------------------------------------------------
(* line_diff: the lines off a longest common subsequence of old and new    *)

LineTexts(bytes) == LET ph == PhysicalLines(bytes) IN [i \in DOMAIN ph |-> ph[i].text]

\* Mutant: a match is counted from the same row, so lines may match twice.
LcsRowRepeats(a, b, i, below) ==
  FoldRight(LAMBDA j, row : <<IF a[i] = b[j] THEN row[1] + 1
                              ELSE IF below[j] >= row[1] THEN below[j] ELSE row[1]>> \o row,
            [j \in DOMAIN b |-> j], <<0>>)

\* Row i of the table gives, for each j, the length of a longest common
\* subsequence of a[i..] and b[j..].
LcsRow(a, b, i, below) ==
  FoldRight(LAMBDA j, row : <<IF a[i] = b[j] THEN below[j + 1] + 1
                              ELSE IF below[j] >= row[1] THEN below[j] ELSE row[1]>> \o row,
            [j \in DOMAIN b |-> j], <<0>>)
LcsTable(a, b) ==
  FoldRight(LAMBDA i, rows : <<LcsRow(a, b, i, rows[1])>> \o rows,
            [i \in DOMAIN a |-> i], << [j \in 1..(Len(b) + 1) |-> 0] >>)

Signed(sign, t) == [sign |-> sign, text |-> t]

line_diff(old, new) ==
  LET a   == LineTexts(old)
      b   == LineTexts(new)
      lcs == LcsTable(a, b)
      from[p \in (1..(Len(a) + 1)) \X (1..(Len(b) + 1))] ==
        LET i    == p[1]
            j    == p[2]
            more == i <= Len(a) /\ j <= Len(b)
        IN  CASE more /\ a[i] = b[j] -> from[<<i + 1, j + 1>>]
              [] i <= Len(a) /\ (more => a[i] # b[j] /\ lcs[i + 1][j] >= lcs[i][j + 1]) ->
                   <<Signed("-", a[i])>> \o from[<<i + 1, j>>]
              [] j <= Len(b) /\ (more => a[i] # b[j] /\ lcs[i + 1][j] < lcs[i][j + 1]) ->
                   <<Signed("+", b[j])>> \o from[<<i, j + 1>>]
              [] OTHER -> <<>>
  IN  from[<<1, 1>>]

-----------------------------------------------------------------------------
(* Actions                                                                 *)

\* open's gate: a file keyd rejects, or that would not come back, is view-only.
Editable(bytes) == round_trips(bytes) /\ "rejects" \notin diagnostics(parse(bytes))

Init ==
  /\ \/ /\ original \in {f \in Files : Editable(f)}
        /\ edit = parse(original) /\ created = FALSE
     \/ /\ Editable(starter_config(Ids))
        /\ original = <<>> /\ edit = parse(starter_config(Ids)) /\ created = TRUE
  /\ last = Quiet /\ edits = 0

Mutates(did, d) ==
  /\ edits < MaxEdits
  /\ edit' = d /\ last' = did /\ edits' = edits + 1
  /\ UNCHANGED <<original, created>>

\* The value set_macro composes of each draft, and the drafts it accepts.
Built    == [m \in MacroDrafts |-> MacroValue(m.tokens, m.repeat)]
Writable == {m \in MacroDrafts : m.tokens # <<>> /\ Stable(Built[m])}

\* The mutators return an error, and change nothing, where their guard fails.
SetBinding(b, c, v) ==
  /\ HasBoard(edit, b)
  /\ Mutates(Did("set", b, c, v), set_layer_binding(edit, b, c, v))
ClearBinding(b, c) ==
  /\ require_board(edit, b)
  /\ Mutates(Did("clear", b, c, NoVal), clear_binding(edit, b, c))
SetLabel(b, c, t) ==
  /\ HasBoard(edit, b)
  /\ Mutates(Did("label", b, c, Custom(t)), set_label(edit, b, c, t))
ClearLabel(b, c) ==
  /\ require_board(edit, b)
  /\ Mutates(Did("unlabel", b, c, Custom("")), clear_label(edit, b, c))
SetLayerAction(b, k, kind, n) ==
  /\ HasBoard(edit, b)
  /\ LET v == Call(kind, <<Atom(n)>>)
     IN  Mutates(Did("set", b, <<k>>, v), set_layer_binding(edit, b, <<k>>, v))
SetTapHold(b, k, n, tap, feel) ==
  LET v == TapHoldValue(ComposeTapHold(current_tap_hold(edit, b, k), n, tap, feel))
  IN  /\ HasBoard(edit, b)
      /\ current_binding(edit, b, <<k>>).fn # "overloadi"
      /\ Mutates(Did("taphold", b, <<k>>, v), set_layer_binding(edit, b, <<k>>, v))
\* v is the value the draft comes to, already found Stable.
SetMacro(b, k, v) ==
  LET cur == current_binding(edit, b, <<k>>)
  IN  /\ HasBoard(edit, b)
      /\ cur.fn \in {"macro", "macro2"} => ParseMacro(cur).ok
      /\ Mutates(Did("macro", b, <<k>>, v), set_layer_binding(edit, b, <<k>>, v))
CanSetChord(b, c) == HasBoard(edit, b) /\ Len(c) >= 2 /\ Cardinality(ToSet(c)) = Len(c)
SetChord(b, c, v) ==
  /\ CanSetChord(b, c)
  /\ Mutates(Did("chord", b, c, v), set_layer_chord(edit, b, c, v))
RemoveChord(b, c) ==
  /\ Boards(edit, b) # {}
  /\ Mutates(Did("unchord", b, c, NoVal), remove_chord(edit, b, c))
SetGlobal(o, v) ==
  Mutates(Did("global", <<>>, <<o>>, v), set_global_option(edit, <<o>>, v))
ClearGlobal(o) ==
  Mutates(Did("unglobal", <<>>, <<o>>, NoVal), clear_global(edit, <<o>>))
AddLayer(n) ==
  /\ CanAdd(edit, n)
  /\ Mutates(Did("add", <<n>>, NoKey, NoVal), add_layer(edit, n))
RemoveLayer(b) ==
  /\ HasLayer(edit, b)
  /\ Mutates(Did("remove", b, NoKey, NoVal), remove_layer(edit, b))
RenameLayer(old, new) ==
  /\ CanRename(edit, old, new)
  /\ Mutates(Did("rename", <<old>>, <<new>>, NoVal), rename_layer(edit, old, new))

BoardsShown == ToSet(editable_sections(edit)) \union {Main}

BindingEdit ==
  \E b \in BoardsShown, k \in EditKeys :
    \/ \E v \in Values : SetBinding(b, <<k>>, v)
    \/ ClearBinding(b, <<k>>)
    \/ \E t \in LabelTexts : SetLabel(b, <<k>>, t)
    \/ ClearLabel(b, <<k>>)
    \/ \E kind \in Kinds, n \in Targets : SetLayerAction(b, k, kind, n)
    \/ \E n \in HoldTargets, tap \in Taps, feel \in Feels : SetTapHold(b, k, n, tap, feel)
    \/ \E m \in Writable : SetMacro(b, k, Built[m])
ChordEdit ==
  \E b \in BoardsShown, c \in ChordKeys :
    \/ \E v \in Values : SetChord(b, c, v)
    \/ RemoveChord(b, c)
OtherEdit ==
  \/ \E o \in Options, v \in Values : SetGlobal(o, v)
  \/ \E o \in Options : ClearGlobal(o)
  \/ \E n \in NewNames : AddLayer(n)
  \/ \E b \in BoardsShown : RemoveLayer(b)
  \/ \E old \in Targets, new \in NewNames : RenameLayer(old, new)

Next == BindingEdit \/ ChordEdit \/ OtherEdit

Spec == Init /\ [][Next]_vars

-----------------------------------------------------------------------------
(* What keyd makes of a document: it merges the sections of a layer in     *)
(* file order, and the last line of a key, chord or option is in force.    *)

LastOf(texts, Test(_)) ==
  LET i == SelectLastInSeq(texts, Test) IN IF i = 0 THEN NoVal ELSE texts[i].val
BoardLines(d, b) == bindings(TextsIn(d, LAMBDA s : feeds_board(s, b)))
KeydValue(d, b, c) == LastOf(BoardLines(d, b), LAMBDA t : t.key = c)
KeydChord(d, b, c) ==
  LastOf(BoardLines(d, b),
         LAMBDA t : is_chord_key(t.key) /\ canonical_chord(t.key) = canonical_chord(c))
KeydOption(d, c) == LastOf(bindings(TextsIn(d, LAMBDA s : s.kind = "global")),
                           LAMBDA t : t.key = c)

AllBoards(d) == ToSet(editable_sections(d)) \union {Main}
KeysOn(d, b) == {BoardLines(d, b)[i].key : i \in DOMAIN BoardLines(d, b)}

\* Two shapes of a document the code mistakes, each the subject of a run.
\* A label line put before a last line that has no newline runs into it.
GluedLabel(d) ==
  \E i \in DOMAIN d.secs : \E j \in 1..(Len(d.secs[i].ents) - 1) :
    d.secs[i].ents[j].text.k = "label" /\ d.secs[i].ents[j].eol = "none"
\* A layer renamed to main keeps the kind of a layer.
NamedMain(d) == \E i \in DOMAIN d.secs : feeds_board(d.secs[i], Main) /\ d.secs[i].kind # "main"

-----------------------------------------------------------------------------
(* Properties                                                              *)

\* Saved and opened again, the document is the one on screen: no operation
\* leaves a line, a section or its kind that its own bytes do not give back.
Clean(d) ==
  [pre  |-> [i \in DOMAIN d.pre |-> [d.pre[i] EXCEPT !.dirty = FALSE]],
   secs |-> [i \in DOMAIN d.secs |-> [d.secs[i] EXCEPT !.dirty = FALSE,
               !.ents = [j \in DOMAIN @ |-> [@[j] EXCEPT !.dirty = FALSE]]]],
   dirty |-> FALSE]
ModelIsItsFile == parse(serialize(edit)) = Clean(edit) \/ GluedLabel(edit) \/ NamedMain(edit)

\* A file of one line ending keeps it; only its last line may have none.
TerminatorsKept ==
  LET bytes == serialize(edit)
      was   == {original[i].eol : i \in DOMAIN original} \ {"none"}
  IN  Cardinality(was) = 1 => \A i \in DOMAIN bytes :
        bytes[i].eol \in was \/ (bytes[i].eol = "none" /\ (i = Len(bytes) \/ GluedLabel(edit)))

\* What is saved is what is edited: the document comes back from its bytes,
\* in the line ending the file came with.
FileIsSound == ModelIsItsFile /\ TerminatorsKept

\* The same without the two exceptions: fails, set_label and rename_layer.
EditsSurviveSaving == parse(serialize(edit)) = Clean(edit)

\* keyd, reading what an edit left, does for the edited key what was asked.
EditTakesEffect ==
  LET b == last'.board c == last'.key v == last'.val op == last'.op
  IN  /\ op \in {"set", "taphold", "macro", "clear"} => KeydValue(edit', b, c) = v
      /\ op \in {"chord", "unchord"} => KeydChord(edit', b, c) = v
      /\ op = "global" => KeydOption(edit', c) = v
      /\ op = "unglobal" /\ Cardinality({i \in DOMAIN edit.secs : edit.secs[i].kind = "global"}) <= 1
           => KeydOption(edit', c) = v

\* The label typed for a key is the one its cap shows, whichever of the
\* merged sections it went to; cleared, none is left to show.
LabelShows ==
  last'.op \in {"label", "unlabel"} /\ ~NamedMain(edit)
    => current_label(edit', last'.board, last'.key) = last'.val.name

\* A macro built in the panel types, read back from the file, what was built.
MacroTypes ==
  last'.op = "macro" => \A m \in MacroDrafts : Built[m] = last'.val =>
                          Typed(ParseMacro(last'.val).tokens) = Typed(m.tokens)

\* Every edit does in keyd, and on the cap, what the user asked of it.
EditsTakeEffect == [][EditTakesEffect /\ LabelShows]_vars

\* ... and nothing else: every other key of every board keeps its value.
SameElsewhere ==
  last'.op # "rename" => \A b \in AllBoards(edit) : \A c \in KeysOn(edit, b) :
    CASE last'.op = "remove" -> b # last'.board => KeydValue(edit', b, c) = KeydValue(edit, b, c)
      [] last'.op \in {"chord", "unchord"} ->
           \/ b = last'.board /\ canonical_chord(c) = canonical_chord(last'.key)
           \/ KeydValue(edit', b, c) = KeydValue(edit, b, c)
      [] OTHER -> \/ b = last'.board /\ c = last'.key
                  \/ KeydValue(edit', b, c) = KeydValue(edit, b, c)

\* Editing one key leaves every line that is not of that key as it was, in
\* its order; what an edit adds for a missing section comes after it.
TextsNotOf(d, c) ==
  LET ls    == serialize(d)
      texts == [i \in DOMAIN ls |-> ls[i].text]
  IN  Among(texts, {t \in ToSet(texts) : t.k \in {"blank", "prose", "head"} \/ t.key # c})
KeyOps == {"set", "taphold", "macro", "clear", "label", "unlabel", "global", "unglobal", "add"}
OtherLinesStay ==
  last'.op \in KeyOps => IsPrefix(TextsNotOf(edit, last'.key), TextsNotOf(edit', last'.key))

\* Pointing a tuned tap/hold key elsewhere keeps its form and timeouts, and
\* the forms a panel cannot show are never overwritten by it.
TuningSurvives ==
  last'.op \in {"taphold", "macro"} =>
    LET was == KeydValue(edit, last'.board, last'.key)
        now == last'.val
    IN  /\ last'.op = "taphold" => was.fn # "overloadi"
        /\ last'.op = "taphold" /\ was.fn = now.fn
             => SubSeq(now.args, 3, Len(now.args)) = SubSeq(was.args, 3, Len(was.args))
        /\ last'.op = "macro" /\ was.fn \in {"macro", "macro2"} => ParseMacro(was).ok

\* ... and nothing the user did not ask for: other keys and other lines.
NothingElseChanges == [][SameElsewhere /\ OtherLinesStay]_vars

\* Renamed, a layer keeps its keys and so does every other, those that
\* activated it activating it under its new name.
RenameFollows ==
  last'.op = "rename" => \A b \in AllBoards(edit) : \A c \in KeysOn(edit, b) :
    LET to == IF b = last'.board THEN last'.key
              ELSE [i \in DOMAIN b |-> IF Len(b) > 1 /\ b[i] = last'.board[1]
                                       THEN last'.key[1] ELSE b[i]]
    IN  KeydValue(edit', to, c) = Splice(KeydValue(edit, b, c), last'.board[1], last'.key[1])

\* It leaves no layer missing, and no part of a composite, that was not
\* missing before.
Missing(d) == {o.layer : o \in orphan_layer_refs(d)} \union {p[2] : p \in dangling_composites(d)}
RenameOrphansNothing == last'.op = "rename" => Missing(edit') \subseteq Missing(edit)

\* What a panel does not show is not lost by using it: the references to a
\* renamed layer, the tuning of a key pointed elsewhere, the words of a macro.
NothingIsLost == [][RenameFollows /\ RenameOrphansNothing /\ TuningSurvives /\ MacroTypes]_vars

\* The diff the user reviews accounts for every line, and names no section
\* header while the sections are those of the file.
Heads(bytes) == SelectSeq(LineTexts(bytes), LAMBDA t : t.k = "head")
DiffTellsAll ==
  LET d == line_diff(original, serialize(edit))
      signed(s) == LET of == SelectSeq(d, LAMBDA x : x.sign = s)
                   IN  ToBag([i \in DOMAIN of |-> of[i].text])
  IN  /\ ToBag(LineTexts(original)) (+) signed("+") = ToBag(LineTexts(serialize(edit))) (+) signed("-")
      /\ Heads(original) = Heads(serialize(edit)) => \A i \in DOMAIN d : d[i].text.k # "head"

\* No change to the bytes goes unnoticed by the flag that guards leaving.
ChangesAreDirty == serialize(edit) # original => dirty
\* A change is never lost sight of: it is dirty, and the diff tells it all.
ChangesAreSeen == ChangesAreDirty /\ DiffTellsAll

\* The board shows what keyd does: the cap of a key bound by one line shows
\* its value, or what it holds or acts on, and a key bound by none shows none.
\* A label, a badge or a layer's colours hide none of it.
Args(v)  == {v.args[i] : i \in DOMAIN v.args}
Parts(v) == Args(v) \union UNION {Args(a) : a \in Args(v)}
Tells(cap, v) ==
  \/ v \in {cap.main, cap.ghost}
  \/ v.fn \in TapHoldFns \union {"overloadi", "layer"}
       /\ Parts(v) \intersect {cap.hold, cap.main, cap.ghost} # {}
  \/ is_noop(v) /\ cap.state = "dim"
  \/ v.fn = "toggle" /\ cap.chord = "toggle"
LinesOf(d, b, k) == Cardinality({i \in DOMAIN BoardLines(d, b) : BoardLines(d, b)[i].key = <<k>>})
PreviewTellsKeyd ==
  LET sheet == build(derive(edit), EditKeys)
  IN  NamedMain(edit) \/ \A b \in AllBoards(edit) \ {<<"game">>}, k \in EditKeys :
        LET at == BoardAt(sheet, b)
            v  == KeydValue(edit, b, <<k>>)
        IN  at # 0 /\ LinesOf(edit, b, k) <= 1 =>
              IF v # NoVal THEN Tells(sheet[at].caps[k], v)
              ELSE Len(b) = 1 => {sheet[at].caps[k].main.fn, sheet[at].caps[k].ghost.fn}
                                   \subseteq {"legend", "nothing", "custom"}
=============================================================================
