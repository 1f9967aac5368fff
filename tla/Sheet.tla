------------------------------- MODULE Sheet -------------------------------
(***************************************************************************)
(* What the window draws of a document: derive of core/src/parser.rs turns *)
(* its lines into the semantic Config, and board.rs builds the boards from *)
(* that, one cap per slot of the keyboard's geometry.  The viewer, and the *)
(* editor's preview after each edit, both go through these two.            *)
(*                                                                         *)
(* A cap's text is a value, the key's own legend, nothing or a custom      *)
(* label; colours are the layer a cap is tinted by.  Of keyd's key tables  *)
(* only the members named here are kept.                                   *)
(***************************************************************************)
EXTENDS ConfigDoc

Legend    == [fn |-> "legend", name |-> "", args |-> <<>>]
Nothing   == [fn |-> "nothing", name |-> "", args |-> <<>>]
Custom(t) == [fn |-> "custom", name |-> t, args |-> <<>>]

-----------------------------------------------------------------------------
(* derive                                                                  *)

TextsIn(d, Test(_)) ==
  FlattenSeq([i \in DOMAIN d.secs |->
    IF Test(d.secs[i])
    THEN [j \in DOMAIN d.secs[i].ents |-> d.secs[i].ents[j].text] ELSE <<>>])
bindings(texts)       == Among(texts, {t \in ToSet(texts) : t.k = "bind" /\ t.val # NoVal})
section_labels(texts) == Among(texts, {t \in ToSet(texts) : t.k = "label"})

\* push_label keeps the last text of a key; "" when it has none.
label_for(labels, c) ==
  LET i == SelectLastInSeq(labels, LAMBDA t : t.key = c)
  IN  IF i = 0 THEN "" ELSE labels[i].text

is_mod(a)    == a.fn = "" /\ a.name \in Mods
HasArg(v, i) == i \in DOMAIN v.args
OneArg(v)    == HasArg(v, 1) /\ ~HasArg(v, 2)

\* overloadi(tap, hold, timeout): the target its hold descriptor reduces to.
NestedTarget(v) ==
  LET h == v.args[2]
  IN  CASE h.fn = "layer" /\ OneArg(h) -> h.args[1]
        [] h.fn \in TapHoldFns \ {"lettermod"} /\ HasArg(h, 1) -> h.args[1]
        [] is_mod(h) -> h
        [] OTHER -> Nothing

\* The values of the keys that hold a layer or a modifier down.
IsHold(v) ==
  \/ v.fn \in TapHoldFns /\ HasArg(v, 1)
  \/ v.fn = "overloadi" /\ HasArg(v, 2) /\ NestedTarget(v) # Nothing
  \/ v.fn = "layer" /\ OneArg(v)

\* The list of the Config a [main] line lands in.
ListOf(t) ==
  IF t.val.fn = "toggle" /\ OneArg(t.val) THEN "chords"
  ELSE IF is_chord_key(t.key) THEN "combos"
  ELSE IF IsHold(t.val) THEN "holds" ELSE "remaps"

\* What a key holds, as the file spells it, and taps; mods are the layers that
\* stand for a modifier.
HoldOf(t, mods) ==
  LET v   == t.val
      tgt == IF v.fn = "overloadi" THEN NestedTarget(v) ELSE v.args[1]
      tap == CASE v.fn = "overloadi" -> v.args[1]
               [] v.fn = "layer"     -> Nothing
               [] v.fn \in TapHoldFns /\ HasArg(v, 2) -> v.args[2]
               [] OTHER              -> Atom(t.key[1])
  IN  [key |-> t.key, target |-> tgt, tap |-> tap,
       kind |-> IF \E m \in Mods \union mods : tgt = Atom(m) THEN "mod" ELSE "layer"]

DerivedLayer(d, b) ==
  LET mine(s) == s.kind \in {"layer", "composite"} /\ s.name.parts = b
      texts   == TextsIn(d, mine)
      lines   == bindings(texts)
      quals   == {i \in DOMAIN d.secs : mine(d.secs[i])
                                        /\ d.secs[i].name.qual \notin {"", "layout"}}
  IN  [name   |-> b,
       keys   |-> Among(lines, {t \in ToSet(lines) : ~is_chord_key(t.key)}),
       combos |-> Among(lines, {t \in ToSet(lines) : is_chord_key(t.key)}),
       mods   |-> IF quals = {} THEN "" ELSE d.secs[Max(quals)].name.qual,
       labels |-> section_labels(texts)]

LayerNames(d) == OnceNames(d.secs, {"layer", "composite"})

derive(d) ==
  LET main   == TextsIn(d, LAMBDA s : s.kind = "main")
      lines  == bindings(main)
      of(l)  == Among(lines, {t \in ToSet(lines) : ListOf(t) = l})
      layers == [i \in DOMAIN LayerNames(d) |-> DerivedLayer(d, LayerNames(d)[i])]
      mods   == {layers[i].name[1] : i \in {j \in DOMAIN layers : layers[j].mods # ""
                                                                  /\ Len(layers[j].name) = 1}}
      ids    == TextsIn(d, LAMBDA s : s.kind = "ids")
  IN  [ids    |-> Among(ids, {t \in ToSet(ids) : t.k = "bind"}),
       layers |-> layers,
       holds  |-> [i \in DOMAIN of("holds") |-> HoldOf(of("holds")[i], mods)],
       chords |-> of("chords"), combos |-> of("combos"), remaps |-> of("remaps"),
       labels |-> section_labels(main)]

cfg_layer(cfg, b) == SelectInSeq(cfg.layers, LAMBDA l : l.name = b)

\* Layer::get and Config::remap: the FIRST line of the key, NoVal if none.
get(pairs, c) ==
  LET i == SelectInSeq(pairs, LAMBDA t : t.key = c)
  IN  IF i = 0 THEN NoVal ELSE pairs[i].val

-----------------------------------------------------------------------------
(* Boards                                                                  *)

\* Members of keyd's tables: names monitor prints, other names of them, names
\* that imply Shift, and a name behind a modifier prefix.
PRIMARY == {"a", "b", "j", "k", "esc", "x", "leftshift", "leftcontrol"}
ALIAS   == ("A" :> "a") @@ ("escape" :> "esc") @@ ("rightshift" :> "leftshift")
SHIFTED == {"A"}
PREFIX  == ("C-a" :> <<"leftcontrol", "a">>)

canonical(n) == IF n \in DOMAIN ALIAS THEN ALIAS[n] ELSE n

\* The keysyms a value emits, {} when it has no single chord for output.
output_chord(v) ==
  LET mods == IF v.name \in DOMAIN PREFIX THEN {PREFIX[v.name][1]} ELSE {}
      bare == IF v.name \in DOMAIN PREFIX THEN PREFIX[v.name][2] ELSE v.name
  IN  IF v.fn # "" \/ canonical(bare) \notin PRIMARY THEN {}
      ELSE mods \union {canonical(bare)} \union (IF bare \in SHIFTED THEN {"leftshift"} ELSE {})

cap_at(k) ==
  [main |-> Legend, ghost |-> Nothing, tint |-> <<>>, state |-> "normal", hold |-> Nothing,
   chord |-> "", emits |-> {canonical(k)} \cap PRIMARY]
BlankCap == [cap_at("") EXCEPT !.main = Nothing, !.state = "dim"]

style_noop(cap) == [cap EXCEPT !.main = Nothing, !.state = "dim", !.emits = {}]
is_noop(v)      == v = Atom("noop")

\* Mutant: a label hides what the key does.
LabelOnly(cap, labels, c) ==
  LET t == label_for(labels, c)
  IN  IF t = "" THEN cap ELSE [cap EXCEPT !.main = Custom(t)]

apply_label(cap, labels, c) ==
  LET t == label_for(labels, c)
  IN  IF t = "" THEN cap ELSE [cap EXCEPT !.ghost = cap.main, !.main = Custom(t)]

InChord(pairs, k) == SelectLastInSeq(pairs, LAMBDA t : Contains(t.key, k))
Glow(v, else)     == IF output_chord(v) = {} THEN else ELSE output_chord(v)

BaseCap(cfg, k) ==
  LET cap  == cap_at(k)
      h    == SelectLastInSeq(cfg.holds, LAMBDA x : x.key = <<k>>)
      hold == cfg.holds[h]
      v    == get(cfg.remaps, <<k>>)
      drawn ==
        CASE h # 0 /\ hold.tap = Nothing ->
               [cap EXCEPT !.main = hold.target, !.ghost = Legend, !.tint = <<hold.kind, hold.target>>]
          [] h # 0 /\ hold.tap # Nothing ->
               [cap EXCEPT !.main = hold.tap, !.hold = hold.target, !.tint = <<hold.kind, hold.target>>,
                           !.emits = Glow(hold.tap, @)]
          [] h = 0 /\ v # NoVal /\ is_noop(v) -> style_noop(cap)
          [] h = 0 /\ v # NoVal /\ ~is_noop(v) ->
               [cap EXCEPT !.main = v, !.ghost = Legend, !.tint = <<"remap">>, !.emits = Glow(v, @)]
          [] OTHER -> cap
      badge == IF InChord(cfg.chords, k) # 0 THEN "toggle"
               ELSE IF InChord(cfg.combos, k) # 0 THEN "combo" ELSE ""
  IN  apply_label([drawn EXCEPT !.chord = badge], cfg.labels, <<k>>)

\* The cap of a layer or composite board: v is its binding, from the layer
\* named src; holds the keys held to reach the board.
OverlayCap(layer, k, v, src, holds) ==
  LET cap   == cap_at(k)
      at    == SelectInSeq(holds, LAMBDA h : h.key = <<k>>)
      game  == layer.name = <<"game">>
      drawn ==
        CASE v # NoVal /\ is_noop(v) -> style_noop(cap)
          [] v # NoVal /\ ~is_noop(v) /\ game -> [cap EXCEPT !.tint = src]
          [] v # NoVal /\ ~is_noop(v) /\ ~game ->
               [cap EXCEPT !.main = v, !.ghost = Legend, !.tint = src, !.emits = output_chord(v)]
          [] v = NoVal /\ at # 0 ->
               [cap EXCEPT !.state = "hold", !.tint = holds[at].of, !.emits = {}]
          [] OTHER -> [cap EXCEPT !.state = "dim"]
      badge == IF InChord(layer.combos, k) # 0 THEN "combo" ELSE ""
  IN  apply_label([drawn EXCEPT !.chord = badge], layer.labels, <<k>>)

\* The first key whose hold engages layer n, if one does.
Holder(cfg, n) ==
  LET i == SelectInSeq(cfg.holds, LAMBDA h : h.target = Atom(n))
  IN  IF i = 0 THEN <<>> ELSE <<[key |-> cfg.holds[i].key, of |-> <<n>>]>>

LayerCap(cfg, layer, k) ==
  OverlayCap(layer, k, get(layer.keys, <<k>>), layer.name, Holder(cfg, layer.name[1]))

\* The composite's own line, else the last constituent that binds the key.
CompositeCap(cfg, layer, k) ==
  LET part(p) == cfg_layer(cfg, <<p>>)
      gets(p) == part(p) # 0 /\ get(cfg.layers[part(p)].keys, <<k>>) # NoVal
      own     == get(layer.keys, <<k>>)
      i       == SelectLastInSeq(layer.name, gets)
      from    == <<layer.name[i]>>
  IN  OverlayCap(layer, k,
        IF own # NoVal THEN own ELSE IF i = 0 THEN NoVal
        ELSE get(cfg.layers[part(layer.name[i])].keys, <<k>>),
        IF own # NoVal \/ i = 0 THEN layer.name ELSE from,
        FlattenSeq([j \in DOMAIN layer.name |-> Holder(cfg, layer.name[j])]))

Board(b, caps) == [name |-> b, caps |-> caps]

\* Base first, the layers as declared, the game layer last; slots are keys.
build(cfg, slots) ==
  LET caps(cap(_)) == [k \in slots |-> IF k = "" THEN BlankCap ELSE cap(k)]
      board(l)     == Board(l.name, caps(LAMBDA k : IF Len(l.name) > 1 THEN CompositeCap(cfg, l, k)
                                                   ELSE LayerCap(cfg, l, k)))
      plain == Among(cfg.layers, {l \in ToSet(cfg.layers) : l.name # <<"game">>})
      game  == Among(cfg.layers, {l \in ToSet(cfg.layers) : l.name = <<"game">>})
      over  == plain \o game
  IN  <<Board(<<>>, caps(LAMBDA k : BaseCap(cfg, k)))>> \o [i \in DOMAIN over |-> board(over[i])]

\* The board drawn for a layer: 0 when the sheet has none of that name.
BoardAt(sheet, b) ==
  IF b = Main THEN 1 ELSE SelectInSeq(sheet, LAMBDA x : x.name = b)
=============================================================================
