----------------------------- MODULE KeyActions -----------------------------
(***************************************************************************)
(* The values the editor's panels compose and decompose: tap/hold keys     *)
(* (core/src/taphold.rs), layer actions (layeraction.rs) and macros        *)
(* (macros.rs).  Whether a text survives as what it types is a question of *)
(* its letters, so a word of a macro is the sequence of its letters, and   *)
(* the space key the one-letter word Space.                                *)
(***************************************************************************)
EXTENDS ConfigDoc

-----------------------------------------------------------------------------
(* Tap/hold: func(target, tap, ...timeouts)                                *)

FeelFn      == [responsive |-> "overloadt2", typing |-> "lettermod"]
DefaultRest == [responsive |-> <<Atom("200")>>, typing |-> <<Atom("150"), Atom("200")>>]
behavior(fn) == CASE fn = "overloadt2" -> "responsive" [] fn = "lettermod" -> "typing" [] OTHER -> ""

NoTapHold == [fn |-> "", target |-> "", tap |-> NoVal, rest |-> <<>>]

\* TapHold::parse, less the momentary layer() current_tap_hold filters out.
ParseTapHold(k, v) ==
  IF v.fn \in TapHoldFns /\ v.args # <<>>
  THEN [fn |-> v.fn, target |-> v.args[1].name,
        tap |-> IF Len(v.args) >= 2 THEN v.args[2] ELSE Atom(k),
        rest |-> SubSeq(v.args, 3, Len(v.args))]
  ELSE NoTapHold

TapHoldValue(th) == Call(th.fn, <<Atom(th.target), th.tap>> \o th.rest)

\* TapHold::compose with a tap; feel "" is none picked.
ComposeTapHold(prev, target, tap, feel) ==
  LET keep  == prev # NoTapHold /\ feel \in {"", behavior(prev.fn)}
      taken == IF feel = "" THEN "responsive" ELSE feel
  IN  [fn |-> IF keep THEN prev.fn ELSE FeelFn[taken], target |-> target, tap |-> tap,
       rest |-> IF keep THEN prev.rest ELSE DefaultRest[taken]]

\* LayerAction: the three bare forms with one plain layer.
LayerKinds == {"layer", "toggle", "oneshot"}
ParseLayerAction(v) ==
  IF v.fn \in LayerKinds /\ Len(v.args) = 1 /\ v.args[1].fn = ""
  THEN v ELSE NoVal

-----------------------------------------------------------------------------
(* Macros                                                                  *)

Space     == <<"space">>
Digit     == [c \in {"1", "2"} |-> IF c = "1" THEN 1 ELSE 2]
Keycodes  == {Space, <<"a">>, <<"m">>, <<"s">>, <<"1">>, <<"2">>, <<"+">>, <<"-">>, <<"u", "p">>}
PrefixLetters == {"C", "S", "A", "M", "G"}
DelayLimit == 1024

Token(t, w)     == [t |-> t, mods |-> <<>>, keys |-> <<w>>]
Key(w)          == Token("key", w)
Text(w)         == Token("text", w)
Delay(w)        == Token("delay", w)
Chord(m, ks)    == [t |-> "chord", mods |-> m, keys |-> ks]

split(w, at) ==
  LET next(parts, c) == IF c = at THEN Append(parts, <<>>)
                        ELSE [parts EXCEPT ![Len(parts)] = Append(@, c)]
  IN  FoldLeft(next, << <<>> >>, w)

digits(w)  == w # <<>> /\ ToSet(w) \subseteq DOMAIN Digit
number(w)  == FoldLeft(LAMBDA n, c : 10 * n + Digit[c], 0, w)
IsPause(w) == LET n == SubSeq(w, 1, Len(w) - 2)
              IN  /\ Len(w) > 2 /\ SubSeq(w, Len(w) - 1, Len(w)) = <<"m", "s">>
                  /\ digits(n) /\ number(n) < DelayLimit

\* strip_mod_prefixes: how many leading `X-' the word has.
Prefixed(w) ==
  Max({n \in 0..(Len(w) \div 2) :
         \A i \in 1..n : w[2 * i - 1] \in PrefixLetters /\ w[2 * i] = "-"})
AllKeys(ks) == ToSet(ks) \subseteq Keycodes

classify(w) ==
  LET n    == Prefixed(w)
      body == split(SubSeq(w, 2 * n + 1, Len(w)), "+")
      plus == split(w, "+")
  IN  IF IsPause(w) THEN Delay(SubSeq(w, 1, Len(w) - 2))
      ELSE IF w \in Keycodes THEN Key(w)
      ELSE IF n > 0 /\ AllKeys(body) THEN Chord([i \in 1..n |-> w[2 * i - 1]], body)
      ELSE IF Len(plus) >= 2 /\ AllKeys(plus) THEN Chord(<<>>, plus)
      ELSE Text(w)

\* A text as words: its own if read back as the same text, else letter by letter.
serialize_text(t) ==
  LET words  == split(t, " ")
      word(w) == IF w = <<>> THEN <<>>
                 ELSE IF classify(w) = Text(w) THEN <<w>> ELSE [i \in DOMAIN w |-> <<w[i]>>]
      piece(i) == (IF i = 1 THEN <<>> ELSE <<Space>>) \o word(words[i])
  IN  FlattenSeq([i \in DOMAIN words |-> piece(i)])

Joined(ks) == FoldLeft(LAMBDA w, k : IF w = <<>> THEN k ELSE w \o <<"+">> \o k, <<>>, ks)
TokenWords(k) ==
  CASE k.t = "key"   -> k.keys
    [] k.t = "delay" -> <<k.keys[1] \o <<"m", "s">>>>
    [] k.t = "text"  -> serialize_text(k.keys[1])
    [] k.t = "chord" -> <<FlattenSeq([i \in DOMAIN k.mods |-> <<k.mods[i], "-">>]) \o Joined(k.keys)>>

\* repeat is <<>> or <<timeout, count>>.
Word(w) == Call("word", w)
MacroValue(tokens, repeat) ==
  LET words == FlattenSeq([i \in DOMAIN tokens |-> TokenWords(tokens[i])])
      inner == Call("macro", [i \in DOMAIN words |-> Word(words[i])])
  IN  IF repeat = <<>> THEN inner
      ELSE Call("macro2", <<Atom(repeat[1]), Atom(repeat[2]), inner>>)

\* Words with parentheses, a call inside the macro, are beyond the panel.
Readable(words) == \A i \in DOMAIN words : words[i].fn = "word"
NoMacro == [ok |-> FALSE, tokens |-> <<>>, repeat |-> <<>>]
ParseMacro(v) ==
  LET bare  == v.fn = "macro2" /\ Len(v.args) = 3 /\ v.args[3].fn \in {"macro", "run"}
      inner == IF v.fn = "macro" THEN v.args ELSE v.args[3].args
  IN  IF (v.fn = "macro" \/ bare) /\ Readable(inner)
      THEN [ok |-> TRUE, tokens |-> [i \in DOMAIN inner |-> classify(inner[i].args)],
            repeat |-> IF bare THEN <<v.args[1].name, v.args[2].name>> ELSE <<>>]
      ELSE NoMacro

\* set_macro writes only what reads back and serializes to itself.
Stable(v) == LET m == ParseMacro(v) IN m.ok /\ MacroValue(m.tokens, m.repeat) = v

\* What a macro types: each press with the keys held for it.
Press(m, ks) == [mods |-> m, keys |-> ks]
TypedBy(k) ==
  CASE k.t = "text" ->
         [i \in DOMAIN k.keys[1] |->
            Press(<<>>, <<IF k.keys[1][i] = " " THEN Space ELSE <<k.keys[1][i]>>>>)]
    [] k.t = "delay" -> <<Press(<<"ms">>, k.keys)>>
    [] OTHER -> <<Press(k.mods, k.keys)>>
Typed(tokens) == FlattenSeq([i \in DOMAIN tokens |-> TypedBy(tokens[i])])
=============================================================================
