--------------------------- MODULE MCEditSession ---------------------------
(***************************************************************************)
(* EditSession over three small files: Layers has a layer in two sections, *)
(* a composite and references to layers at both depths; Odd is a CRLF file *)
(* without a final newline, with a label, an option, a value only the text *)
(* field can edit and a chord; Unread is one keyd rejects.  A session may  *)
(* also start from nothing.                                                *)
(***************************************************************************)
EXTENDS EditSession

Of(ls, eol) == [i \in DOMAIN ls |-> Line(ls[i], eol)]
H(parts)    == HeadText(PlainName(parts))
HQ(p, q)    == HeadText([parts |-> <<p>>, qual |-> q, pad |-> FALSE])
B(k, v)     == BindText(<<k>>, v)
On(fn, n)   == Call(fn, <<Atom(n)>>)

Layers == Of(<<H(<<"ids">>), B("*", NoVal),
               H(Main), B("a", Call("lettermod", <<Atom("nav"), Atom("a"), Atom("9")>>)),
               B("b", Call("overloadi", <<Atom("b"), On("layer", "nav"), Atom("9")>>)),
               BlankText,
               H(<<"nav">>), B("a", Atom("x")), LabelText(<<"a">>, "t"), BlankText,
               HQ("nav", "control"), B("a", Atom("esc")), LabelText(<<"a">>, "v"), BlankText,
               H(<<"sym">>), B("b", On("toggle", "nav")), BlankText,
               H(<<"nav", "sym">>), BindText(<<"a", "b">>, Atom("esc"))>>, "lf")

Odd == LET ls == Of(<<Prose("p"), H(<<"global">>), B("o", Atom("x")), H(<<"ids">>), B("*", NoVal),
                      H(Main), LabelText(<<"b">>, "t"), B("b", NoVal),
                      BindText(<<"b", "a">>, Atom("x")), B("a", Atom("x"))>>, "crlf")
       IN  [ls EXCEPT ![Len(ls)].eol = "none"]

Unread == Of(<<B("a", Atom("x")), H(Main)>>, "lf")

\* Instances: what the user types.
MCFiles   == {Layers, Odd, Unread}
MCIds     == <<"*">>
MCValues  == {Atom("noop")}
MCTaps    == {Atom("esc")}
MCChords  == {<<"a", "b">>}
Typing(w) == [tokens |-> <<Text(w)>>, repeat |-> <<>>]
MCDrafts  == {Typing(<<"u", "p", " ", "s">>), Typing(<<"1", "m", "s">>),
              [tokens |-> <<Chord(<<"C">>, << <<"a">> >>), Delay(<<"1">>)>>, repeat |-> <<"2", "2">>]}
=============================================================================
