---------------------------- MODULE MCEditPanel ----------------------------
(***************************************************************************)
(* EditPanel over one file: a macro and a label in [main], a chord that    *)
(* points at the second layer; one whose only board is a layer; and a new  *)
(* config.                                                                 *)
(***************************************************************************)
EXTENDS EditPanel

B(k, v) == BindText(<<k>>, v)
H(n)    == HeadText(PlainName(<<n>>))
Of(ls)  == [i \in DOMAIN ls |-> Line(ls[i], "lf")]

Layers   == Of(<<H("ids"), B("*", NoVal),
                  H("main"), LabelText(<<"a">>, "t"),
                  B("a", Call("macro", <<Word(<<"a">>), Word(<<"a">>)>>)),
                  BindText(<<"a", "b">>, Call("layer", <<Atom("nav")>>)), BlankText,
                  H("nav"), B("a", Call("lettermod", <<Atom("nav"), Atom("a"), Atom("9")>>))>>)
NoMain   == Of(<<H("ids"), B("*", NoVal), H("nav")>>)
MCFiles  == {Layers, NoMain}
MCIds    == <<"*">>
MCValues == {Atom("esc")}
MCRepeat == {<<"2", "2">>}
MCSteps  == {Key(<<"a">>)}
=============================================================================
