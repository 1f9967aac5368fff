---------------------------- MODULE MCBoardWatch ---------------------------
(***************************************************************************)
(* BoardWatch over a keyboard with two event nodes, a second keyboard and  *)
(* a lid switch; a specific config, a wildcard one and room for a third.   *)
(***************************************************************************)
EXTENDS BoardWatch

Dev(id, name, caps) == [id |-> id, name |-> name, full |-> "full" \in caps, flags |-> FlagsOf(caps)]
K1 == <<"04fe", "0021">>
K2 == <<"04fe", "0a0a">>
MCDevices == <<Dev(K1, "one", {"full", "any"}), Dev(K1, "one media", {"media", "rel"}),
               Dev(K2, "two", {"full", "any"}),
               Dev(<<"0000", "0006">>, "lid", {"any"})>>

L(mark, pattern) == [mark |-> mark, pattern |-> pattern]
One    == <<L("", K1)>>
Vendor == <<L("-", K2), L("k:", <<"04fe">>)>>
All    == <<L("*", <<"*">>)>>
Uid    == <<L("", <<"04fe", "0a0a", "beef">>)>>
Cfg(ids, body) == [ids |-> ids, body |-> body]

MCPaths    == <<"a", "b", "c">>
File(c)    == [cfg |-> c, mtime |-> 0, readable |-> TRUE]
\* mtime 0 stands for a file older than the window, Missing is no file.
Disk(a, b) == [p \in {"a", "b", "c"} |-> IF p = "a" THEN File(a)
                                         ELSE IF p = "b" THEN File(b) ELSE Missing]
MCContents == {Cfg(Vendor, "x"), Cfg(All, "x")}
MCUids     == {Cfg(Uid, "x")}
MCDisks    == {Disk(Cfg(All, "x"), Cfg(One, "x"))}
MCDevs     == {{4}}
=============================================================================
