----------------------------- MODULE MCKeyGlow -----------------------------
(***************************************************************************)
(* KeyGlow with two keyboards that have sheets of their own and one that   *)
(* has none, keyd's virtual keyboard.                                      *)
(***************************************************************************)
EXTENDS KeyGlow

CONSTANTS kb0, kb1, sheet0, sheet1

MCSheetOf == [b \in {kb0, kb1} |-> IF b = kb0 THEN sheet0 ELSE sheet1]

=============================================================================
