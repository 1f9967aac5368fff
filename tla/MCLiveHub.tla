----------------------------- MODULE MCLiveHub -----------------------------
(***************************************************************************)
(* LiveHub on small instances: one or two layers, at most one key, one or  *)
(* two GUIs, sockets that hold two events.                                 *)
(***************************************************************************)
EXTENDS LiveHub

GuiSymmetry == Permutations(Guis)

=============================================================================
