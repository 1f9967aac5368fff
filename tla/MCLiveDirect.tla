---------------------------- MODULE MCLiveDirect ----------------------------
(* LiveDirect with two layers and one key.                                 *)
EXTENDS LiveDirect

=============================================================================
