------------------------------- MODULE Lists -------------------------------
(***************************************************************************)
(* What the modules over lists of anything share.                          *)
(***************************************************************************)
EXTENDS SequencesExt

\* The elements of s that are in S, in their order: Iterator::filter.  The
\* selections that the proofs follow are written with it, since the proof
\* system knows nothing of SelectSeq.
Among(s, S) == FoldLeft(LAMBDA kept, x : IF x \in S THEN Append(kept, x) ELSE kept, <<>>, s)
=============================================================================
