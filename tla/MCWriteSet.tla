----------------------------- MODULE MCWriteSet -----------------------------
EXTENDS WriteSet, TLC

CONSTANTS n1, n2, c1, bad, r1, r2

W(n, c) == [name |-> n, content |-> c]

\* One that goes through; one whose last write is rejected; and one with three
\* entries to undo if n1 was absent, when its last write finds the backup's name
\* taken.
Sets == {<<W(n2, c1)>>,
         <<W(n1, c1), W(n2, bad)>>,
         <<W(n1, c1), W(n1, c1), W(n2, c1), W(n1, c1)>>}

RunSymmetry == Permutations(Runs)
=============================================================================
