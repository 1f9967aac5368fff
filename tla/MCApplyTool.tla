---------------------------- MODULE MCApplyTool -----------------------------
EXTENDS ApplyTool, TLC

CONSTANTS n1, n2, c1, c2, bad, r1, r2

Apply(n, c, k) == [verb |-> "apply", name |-> n, content |-> c, ack |-> k]
Delete(n)      == [verb |-> "delete", name |-> n, content |-> c1, ack |-> FALSE]

\* Both verbs, a config scan wants acknowledged, one keyd check rejects.
RequestsOne == {Apply(n1, c1, TRUE), Apply(n1, c1, FALSE), Apply(n1, bad, FALSE),
                Delete(n1)}

\* Two files, one written and one deleted.
RequestsTwo == {Apply(n1, c1, FALSE), Delete(n2)}

\* One file, two contents.
RequestsOverlap == {Apply(n1, c1, FALSE), Apply(n1, c2, FALSE)}

\* A bound: the GUI keeps or hangs up, no more (tool_live has the rest).
KeepOrHangUp ==
  \A r \in Runs : inbox[r] # "other" /\ (inbox[r] = "none" \/ ~hup[r])

\* A bound: keyd reads the directory when a run has it do so, and not of itself.
NoRestart == at' = at => loaded' = loaded

RunSymmetry == Permutations(Runs)
=============================================================================
