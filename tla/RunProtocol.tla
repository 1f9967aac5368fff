----------------------------- MODULE RunProtocol -----------------------------
(***************************************************************************)
(* What a run of keydviz-apply looks like from the GUI: the lines `run' of *)
(* apply/src/main.rs writes, in the order it writes them.  It says         *)
(* `applied' at most once and ends with one verdict, unless it dies        *)
(* without one, and only a run whose pipe holds `keep' says `kept'.        *)
(* ApplyTool implements this; ApplyUi is built on it.                      *)
(***************************************************************************)
CONSTANT Runs

VARIABLES
  phase,  \* of run r: "none", "begun", "window" or "ended"
  line,   \* the last line it said
  keep    \* whether its pipe holds a keep

protocolVars == <<phase, line, keep>>

Init ==
  /\ phase = [r \in Runs |-> "none"]
  /\ line = [r \in Runs |-> "nothing"]
  /\ keep = [r \in Runs |-> FALSE]

Enter(r, p) == phase' = [phase EXCEPT ![r] = p]
Says(r, l)  == line' = [line EXCEPT ![r] = l]

Begin(r) ==
  /\ phase[r] = "none"
  /\ Enter(r, "begun")
  /\ UNCHANGED <<line, keep>>

SendKeep(r) ==
  /\ phase[r] # "ended"
  /\ keep' = [keep EXCEPT ![r] = TRUE]
  /\ UNCHANGED <<phase, line>>

\* Nothing was written.
Refused(r) ==
  /\ phase[r] = "begun"
  /\ Enter(r, "ended")
  /\ Says(r, "error")
  /\ UNCHANGED keep

\* The change is live and the window is open.
Applied(r) ==
  /\ phase[r] = "begun"
  /\ Enter(r, "window")
  /\ Says(r, "applied")
  /\ UNCHANGED keep

Kept(r) ==
  /\ phase[r] = "window"
  /\ keep[r]
  /\ Enter(r, "ended")
  /\ Says(r, "kept")
  /\ UNCHANGED keep

\* The window ends without a keep, or keyd did not reload.
Undone(r, l) ==
  /\ phase[r] \in {"begun", "window"}
  /\ l \in {"reverted", "revert-failed"}
  /\ Enter(r, "ended")
  /\ Says(r, l)
  /\ UNCHANGED keep

Dies(r) ==
  /\ phase[r] \in {"begun", "window"}
  /\ Enter(r, "ended")
  /\ UNCHANGED <<line, keep>>

Next ==
  \E r \in Runs :
    \/ Begin(r) \/ SendKeep(r)
    \/ Refused(r) \/ Applied(r) \/ Kept(r)
    \/ \E l \in {"reverted", "revert-failed"} : Undone(r, l)
    \/ Dies(r)

Spec == Init /\ [][Next]_protocolVars
=============================================================================
