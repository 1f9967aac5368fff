------------------------------ MODULE DeadMan -------------------------------
(***************************************************************************)
(* What one invocation of keydviz-apply promises the user about the config *)
(* directory (docs/edit-mode-design.md 5.4, README "Two ways to persist"): *)
(* a change stays only if it was confirmed, the files come back if it was  *)
(* not, and what the tool announces is what happened to them.  The one way *)
(* out is the alarm: the tool could not put the files back, and says so,   *)
(* or it was killed.                                                       *)
(***************************************************************************)
CONSTANTS
  Names,    \* names of config files
  Values    \* what a file can hold, no file included

VARIABLES
  disk,     \* the config directory
  trusted,  \* what it held when the current run began
  phase,    \* what became of the run's change
  told      \* what the run announced last

vars == <<disk, trusted, phase, told>>

TypeOK ==
  /\ disk \in [Names -> Values]
  /\ trusted \in [Names -> Values]
  /\ phase \in {"quiet", "open", "kept", "restored", "alarm"}
  /\ told \in {"nothing", "error", "applied", "kept", "reverted", "revert-failed"}

Init ==
  /\ disk \in [Names -> Values]
  /\ trusted = disk
  /\ phase = "quiet"
  /\ told = "nothing"

\* A new run starts from whatever the directory holds.
Begin ==
  /\ phase # "open"
  /\ phase' = "quiet"
  /\ told' = "nothing"
  /\ trusted' = disk
  /\ UNCHANGED disk

Install ==
  /\ phase = "quiet"
  /\ told = "nothing"
  /\ phase' = "open"
  /\ \E n \in Names, v \in Values : disk' = [disk EXCEPT ![n] = v]
  /\ UNCHANGED <<trusted, told>>

Confirm ==
  /\ phase = "open"
  /\ told = "applied"
  /\ phase' = "kept"
  /\ UNCHANGED <<disk, trusted, told>>

Restore ==
  /\ phase = "open"
  /\ phase' = "restored"
  /\ disk' = trusted
  /\ UNCHANGED <<trusted, told>>

Alarm ==
  /\ phase = "open"
  /\ phase' = "alarm"
  /\ UNCHANGED <<disk, trusted, told>>

Announce ==
  /\ \/ phase = "quiet"    /\ told = "nothing" /\ told' = "error"
     \/ phase = "open"     /\ told = "nothing" /\ told' = "applied"
     \/ phase = "kept"     /\ told = "applied" /\ told' = "kept"
     \/ phase = "restored" /\ told \in {"nothing", "applied"} /\ told' = "reverted"
     \/ phase = "alarm"    /\ told \in {"nothing", "applied"}
                           /\ told' = "revert-failed"
  /\ UNCHANGED <<disk, trusted, phase>>

Next == Begin \/ Install \/ Confirm \/ Restore \/ Alarm \/ Announce

Spec == Init /\ [][Next]_vars
=============================================================================
