------------------------------ MODULE ApplyTool ------------------------------
(***************************************************************************)
(* The privileged tool keydviz-apply: crates/apply/src/main.rs `run' and   *)
(* `revert_and_report', and the dead-man's switch of deadman.rs, over the  *)
(* transactions of ApplyTxn.                                               *)
(*                                                                         *)
(* A run reads one request from its private pipe, validates it, makes the  *)
(* transaction, has keyd reload, and then waits for the line `keep'.  That *)
(* line keeps; a deadline, the end of the pipe or any other line reverts.  *)
(* The other end of the pipe is the GUI: it may send a line or hang up at  *)
(* any time, also before it is asked.                                      *)
(*                                                                         *)
(* keyd is what it has loaded: `reload' and a restart of the daemon make   *)
(* it read the whole directory again.                                      *)
(***************************************************************************)
EXTENDS ApplyTxn

CONSTANTS
  Requests,    \* requests: [verb, name, content, ack], see RequestType
  Sensitive    \* contents in which scan finds command( or macro(

VARIABLES
  at,      \* where run r is in main.rs
  req,     \* its request
  said,    \* the protocol lines it wrote, findings left out
  inbox,   \* the line after the request in its pipe, if any
  hup,     \* the GUI closed its end
  expired, \* the deadline of the window passed
  loaded   \* the configs keyd runs with

pipeVars == <<inbox, hup, expired>>
toolVars == <<at, req, said, pipeVars, loaded>>
vars     == <<txnVars, toolVars>>

RequestType == [verb : {"apply", "delete"}, name : Names,
                content : Contents, ack : BOOLEAN]

ASSUME ToolAssumption ==
  /\ Requests \subseteq RequestType
  /\ Sensitive \subseteq Contents

Places == {"idle", "payload", "txn", "window", "undo", "kept", "exit"}
Lines  == {"error", "applied", "kept", "reverted", "revert-failed"}

NoRequest == [verb |-> "none"]

TypeOK ==
  /\ TxnTypeOK
  /\ at \in [Runs -> Places]
  /\ req \in [Runs -> Requests \union {NoRequest}]
  /\ said \in [Runs -> Seq(Lines)]
  /\ inbox \in [Runs -> {"none", "keep", "other"}]
  /\ hup \in [Runs -> BOOLEAN]
  /\ expired \in [Runs -> BOOLEAN]
  /\ loaded \in [Names -> Values]

Init ==
  /\ TxnInit
  /\ at = [r \in Runs |-> "idle"]
  /\ req = [r \in Runs |-> NoRequest]
  /\ said = [r \in Runs |-> <<>>]
  /\ inbox = [r \in Runs |-> "none"]
  /\ hup = [r \in Runs |-> FALSE]
  /\ expired = [r \in Runs |-> FALSE]
  /\ loaded = live

-----------------------------------------------------------------------------

Running(r) == alive[r] /\ at[r] \notin {"idle", "exit"}
In(r, p)   == alive[r] /\ at[r] = p
Move(r, p) == at' = [at EXCEPT ![r] = p]
Say(r, l)  == said' = [said EXCEPT ![r] = Append(@, l)]

\* The request line was read and named a valid config, keyd was found, the
\* directory opened and the clock read; the payload is still to come.
Start(r, q) ==
  /\ In(r, "idle")
  /\ Concurrent \/ \A s \in Runs : ~Running(s)
  /\ Move(r, "payload")
  /\ req' = [req EXCEPT ![r] = q]
  /\ stamp' = [stamp EXCEPT ![r] = clock]
  /\ latest' = r
  /\ base' = live
  /\ UNCHANGED <<dirVars, clock, faults, runVars, alive, said, pipeVars, loaded>>

\* Everything that ends a run before its transaction and does not depend on
\* the contents: a late or short payload, a length over MAX_CONFIG_BYTES, a
\* `keyd check' that does not accept the known good config.
Refuse(r) ==
  /\ In(r, "payload")
  /\ Move(r, "exit")
  /\ Say(r, "error")
  /\ UNCHANGED <<txnVars, req, pipeVars, loaded>>

\* scan found something that needs_ack and the request does not have it.
RefuseSensitive(r) ==
  /\ In(r, "payload")
  /\ req[r].verb = "apply"
  /\ req[r].content \in Sensitive
  /\ ~req[r].ack
  /\ Move(r, "exit")
  /\ Say(r, "error")
  /\ UNCHANGED <<txnVars, req, pipeVars, loaded>>

Accept(r) ==
  /\ In(r, "payload")
  /\ \/ /\ req[r].verb = "apply"
        /\ req[r].content \in Sensitive => req[r].ack
        /\ BeginApply(r, <<[name |-> req[r].name, content |-> req[r].content]>>,
                      stamp[r])
     \/ /\ req[r].verb = "delete"
        /\ BeginDelete(r, req[r].name, stamp[r])
  /\ Move(r, "txn")
  /\ UNCHANGED <<req, said, pipeVars, loaded>>

\* txn::apply or txn::delete at work.
Transact(r) ==
  /\ In(r, "txn")
  /\ TxnWork(r)
  /\ UNCHANGED toolVars

\* It returned an error: `?' out of run, and main refuses.
TxnFailed(r) ==
  /\ In(r, "txn")
  /\ step[r] = "failed"
  /\ Move(r, "exit")
  /\ Say(r, "error")
  /\ UNCHANGED <<txnVars, req, pipeVars, loaded>>

\* It returned the transaction: keyd reloads and the window opens.
Reload(r) ==
  /\ In(r, "txn")
  /\ step[r] = "open"
  /\ loaded' = live
  /\ Move(r, "window")
  /\ Say(r, "applied")
  /\ UNCHANGED <<txnVars, req, pipeVars>>

\* Mutant: a failed reload is an error like any other, `keyd_reload()?'.
ReloadFails_Error(r) ==
  /\ In(r, "txn")
  /\ step[r] = "open"
  /\ Move(r, "exit")
  /\ Say(r, "error")
  /\ UNCHANGED <<txnVars, req, pipeVars, loaded>>

ReloadFails(r) ==
  /\ In(r, "txn")
  /\ Revert(r)
  /\ Move(r, "undo")
  /\ UNCHANGED <<req, said, pipeVars, loaded>>

\* Mutant: any line keeps.
WindowKeep_AnyLine(r) ==
  /\ In(r, "window")
  /\ inbox[r] # "none"
  /\ Keep(r)
  /\ Move(r, "kept")
  /\ UNCHANGED <<req, said, pipeVars, loaded>>

\* await_keep returned Verdict::Keep: poll found the line before the deadline.
WindowKeep(r) ==
  /\ In(r, "window")
  /\ inbox[r] = "keep"
  /\ Keep(r)
  /\ Move(r, "kept")
  /\ UNCHANGED <<req, said, pipeVars, loaded>>

\* Mutant: there is no deadline.
WindowRevert_NoDeadline(r) ==
  /\ In(r, "window")
  /\ (hup[r] /\ inbox[r] = "none") \/ inbox[r] = "other"
  /\ Revert(r)
  /\ Move(r, "undo")
  /\ UNCHANGED <<req, said, pipeVars, loaded>>

\* TimedOut, Eof or Refused.  The end of the pipe is seen after the line in it.
WindowRevert(r) ==
  /\ In(r, "window")
  /\ \/ expired[r]
     \/ hup[r] /\ inbox[r] = "none"
     \/ inbox[r] = "other"
  /\ Revert(r)
  /\ Move(r, "undo")
  /\ UNCHANGED <<req, said, pipeVars, loaded>>

\* prune_backups
PruneKept(r) ==
  /\ In(r, "kept")
  /\ Prune(r, req[r].name)
  /\ UNCHANGED toolVars

SayKept(r) ==
  /\ In(r, "kept")
  /\ step[r] = "pruned"
  /\ Move(r, "exit")
  /\ Say(r, "kept")
  /\ UNCHANGED <<txnVars, req, pipeVars, loaded>>

\* revert_and_report: txn.revert()
UndoTxn(r) ==
  /\ In(r, "undo")
  /\ TxnWork(r)
  /\ UNCHANGED toolVars

\* Reverted, then a best-effort reload.
SayReverted(r) ==
  /\ In(r, "undo")
  /\ step[r] = "reverted"
  /\ loaded' \in {live, loaded}
  /\ Move(r, "exit")
  /\ Say(r, "reverted")
  /\ UNCHANGED <<txnVars, req, pipeVars>>

\* The revert failed: no reload.  The transaction is then dropped.
SayRevertFailed(r) ==
  /\ In(r, "undo")
  /\ DropRest(r)
  /\ Move(r, "exit")
  /\ Say(r, "revert-failed")
  /\ UNCHANGED <<req, pipeVars, loaded>>

DropTxn(r) ==
  /\ In(r, "exit")
  /\ step[r] = "drop"
  /\ TxnWork(r)
  /\ UNCHANGED toolVars

\* The process is killed in the middle of its work.
Kill(r) ==
  /\ Running(r)
  /\ alive' = [alive EXCEPT ![r] = FALSE]
  /\ UNCHANGED <<dirVars, clock, faults, runVars, stamp, histVars, toolVars>>

-----------------------------------------------------------------------------
(* The GUI's end of the pipe, keyd and time.                               *)

SendLine(r, l) ==
  /\ Running(r)
  /\ ~hup[r]
  /\ inbox[r] = "none"
  /\ inbox' = [inbox EXCEPT ![r] = l]
  /\ UNCHANGED <<txnVars, at, req, said, hup, expired, loaded>>

HangUp(r) ==
  /\ Running(r)
  /\ ~hup[r]
  /\ hup' = [hup EXCEPT ![r] = TRUE]
  /\ UNCHANGED <<txnVars, at, req, said, inbox, expired, loaded>>

Expire(r) ==
  /\ In(r, "window")
  /\ ~expired[r]
  /\ expired' = [expired EXCEPT ![r] = TRUE]
  /\ UNCHANGED <<txnVars, at, req, said, inbox, hup, loaded>>

KeydRestart ==
  /\ loaded # live
  /\ loaded' = live
  /\ UNCHANGED <<txnVars, at, req, said, pipeVars>>

Step(r) ==
  \/ Refuse(r) \/ RefuseSensitive(r) \/ Accept(r)
  \/ Transact(r) \/ TxnFailed(r) \/ Reload(r) \/ ReloadFails(r)
  \/ WindowKeep(r) \/ WindowRevert(r)
  \/ PruneKept(r) \/ SayKept(r)
  \/ UndoTxn(r) \/ SayReverted(r) \/ SayRevertFailed(r) \/ DropTxn(r)

Next ==
  \/ \E r \in Runs :
       \/ \E q \in Requests : Start(r, q)
       \/ Step(r)
       \/ Kill(r)
       \/ \E l \in {"keep", "other"} : SendLine(r, l)
       \/ HangUp(r)
       \/ Expire(r)
  \/ KeydRestart
  \/ Tick /\ UNCHANGED toolVars

Spec == Init /\ [][Next]_vars

\* A process that can go on does, time passes in the window, and the keyd
\* commands the tool waits for end.
FairSpec == Spec /\ \A r \in Runs : WF_vars(Step(r)) /\ WF_vars(Expire(r))

-----------------------------------------------------------------------------
(* Properties of one run at a time, `latest'.                              *)

Exited(r, line) ==
  alive[r] /\ at[r] = "exit" /\ said[r][Len(said[r])] = line

Wanted(r) ==
  [base EXCEPT ![req[r].name] =
     IF req[r].verb = "delete" THEN Absent ELSE req[r].content]

\* "error <reason>: refused; exits 2, nothing written" (main.rs, Protocol).
ErrorWroteNothing ==
  latest # NoRun => (Exited(latest, "error") => live = base)

\* "Only clicking KEEP makes the change permanent" (README): when a run is
\* over and the directory differs from what it found, the user said keep, or
\* the run ended with the alarm.
OnlyKeepStays ==
  latest # NoRun =>
    (alive[latest] /\ at[latest] = "exit" /\ live # base
       => \/ inbox[latest] = "keep" /\ Exited(latest, "kept")
          \/ Exited(latest, "revert-failed"))

\* What each verdict says of the files is so.
VerdictIsTrue ==
  latest # NoRun =>
    /\ Exited(latest, "kept") => live = Wanted(latest)
    /\ Exited(latest, "reverted") => live = base
    /\ Exited(latest, "revert-failed") => live = Wanted(latest)

\* The config the user confirmed is the one keyd runs: what was tried out in
\* the window is what stays.
KeptIsLoaded ==
  latest # NoRun => (Exited(latest, "kept") => loaded = live)

\* The line a run ends with can be trusted: error, kept, reverted and
\* revert-failed each say what the directory, keyd and the user did.
EndingsAreTrue == ErrorWroteNothing /\ OnlyKeepStays /\ VerdictIsTrue /\ KeptIsLoaded

\* What is left of that on a disk where a rename or an unlink may go through
\* and be reported as an error: kept and reverted are true; after an error and
\* after the alarm the files are what the run found or what it was to install.
EndingsOnAnyDisk ==
  latest # NoRun =>
    /\ Exited(latest, "kept") =>
         live = Wanted(latest) /\ loaded = live /\ inbox[latest] = "keep"
    /\ Exited(latest, "reverted") => live = base
    /\ Exited(latest, "error") \/ Exited(latest, "revert-failed") =>
         live \in {base, Wanted(latest)}

\* Every run ends: no read and no client can hold the tool.
RunsEnd == \A r \in Runs : Running(r) ~> ~Running(r)

\* A GUI that is gone without a keep gets its files back, unless the tool is
\* killed as well or says that it failed.
HangUpReverts ==
  \A r \in Runs :
    (hup[r] /\ inbox[r] # "keep" /\ latest = r)
      ~> \/ live = base
         \/ ~alive[r]
         \/ latest # r
         \/ Exited(r, "revert-failed")

\* A `keep' that is in the pipe of an open window is obeyed, also when the GUI
\* went away behind it: only the deadline or a kill can cost it.
KeepIsObeyed ==
  \A r \in Runs :
    (at[r] = "window" /\ inbox[r] = "keep")
      ~> Exited(r, "kept") \/ expired[r] \/ ~alive[r]

\* The dead man's switch: the run ends, without a keep with the old files, and
\* with one with the new.
RunsEndSafely == RunsEnd /\ HangUpReverts /\ KeepIsObeyed

\* The tool keeps the promise of DeadMan.
Phase(r) ==
  CASE step[r] \in {"kept", "pruned"} -> "kept"
    [] step[r] \in {"stuck", "drop"} -> "alarm"
    [] step[r] = "failed" /\ said[r] \notin {<<>>, <<"error">>} -> "alarm"
    [] step[r] = "reverted" -> "restored"
    [] step[r] = "revert" /\ applied[r] = <<>> -> "restored"
    [] step[r] \in {"open", "revert"} /\ applied[r] # <<>> ->
         IF alive[r] THEN "open" ELSE "alarm"
    [] OTHER -> "quiet"

Outcome == IF latest = NoRun THEN "quiet" ELSE Phase(latest)
LastLine(r) == IF said[r] = <<>> THEN "nothing" ELSE said[r][Len(said[r])]
Announced == IF latest = NoRun THEN "nothing" ELSE LastLine(latest)

Promise == INSTANCE DeadMan WITH
  disk <- live, trusted <- base, phase <- Outcome, told <- Announced

KeepsPromise == Promise!Spec

\* The GUI sees a run of RunProtocol, whatever other runs there are.
SeenPhase(r) ==
  IF at[r] = "idle" THEN "none"
  ELSE IF at[r] = "exit" \/ ~alive[r] THEN "ended"
  ELSE IF said[r] = <<>> THEN "begun" ELSE "window"

Seen == INSTANCE RunProtocol WITH
  phase <- [r \in Runs |-> SeenPhase(r)],
  line <- [r \in Runs |-> LastLine(r)],
  keep <- [r \in Runs |-> inbox[r] = "keep"]

KeepsProtocol == Seen!Spec

-----------------------------------------------------------------------------
(* The inductive invariant.                                                *)

Op(r)  == [name |-> req[r].name,
           content |-> IF req[r].verb = "delete" THEN Absent ELSE req[r].content]
Own(r) == [name |-> req[r].name, prior |-> prior[r]]

\* Where main.rs and the transaction are, together with what was said, and
\* which write and which undo entry the transaction has at that point.
Control(r) ==
  /\ at[r] = "idle" => step[r] = "idle" /\ said[r] = <<>>
  /\ at[r] # "idle" => req[r] \in Requests
  /\ at[r] = "payload" => step[r] = "idle" /\ said[r] = <<>>
  /\ at[r] = "txn" =>
       /\ step[r] \in {"read", "tmp", "check", "backup", "rename", "dread",
                       "dbackup", "unlink", "open", "abort", "failed"}
       /\ said[r] = <<>>
  /\ at[r] = "window" => step[r] = "open" /\ said[r] = <<"applied">>
  /\ at[r] = "undo" =>
       /\ step[r] \in {"revert", "reverted", "stuck"}
       /\ said[r] \in {<<>>, <<"applied">>}
  /\ at[r] = "kept" =>
       /\ step[r] \in {"kept", "pruned"}
       /\ said[r] = <<"applied">>
       /\ inbox[r] = "keep"
  /\ at[r] = "exit" =>
       \/ step[r] \in {"idle", "failed"} /\ said[r] = <<"error">>
       \/ /\ step[r] = "pruned"
          /\ said[r] = <<"applied", "kept">>
          /\ inbox[r] = "keep"
       \/ /\ step[r] = "reverted"
          /\ said[r] \in {<<"reverted">>, <<"applied", "reverted">>}
       \/ /\ step[r] \in {"drop", "failed"}
          /\ said[r] \in {<<"revert-failed">>, <<"applied", "revert-failed">>}
  /\ step[r] \in {"read", "tmp", "check", "backup", "rename"} =>
       req[r].verb = "apply" /\ todo[r] = <<Op(r)>>
  /\ step[r] \in {"dread", "dbackup", "unlink"} =>
       req[r].verb = "delete" /\ todo[r] = <<Op(r)>>
  /\ step[r] \in {"dbackup", "unlink"} => prior[r] # Absent
  /\ step[r] = "open" => applied[r] = <<Own(r)>>
  /\ step[r] = "revert" => applied[r] \in {<<>>, <<Own(r)>>}
  /\ step[r] \notin {"open", "revert"} => applied[r] = <<>>

ControlInv == TypeOK /\ \A r \in Runs : Control(r)

\* The directory is v, or an error hides that the change, or its undo, is there.
Unsure(r, v) == live = v \/ (UnsyncedIO /\ live \in {base, Wanted(r)})

\* What the directory and keyd hold at each point of run r, when no other run
\* is at work.
Directory(r) ==
  /\ step[r] \in {"idle", "read", "tmp", "check", "backup", "rename", "dread",
                  "dbackup", "unlink", "reverted"} => live = base
  /\ step[r] = "abort" => Unsure(r, base)
  /\ step[r] = "failed" /\ said[r] \in {<<>>, <<"error">>} => Unsure(r, base)
  /\ step[r] = "failed" /\ said[r] \notin {<<>>, <<"error">>} => Unsure(r, Wanted(r))
  /\ step[r] \in {"stuck", "drop"} => Unsure(r, Wanted(r))
  /\ step[r] \in {"tmp", "check", "backup", "rename", "dbackup", "unlink",
                  "open", "revert"} => prior[r] = base[req[r].name]
  /\ step[r] \in {"open", "kept", "pruned"} => live = Wanted(r)
  /\ step[r] = "revert" => live = (IF applied[r] = <<>> THEN base ELSE Wanted(r))
  /\ at[r] \in {"window", "kept"} => loaded = live
  /\ at[r] = "exit" /\ step[r] = "pruned" => loaded = live

Solo ==
  /\ \A r \in Runs : r # latest => ~Running(r)
  /\ latest = NoRun => \A r \in Runs : at[r] = "idle"
  /\ latest # NoRun => at[latest] # "idle" /\ Directory(latest)

SafetyInv == ControlInv /\ Solo

\* The backup of run r: there is none before its turn, and then only this one.
OwnBak(r) == [name |-> req[r].name, stamp |-> stamp[r], run |-> r, bytes |-> prior[r]]

Backups(r) ==
  /\ step[r] \in {"idle", "read", "tmp", "check", "backup", "dread", "dbackup"} =>
       \A b \in baks : b.run # r
  /\ step[r] \in {"rename", "unlink", "open", "kept"} =>
       \A b \in baks : b.run = r => b = OwnBak(r)

\* From the moment before the change on, it holds what run r found; the prune
\* that ends a keep may take it only for one as new.
Saved(r) ==
  /\ \/ step[r] \in {"rename", "unlink", "open", "revert", "stuck", "drop", "kept"}
     \/ step[r] = "failed" /\ said[r] \notin {<<>>, <<"error">>}
     => /\ prior[r] = base[req[r].name]
        /\ prior[r] # Absent => OwnBak(r) \in baks
  /\ step[r] = "pruned" =>
       /\ prior[r] = base[req[r].name]
       /\ prior[r] # Absent => OwnBak(r) \in baks \/ TiedPrune(r)

BackupInv ==
  /\ IsFiniteSet(baks)
  /\ \A r \in Runs : Backups(r)
  /\ latest # NoRun => Saved(latest)

-----------------------------------------------------------------------------
(* Properties of runs side by side.                                        *)

Alone(r) == \A s \in Runs \ {r} :
              at[s] # "idle" => req[s].name # req[r].name

\* A delete that was reported as an error.
LostDelete(r) ==
  req[r].verb = "delete" /\ step[r] = "failed" /\ said[r] \in {<<>>, <<"error">>}

\* The bytes run r found are in a backup of its file.
BackedUp(r) == \E b \in baks : b.name = req[r].name /\ b.bytes = prior[r]

\* They are in the file, or the change is and they are in a backup.  The one
\* exception is a delete whose unlink went through without its fsync: it drops
\* the backup.
OldBytes(r) ==
  LET n == req[r].name
  IN \/ live[n] = prior[r]
     \/ /\ live[n] = Op(r).content
        /\ BackedUp(r) \/ (UnsyncedIO /\ LostDelete(r))

\* Which backups there are, at every moment of runs that overlap.
Stock ==
  /\ IsFiniteSet(baks)
  /\ \A b \in baks : /\ b.run \in Runs
                     /\ at[b.run] # "idle"
                     /\ b.name = req[b.run].name
  /\ \A r \in Runs : Backups(r)

\* What the file of run r and its backup are at each point of r, when no other
\* run has ever been on that file.
Mine(r) ==
  LET n == req[r].name
  IN /\ step[r] \in {"idle", "read", "dread"} => prior[r] = Absent
     /\ step[r] \in {"tmp", "check", "backup", "rename", "dbackup", "unlink",
                      "reverted"} => live[n] = prior[r]
     /\ step[r] = "revert" =>
          live[n] = (IF applied[r] = <<>> THEN prior[r] ELSE Op(r).content)
     /\ step[r] \in {"open", "kept", "pruned"} => live[n] = Op(r).content
     /\ step[r] \in {"rename", "unlink", "open", "revert", "kept", "pruned"}
          /\ prior[r] # Absent => BackedUp(r)
     /\ step[r] \in {"abort", "stuck", "drop", "failed"} /\ prior[r] # Absent
          => OldBytes(r)

Side == \A r \in Runs : /\ at[r] = "idle" => prior[r] = Absent
                        /\ at[r] # "idle" /\ Alone(r) => Mine(r)

\* Runs on different configs do not disturb each other: each one's verdict is
\* true of its own file, whatever the others do, and while its window is open
\* the file it replaced is in a backup.
ParallelRuns ==
  \A r \in Runs :
    at[r] # "idle" /\ Alone(r) =>
      LET n == req[r].name
      IN /\ Exited(r, "reverted") => live[n] = prior[r]
         /\ Exited(r, "kept") =>
              live[n] = (IF req[r].verb = "delete" THEN Absent ELSE req[r].content)
         /\ at[r] = "window" /\ prior[r] # Absent =>
              \E b \in baks : b.name = n /\ b.bytes = prior[r]

\* No bytes are lost, whatever fails and whoever else is at work: a file that
\* holds something else than its run found holds what the run was to install,
\* and the old bytes are in a backup.  This is so while the run works, after a
\* kill, an error, a failed revert, and a keep with its prune.
OldBytesStay ==
  \A r \in Runs :
    at[r] # "idle" /\ Alone(r) /\ prior[r] # Absent => OldBytes(r)

\* "kept: the change is permanent" (ApplyEvent::Kept): only the installation
\* of another change takes the place of kept content, never a revert.
KeptIsPermanent ==
  [][\A r \in Runs :
       Exited(r, "kept") /\ req[r].verb = "apply" /\ live[req[r].name] = req[r].content
         => \/ live'[req[r].name] = req[r].content
            \/ \E s \in Runs : step[s] \in {"rename", "unlink"} /\ step'[s] # step[s]
    ]_vars

=============================================================================
