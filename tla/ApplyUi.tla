------------------------------- MODULE ApplyUi -------------------------------
(***************************************************************************)
(* One-click apply in the GUI: apply_ctx.rs, the transport of applying.rs  *)
(* and the edit-mode callbacks of main.rs and edit_ui.rs around them.      *)
(*                                                                         *)
(* Every callback and every event of a run is handled whole, on the UI     *)
(* thread.  Beside it, each run has a background thread, which writes the  *)
(* request under the mutex of the pipe and then pumps the tool's lines     *)
(* into the event loop, pkexec with its password dialog, and the tool,     *)
(* which is that of RunProtocol.  An event does not carry its run: the UI  *)
(* has one handle, one dialog and one state for whatever comes.            *)
(*                                                                         *)
(* A config file is the set of the user's edits it contains.               *)
(***************************************************************************)
EXTENDS Sequences, FiniteSets

CONSTANTS
  Files, Edits,
  Installed,   \* the files that are there at the start
  Runs,
  Absent, NoFile, NoRun, NoSession, NoRequest,
  Uses         \* what the user does, beyond opening, editing and applying

ASSUME UiAssumption ==
  /\ Installed \subseteq Files
  /\ Uses \subseteq {"create", "delete", "restore", "restore over edits",
                     "switch", "discard in flight"}

VARIABLES
  phase, line, keep,  \* the tool, see RunProtocol
  req,      \* what run r was launched for
  pkexec,   \* its password dialog: "none", "asking", "passed" or "denied"
  writer,   \* its thread's write: "none", "new", "writing" under the lock, "done"
  pipe,     \* what the tool reads first: "empty", "request" or "garbage"
  hup,      \* stdin was taken out of the mutex and dropped
  out,      \* lines not yet handled on the UI thread
  disk,     \* the edits in each config, or Absent
  prior,    \* what run r replaced
  session,  \* the edit session
  boards, shown,       \* srcs and the sheet of active_index
  asked, going,        \* discard_prompt, and the keyboard to show after it
  state,    \* ApplyState
  pending,  \* Pending
  handle,   \* ctx.run
  dialog,   \* the run whose `applied' opened the dialog
  flow,     \* the button that began the last flow
  tried     \* runs whose own dialog had a click on KEEP

protocolVars == <<phase, line, keep>>
threadVars   == <<pkexec, writer, pipe, out>>
diskVars     == <<disk, prior>>
editVars     == <<session, boards, shown, asked, going>>
applyVars    == <<state, pending, handle, dialog>>
histVars     == <<flow, tried>>
vars == <<protocolVars, req, threadVars, hup, diskVars, editVars, applyVars, histVars>>

Tool == INSTANCE RunProtocol

States  == {"idle", "confirm", "auth", "countdown",
            "kept", "reverted", "failed", "revert-failed"}
Events  == {"applied", "kept", "reverted", "revert-failed", "error", "denied", "failed"}
Content == (SUBSET Edits) \union {Absent}

Request == [op : {"apply", "restore", "delete"}, want : {"apply", "restore", "delete"},
            file : Files, bytes : Content, big : BOOLEAN]
Session == [file : Files, new : BOOLEAN, base : SUBSET Edits, edits : SUBSET Edits]

\* The values that stand for nothing are not something.
ASSUME NothingAssumption ==
  /\ NoRun \notin Runs /\ NoFile \notin Files /\ \A s \in SUBSET Edits : s # Absent
  /\ NoRequest \notin Request /\ NoSession \notin Session

TypeOK ==
  /\ phase \in [Runs -> {"none", "begun", "window", "ended"}]
  /\ line \in [Runs -> Events \union {"nothing"}]
  /\ keep \in [Runs -> BOOLEAN]
  /\ req \in [Runs -> Request \union {NoRequest}]
  /\ pkexec \in [Runs -> {"none", "asking", "passed", "denied"}]
  /\ writer \in [Runs -> {"none", "new", "writing", "done"}]
  /\ pipe \in [Runs -> {"empty", "request", "garbage"}]
  /\ hup \in [Runs -> BOOLEAN]
  /\ out \in [Runs -> Seq(Events)]
  /\ disk \in [Files -> Content]
  /\ prior \in [Runs -> Content]
  /\ session \in Session \union {NoSession}
  /\ boards \subseteq Files
  /\ shown \in boards \union {NoFile}
  /\ asked \in BOOLEAN /\ going \in Files \union {NoFile}
  /\ state \in States
  /\ pending \in {"session", "restore", "delete"}
  /\ {handle, dialog} \subseteq Runs \union {NoRun}
  /\ flow \in {"none", "apply", "restore", "delete"}
  /\ tried \subseteq Runs

Init ==
  /\ Tool!Init
  /\ req = [r \in Runs |-> NoRequest]
  /\ pkexec = [r \in Runs |-> "none"]
  /\ writer = [r \in Runs |-> "none"]
  /\ pipe = [r \in Runs |-> "empty"]
  /\ hup = [r \in Runs |-> FALSE]
  /\ out = [r \in Runs |-> <<>>]
  /\ disk = [f \in Files |-> IF f \in Installed THEN {} ELSE Absent]
  /\ prior = [r \in Runs |-> Absent]
  /\ session = NoSession
  /\ boards = Installed
  /\ shown \in Installed
  /\ asked = FALSE /\ going = NoFile
  /\ state = "idle" /\ pending = "session" /\ handle = NoRun /\ dialog = NoRun
  /\ flow = "none" /\ tried = {}

-----------------------------------------------------------------------------
(* The background thread of a run and pkexec.                              *)

Post(r, l) == out' = [out EXCEPT ![r] = Append(@, l)]

\* The thread locks the mutex; the handle may have emptied it.
TakeLock(r) ==
  /\ writer[r] = "new"
  /\ writer' = [writer EXCEPT ![r] = IF hup[r] THEN "done" ELSE "writing"]
  /\ UNCHANGED <<protocolVars, req, pkexec, pipe, out, hup, diskVars, editVars,
                 applyVars, histVars>>

\* A request that fills the pipe waits for a reader, or for there to be none.
FinishWrite(r) ==
  /\ writer[r] = "writing"
  /\ req[r].big => phase[r] # "none" \/ pkexec[r] = "denied"
  /\ writer' = [writer EXCEPT ![r] = "done"]
  /\ pipe' = [pipe EXCEPT ![r] = IF @ = "empty" THEN "request" ELSE @]
  /\ UNCHANGED <<protocolVars, req, pkexec, out, hup, diskVars, editVars,
                 applyVars, histVars>>

\* The user authenticates and pkexec becomes the tool.
Authorize(r) ==
  /\ pkexec[r] = "asking"
  /\ pkexec' = [pkexec EXCEPT ![r] = "passed"]
  /\ Tool!Begin(r)
  /\ UNCHANGED <<req, writer, pipe, out, hup, diskVars, editVars, applyVars, histVars>>

\* Exit 126 or 127.
Deny(r) ==
  /\ pkexec[r] = "asking"
  /\ pkexec' = [pkexec EXCEPT ![r] = "denied"]
  /\ Post(r, "denied")
  /\ UNCHANGED <<protocolVars, req, writer, pipe, hup, diskVars, editVars,
                 applyVars, histVars>>

-----------------------------------------------------------------------------
(* The tool, see ApplyTool.  Without a whole request it can only refuse.   *)

ToolRest == <<req, pkexec, writer, pipe, hup, editVars, applyVars, histVars>>

Writes(r) == pipe[r] = "request" /\ (req[r].op = "delete" => disk[req[r].file] # Absent)
Change(r) == [disk EXCEPT ![req[r].file] = req[r].bytes]

RunRefuses(r) ==
  /\ Tool!Refused(r)
  /\ Post(r, "error")
  /\ UNCHANGED <<ToolRest, diskVars>>

RunApplies(r) ==
  /\ Writes(r)
  /\ Tool!Applied(r)
  /\ prior' = [prior EXCEPT ![r] = disk[req[r].file]]
  /\ disk' = Change(r)
  /\ Post(r, "applied")
  /\ UNCHANGED ToolRest

RunKeeps(r) ==
  /\ Tool!Kept(r)
  /\ Post(r, "kept")
  /\ UNCHANGED <<ToolRest, diskVars>>

RunReverts(r) ==
  /\ phase[r] = "window" \/ Writes(r)
  /\ Tool!Undone(r, "reverted")
  /\ disk' = IF phase[r] = "window"
             THEN [disk EXCEPT ![req[r].file] = prior[r]] ELSE disk
  /\ Post(r, "reverted")
  /\ UNCHANGED <<ToolRest, prior>>

RunCannotRevert(r) ==
  /\ phase[r] = "window" \/ Writes(r)
  /\ Tool!Undone(r, "revert-failed")
  /\ disk' = IF phase[r] = "window" THEN disk ELSE Change(r)
  /\ Post(r, "revert-failed")
  /\ UNCHANGED <<ToolRest, prior>>

\* Killed, before or after it made the change.
RunDies(r) ==
  /\ Tool!Dies(r)
  /\ disk' \in {disk} \union
       (IF phase[r] = "begun" /\ Writes(r) THEN {Change(r)} ELSE {})
  /\ Post(r, "failed")
  /\ UNCHANGED <<ToolRest, prior>>

-----------------------------------------------------------------------------
(* What callbacks share.                                                   *)

Busy  == state \in {"confirm", "auth", "countdown"}
Dirty == session # NoSession /\ (session.new \/ session.edits # {})

\* ApplyHandle::revert: try_lock, and nothing if the writer has the mutex.
RevertRun ==
  hup' = IF handle = NoRun THEN hup
         ELSE [hup EXCEPT ![handle] = @ \/ writer[handle] # "writing"]

RunsRest == <<protocolVars, req, threadVars, diskVars>>

\* Drop a board and keep the active index in range.
DropBoard(f) ==
  /\ boards' = boards \ {f}
  /\ shown' \in IF boards' = {} THEN {NoFile} ELSE boards'

ShowAfter(f) ==
  IF f \in boards' THEN shown' = f ELSE UNCHANGED shown

Phantom == session.new /\ disk[session.file] = Absent

\* Mutant: a phantom is left alone.
ExitEdit_KeepsPhantom(k) ==
  /\ session' = NoSession
  /\ RevertRun
  /\ handle' = NoRun /\ pending' = "session" /\ dialog' = NoRun
  /\ state' = "idle"
  /\ asked' = FALSE /\ going' = NoFile
  /\ UNCHANGED boards
  /\ ShowAfter(k)
  /\ UNCHANGED <<RunsRest, histVars>>

\* exit_edit, with teardown_apply in it, and then switch_keyboard to k if
\* that is where the user was going.
ExitEdit(k) ==
  /\ session' = NoSession
  /\ RevertRun
  /\ handle' = NoRun /\ pending' = "session" /\ dialog' = NoRun
  /\ state' = "idle"
  /\ asked' = FALSE /\ going' = NoFile
  /\ \/ /\ Phantom
        /\ boards' = boards \ {session.file}
        /\ IF k \in boards' THEN shown' = k
           ELSE shown' \in IF boards' = {} THEN {NoFile} ELSE boards'
     \/ /\ ~Phantom
        /\ UNCHANGED boards
        /\ ShowAfter(k)
  /\ UNCHANGED <<RunsRest, histVars>>

Ask(k) ==
  /\ asked' = TRUE /\ going' = k
  /\ UNCHANGED <<RunsRest, hup, session, boards, shown, applyVars, histVars>>

\* enter_edit_session resets the apply properties of the window, not ApplyCtx.
Enter(f, new, base) ==
  /\ session' = [file |-> f, new |-> new, base |-> base, edits |-> {}]
  /\ state' = "idle"
  /\ UNCHANGED <<RunsRest, hup, asked, going, pending, handle, dialog, histVars>>

-----------------------------------------------------------------------------
(* Edit mode.                                                              *)

OpenEdit ==
  /\ session = NoSession
  /\ shown # NoFile /\ disk[shown] # Absent
  /\ Enter(shown, FALSE, disk[shown])
  /\ UNCHANGED <<boards, shown>>

CreateConfig(f) ==
  /\ "create" \in Uses
  /\ session = NoSession
  /\ disk[f] = Absent
  /\ boards' = boards \union {f} /\ shown' = f
  /\ Enter(f, TRUE, {})

\* The edit toggle or, with a keyboard k, the chooser.
LeaveEdit(k) ==
  /\ session # NoSession
  /\ ~Busy
  /\ IF Dirty THEN Ask(k) ELSE ExitEdit(k)

PickKeyboard(k) ==
  /\ "switch" \in Uses
  /\ k \in boards
  /\ \/ LeaveEdit(k)
     \/ /\ session = NoSession
        /\ shown' = k
        /\ UNCHANGED <<RunsRest, hup, session, boards, asked, going, applyVars, histVars>>

\* The question stays open while a flow begins, and its answer is not refused.
ConfirmDiscard ==
  /\ asked
  /\ Busy => "discard in flight" \in Uses
  /\ ExitEdit(going)

CancelDiscard ==
  /\ asked
  /\ asked' = FALSE /\ going' = NoFile
  /\ UNCHANGED <<RunsRest, hup, session, boards, shown, applyVars, histVars>>

\* Mutant: an edit is not refused while a run is in flight.
Edit_InFlight(e) ==
  /\ session # NoSession
  /\ e \notin session.base \union session.edits
  /\ session' = [session EXCEPT !.edits = @ \union {e}]
  /\ UNCHANGED <<RunsRest, hup, boards, shown, asked, going, applyVars, histVars>>

Edit(e) ==
  /\ session # NoSession
  /\ ~Busy
  /\ e \notin session.base \union session.edits
  /\ session' = [session EXCEPT !.edits = @ \union {e}]
  /\ UNCHANGED <<RunsRest, hup, boards, shown, asked, going, applyVars, histVars>>

-----------------------------------------------------------------------------
(* Apply, restore and delete.                                              *)

Fail ==
  /\ state' = "failed"
  /\ UNCHANGED <<RunsRest, hup, editVars, handle, dialog>>

\* Mutant: launch_delete does not park the handle.
Spawn_NoHandle(r, op, want, bytes) ==
  /\ req[r] = NoRequest
  /\ req' = [req EXCEPT ![r] =
       [op |-> op, want |-> want, file |-> session.file, bytes |-> bytes, big |-> FALSE]]
  /\ pkexec' = [pkexec EXCEPT ![r] = "asking"]
  /\ writer' = [writer EXCEPT ![r] = "new"]
  /\ handle' = IF op = "delete" THEN handle ELSE r
  /\ state' = "auth"
  /\ UNCHANGED <<protocolVars, pipe, out, hup, diskVars, editVars, dialog>>

\* applying::start; the handle of an earlier run is dropped, its pipe is not.
Spawn(r, op, want, bytes) ==
  /\ req[r] = NoRequest
  /\ \E big \in BOOLEAN :
       /\ big => op # "delete"
       /\ req' = [req EXCEPT ![r] =
            [op |-> op, want |-> want, file |-> session.file, bytes |-> bytes, big |-> big]]
  /\ pkexec' = [pkexec EXCEPT ![r] = "asking"]
  /\ writer' = [writer EXCEPT ![r] = "new"]
  /\ handle' = r
  /\ state' = "auth"
  /\ UNCHANGED <<protocolVars, pipe, out, hup, diskVars, editVars, dialog>>

\* Mutant: the intent is replaced before it is looked at.
LaunchApply_Forgets(intent, want) ==
  /\ pending' = "session"
  /\ \/ Fail
     \/ \E r \in Runs : Spawn(r, "apply", want, session.base \union session.edits)

\* launch_apply; a backup has none of the edits.
LaunchApply(intent, want) ==
  /\ pending' = "session"
  /\ \/ Fail
     \/ \E r \in Runs :
          IF intent = "restore" THEN Spawn(r, "restore", want, {})
          ELSE Spawn(r, "apply", want, session.base \union session.edits)

\* Pre-flight is over and the intent is armed; findings ask for a confirmation.
Proceed(intent, want) ==
  /\ flow' = want
  /\ UNCHANGED tried
  /\ \/ LaunchApply(intent, want)
     \/ /\ pending' = intent
        /\ state' = "confirm"
        /\ UNCHANGED <<RunsRest, hup, editVars, handle, dialog>>

\* Mutant: a second run is started beside the first.
StartApply_Again ==
  /\ session # NoSession
  /\ Dirty
  /\ \/ Fail /\ pending' = "session" /\ UNCHANGED histVars
     \/ Proceed("session", "apply")

StartApply ==
  /\ session # NoSession
  /\ state = "idle"
  /\ Dirty
  /\ \/ Fail /\ pending' = "session" /\ UNCHANGED histVars
     \/ Proceed("session", "apply")

\* The restore panel shows in `idle' only.
RestoreBackup ==
  /\ "restore" \in Uses
  /\ session # NoSession
  /\ session.edits # {} => "restore over edits" \in Uses
  /\ state = "idle"
  /\ \/ Fail /\ UNCHANGED <<pending, histVars>>
     \/ Proceed("restore", "restore")

ConfirmApply ==
  /\ session # NoSession
  /\ state = "confirm"
  /\ LaunchApply(pending, flow)
  /\ UNCHANGED histVars

DeleteConfig ==
  /\ "delete" \in Uses
  /\ session # NoSession
  /\ ~Busy
  /\ \/ session.new /\ ExitEdit(NoFile)
     \/ /\ ~session.new
        /\ flow' = "delete"
        /\ UNCHANGED tried
        /\ \/ Fail /\ pending' \in {pending, "session"}
           \/ /\ pending' = "delete"
              /\ \E r \in Runs : Spawn(r, "delete", "delete", Absent)

\* Back out of the confirmation, dismiss an outcome, or hang up in `auth'.
CancelApply ==
  /\ session # NoSession
  /\ \/ /\ state \notin {"idle", "auth", "countdown"}
        /\ state' = "idle" /\ pending' = "session"
        /\ UNCHANGED hup
     \/ /\ state = "auth"
        /\ RevertRun
        /\ UNCHANGED <<state, pending>>
  /\ UNCHANGED <<RunsRest, editVars, handle, dialog, histVars>>

-----------------------------------------------------------------------------
(* The dialog.  Its buttons reach whatever run the handle is of.           *)

Deaf == handle = NoRun \/ hup[handle] \/ phase[handle] = "ended"

\* The click waits for the mutex; a keep that is first in the pipe is taken
\* for the request.
ClickKeep ==
  /\ dialog # NoRun
  /\ tried' = tried \union {dialog}
  /\ IF Deaf THEN UNCHANGED <<protocolVars, pipe>>
     ELSE \/ /\ writer[handle] = "done"
             /\ Tool!SendKeep(handle)
             /\ UNCHANGED pipe
          \/ /\ writer[handle] = "new"
             /\ pipe' = [pipe EXCEPT ![handle] = "garbage"]
             /\ UNCHANGED protocolVars
  /\ UNCHANGED <<req, pkexec, writer, out, hup, diskVars, editVars, applyVars, flow>>

\* The revert button, or the dialog is closed.
ClickRevert ==
  /\ dialog # NoRun
  /\ RevertRun
  /\ UNCHANGED <<RunsRest, editVars, applyVars, histVars>>

-----------------------------------------------------------------------------
(* handle_apply_event.                                                     *)

\* The event loop takes the next event of r's thread, which pumps only when
\* the request is written.
Take(r, l) ==
  /\ writer[r] = "done"
  /\ out[r] # <<>>
  /\ Head(out[r]) = l
  /\ out' = [out EXCEPT ![r] = Tail(@)]
  /\ UNCHANGED <<protocolVars, req, pkexec, writer, pipe, diskVars, histVars>>

Finish(s) ==
  /\ handle' = NoRun /\ pending' = "session" /\ dialog' = NoRun
  /\ state' = s

\* Mutant: the dialog does not open and the change is left alone.
OnApplied_Stranded(r) ==
  /\ Take(r, "applied")
  /\ state' = "countdown"
  /\ dialog' \in {r, dialog}
  /\ UNCHANGED <<hup, pending, handle, editVars>>

\* The dialog opens, or the run is reverted.
OnApplied(r) ==
  /\ Take(r, "applied")
  /\ state' = "countdown"
  /\ \/ dialog' = r /\ UNCHANGED hup
     \/ UNCHANGED dialog /\ RevertRun
  /\ UNCHANGED <<pending, handle, editVars>>

\* remove_config_after_delete; the path in Pending is that of the session.
OnKeptDelete(r) ==
  /\ Take(r, "kept")
  /\ pending = "delete"
  /\ Finish("idle")
  /\ session' = NoSession
  /\ asked' = FALSE /\ going' = NoFile
  /\ DropBoard(session.file)
  /\ UNCHANGED hup

\* reopen_after_kept; a file that cannot be opened leaves the session as it is.
OnKept(r) ==
  /\ Take(r, "kept")
  /\ pending # "delete"
  /\ Finish("kept")
  /\ session' = IF session = NoSession \/ disk[session.file] = Absent THEN session
                ELSE [session EXCEPT !.new = FALSE, !.base = disk[session.file],
                                     !.edits = {}]
  /\ UNCHANGED <<hup, boards, shown, asked, going>>

OutcomeOf(l) == IF l \in {"reverted", "revert-failed"} THEN l ELSE "failed"

\* Mutant: the answer of the password dialog is not an outcome.
OnEnded_NotDenied(r) ==
  \E l \in Events \ {"applied", "kept"} :
    /\ Take(r, l)
    /\ IF l = "denied" THEN UNCHANGED applyVars ELSE Finish(OutcomeOf(l))
    /\ UNCHANGED <<hup, editVars>>

OnEnded(r) ==
  \E l \in Events \ {"applied", "kept"} :
    /\ Take(r, l)
    /\ Finish(OutcomeOf(l))
    /\ UNCHANGED <<hup, editVars>>

-----------------------------------------------------------------------------
User ==
  \/ OpenEdit \/ \E f \in Files : CreateConfig(f)
  \/ LeaveEdit(NoFile) \/ \E k \in boards : PickKeyboard(k)
  \/ ConfirmDiscard \/ CancelDiscard
  \/ \E e \in Edits : Edit(e)
  \/ StartApply \/ RestoreBackup \/ ConfirmApply \/ DeleteConfig \/ CancelApply
  \/ ClickKeep \/ ClickRevert

Thread(r) == TakeLock(r) \/ FinishWrite(r)
Pkexec(r) == Authorize(r) \/ Deny(r)
RunStep(r) ==
  \/ RunRefuses(r) \/ RunApplies(r) \/ RunKeeps(r)
  \/ RunReverts(r) \/ RunCannotRevert(r) \/ RunDies(r)
Handle(r) == OnApplied(r) \/ OnKeptDelete(r) \/ OnKept(r) \/ OnEnded(r)

Next ==
  \/ User
  \/ \E r \in Runs : Thread(r) \/ Pkexec(r) \/ RunStep(r) \/ Handle(r)

Spec == Init /\ [][Next]_vars

\* Threads and the event loop run, the password dialog is answered in the
\* end, and the tool ends (RunsEnd of ApplyTool).
FairSpec ==
  /\ Spec
  /\ \A r \in Runs : /\ WF_vars(Thread(r)) /\ WF_vars(Pkexec(r))
                     /\ WF_vars(RunStep(r)) /\ WF_vars(Handle(r))

-----------------------------------------------------------------------------
(* Properties.                                                             *)

Over(r) == req[r] = NoRequest \/ (out[r] = <<>> /\ (phase[r] = "ended" \/ pkexec[r] = "denied"))

\* While a change is live, nobody has answered and the UI knows of it, the
\* dialog on the screen is the one of this run and its buttons reach it
\* (handle_apply_event: "No control surface would mean a live change the user
\* can't keep"), and its KEEP never finds the writer in the mutex, nor gets in
\* before it (ApplyHandle::keep: "this never contends").
DialogReaches ==
  \A r \in Runs :
    phase[r] = "window" /\ out[r] = <<>> /\ ~hup[r] /\ ~keep[r]
      => state = "countdown" /\ handle = r /\ dialog = r
KeepNeverContends ==
  dialog # NoRun /\ handle # NoRun => writer[handle] = "done"
WindowIsControlled == DialogReaches /\ KeepNeverContends

\* Only a change whose own dialog was answered with KEEP becomes permanent.
KeptWasTried == \A r \in Runs : line[r] = "kept" => r \in tried

\* A click on KEEP is heard by the run it was meant for, unless that run had
\* been answered or was over before.
KeepIsHeard ==
  [][\A r \in tried' \ tried :
       keep'[r] \/ hup[r] \/ phase[r] = "ended"]_vars

\* The tool is asked for what the user asked for: a restore that was armed
\* never rides a later apply, nor is it replaced by the session's bytes.
AsksWhatWasWanted ==
  \A r \in Runs : req[r] # NoRequest => req[r].op = req[r].want

\* A board without a file belongs to an open session or a run that is not
\* over, unless a delete ended without its verdict or could not be reverted.
PhantomBoardsGo ==
  \A f \in boards :
    disk[f] = Absent =>
      \/ session # NoSession /\ session.file = f
      \/ \E r \in Runs :
           /\ req[r] # NoRequest /\ req[r].file = f
           /\ \/ ~Over(r)
              \/ req[r].op = "delete" /\ line[r] \in {"applied", "nothing", "revert-failed"}

\* The list of boards is one the callbacks can index, and has no ghosts.
BoardsAreReal == TypeOK /\ PhantomBoardsGo

\* An edit leaves the session into the file or by a decision to discard or
\* delete, and no other way.
EditsAreNeverDropped ==
  [][session # NoSession =>
       \A e \in session.edits :
         \/ session' # NoSession /\ session'.file = session.file
              /\ e \in session'.edits \union session'.base
         \/ disk[session.file] # Absent /\ e \in disk[session.file]
         \/ asked /\ ~asked'
         \/ pending = "delete" \/ (session.new /\ session' = NoSession)
    ]_vars

\* A flow does not hang: `auth' and `countdown' end.
FlowsEnd == state \in {"auth", "countdown"} ~> state \notin {"auth", "countdown"}
=============================================================================
