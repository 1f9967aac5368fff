---------------------------- MODULE ApplyUi_proofs ----------------------------
(***************************************************************************)
(* Proofs about ApplyUi for any number of runs, files and edits.           *)
(*                                                                         *)
(* What the tool is asked for is what the user asked for, whatever the     *)
(* user does.  As long as the discard question is not answered while a run *)
(* is in flight (the last member of Uses), every open window has a control *)
(* surface, only what its own dialog kept is kept, every board is real and *)
(* no edit is lost.                                                        *)
(***************************************************************************)
EXTENDS ApplyUi, Naturals, TLAPS

\* What waits for the confirmation is what the user armed last.
Armed == state = "confirm" => pending = IF flow = "restore" THEN "restore" ELSE "session"

\* A confirmation comes from Apply or from Restore; Delete has none.
Confirmable == state = "confirm" => flow \in {"apply", "restore"}

IntentInv ==
  /\ DOMAIN req = Runs
  /\ Armed
  /\ Confirmable
  /\ AsksWhatWasWanted

LEMMA IntentInit == Init => IntentInv
BY DEF Init, IntentInv, Armed, Confirmable, AsksWhatWasWanted

\* A step that leaves the requests alone and arms nothing.
LEMMA IntentKept ==
  ASSUME IntentInv, UNCHANGED req,
         \/ UNCHANGED <<state, pending, flow>>
         \/ state' # "confirm"
  PROVE  IntentInv'
BY DEF IntentInv, Armed, Confirmable, AsksWhatWasWanted

\* The tool is spawned with the operation that is wanted.
LEMMA IntentSpawn ==
  ASSUME IntentInv, NEW r \in Runs, NEW op, NEW bytes, Spawn(r, op, op, bytes)
  PROVE  IntentInv'
<1>1. DOMAIN req' = Runs /\ req'[r].op = req'[r].want
      /\ \A s \in Runs \ {r} : req'[s] = req[s]
  BY DEF Spawn, IntentInv
<1>2. state' = "auth"
  BY DEF Spawn
<1> QED BY <1>1, <1>2 DEF IntentInv, Armed, Confirmable, AsksWhatWasWanted

LEMMA IntentFail ==
  ASSUME IntentInv, Fail
  PROVE  IntentInv'
BY IntentKept DEF Fail, RunsRest

LEMMA IntentLaunch ==
  ASSUME IntentInv, NEW want \in {"apply", "restore"}, NEW intent,
         intent = IF want = "restore" THEN "restore" ELSE "session",
         LaunchApply(intent, want)
  PROVE  IntentInv'
<1>1. CASE Fail
  BY <1>1, IntentFail
<1>2. CASE \E r \in Runs : Spawn(r, want, want, IF want = "restore" THEN {}
                                      ELSE session.base \union session.edits)
  BY <1>2, IntentSpawn
<1> QED BY <1>1, <1>2 DEF LaunchApply

LEMMA IntentProceed ==
  ASSUME IntentInv, NEW want \in {"apply", "restore"}, NEW intent,
         intent = IF want = "restore" THEN "restore" ELSE "session",
         Proceed(intent, want)
  PROVE  IntentInv'
<1>1. CASE LaunchApply(intent, want)
  BY <1>1, IntentLaunch
<1>2. CASE pending' = intent /\ state' = "confirm" /\ UNCHANGED RunsRest
  BY <1>2 DEF Proceed, RunsRest, IntentInv, Armed, Confirmable, AsksWhatWasWanted
<1> QED BY <1>1, <1>2 DEF Proceed

LEMMA IntentExit ==
  ASSUME IntentInv, NEW k, ExitEdit(k)
  PROVE  IntentInv'
BY IntentKept DEF ExitEdit, RunsRest

LEMMA IntentUser ==
  ASSUME IntentInv, User
  PROVE  IntentInv'
<1> USE DEF RunsRest, applyVars, histVars
<1>1. CASE OpenEdit
  BY <1>1, IntentKept DEF OpenEdit, Enter
<1>2. CASE \E f \in Files : CreateConfig(f)
  BY <1>2, IntentKept DEF CreateConfig, Enter
<1>3. ASSUME NEW k, LeaveEdit(k) PROVE IntentInv'
  <2>1. CASE Ask(k)
    BY <2>1, IntentKept DEF Ask
  <2> QED BY <1>3, <2>1, IntentExit DEF LeaveEdit
<1>4. CASE \E k \in boards : PickKeyboard(k)
  BY <1>4, <1>3, IntentKept DEF PickKeyboard
<1>5. CASE ConfirmDiscard
  BY <1>5, IntentExit DEF ConfirmDiscard
<1>6. CASE CancelDiscard
  BY <1>6, IntentKept DEF CancelDiscard
<1>7. CASE \E e \in Edits : Edit(e)
  BY <1>7, IntentKept DEF Edit
<1>8. CASE StartApply
  BY <1>8, IntentProceed, IntentFail DEF StartApply
<1>9. CASE RestoreBackup
  BY <1>9, IntentProceed, IntentFail DEF RestoreBackup
<1>10. CASE ConfirmApply
  BY <1>10, IntentLaunch DEF ConfirmApply, IntentInv, Armed, Confirmable
<1>11. CASE DeleteConfig
  <2>1. CASE \E r \in Runs : Spawn(r, "delete", "delete", Absent)
    BY <2>1, IntentSpawn
  <2> QED BY <1>11, <2>1, IntentExit, IntentFail DEF DeleteConfig
<1>12. CASE CancelApply
  BY <1>12, IntentKept DEF CancelApply
<1>13. CASE ClickKeep
  BY <1>13, IntentKept DEF ClickKeep
<1>14. CASE ClickRevert
  BY <1>14, IntentKept DEF ClickRevert
<1> QED BY <1>1, <1>2, <1>3, <1>4, <1>5, <1>6, <1>7, <1>8, <1>9, <1>10,
           <1>11, <1>12, <1>13, <1>14 DEF User

LEMMA IntentBackground ==
  ASSUME IntentInv, NEW r \in Runs, Thread(r) \/ Pkexec(r) \/ RunStep(r)
  PROVE  IntentInv'
<1>1. UNCHANGED <<req, applyVars, histVars>>
  BY DEF Thread, TakeLock, FinishWrite, Pkexec, Authorize, Deny, RunStep, RunRefuses,
         RunApplies, RunKeeps, RunReverts, RunCannotRevert, RunDies, ToolRest
<1> QED BY <1>1, IntentKept DEF applyVars, histVars

LEMMA IntentHandle ==
  ASSUME IntentInv, NEW r \in Runs, Handle(r)
  PROVE  IntentInv'
<1>1. UNCHANGED req /\ state' # "confirm"
  BY DEF Handle, OnApplied, OnKeptDelete, OnKept, OnEnded, Take, Finish, OutcomeOf, Events
<1> QED BY <1>1, IntentKept

LEMMA IntentSafe == Spec => []IntentInv
<1>1. IntentInv /\ [Next]_vars => IntentInv'
  <2> SUFFICES ASSUME IntentInv, [Next]_vars PROVE IntentInv'
    OBVIOUS
  <2>1. CASE Next
    BY <2>1, IntentUser, IntentBackground, IntentHandle DEF Next
  <2>2. CASE UNCHANGED vars
    BY <2>2, IntentKept DEF vars, applyVars, histVars
  <2> QED BY <2>1, <2>2
<1> QED BY IntentInit, <1>1, PTL DEF Spec

\* The tool is asked for what the user asked for: the intent is armed and
\* disarmed together with the state that waits for the confirmation, so
\* neither a discarded session nor a late event can leave it to another run.
THEOREM AsksHolds == Spec => []AsksWhatWasWanted
<1>1. IntentInv => AsksWhatWasWanted
  BY DEF IntentInv
<1> QED BY IntentSafe, <1>1, PTL

-----------------------------------------------------------------------------
(* Types.                                                                  *)

USE DEF protocolVars, threadVars, diskVars, editVars, applyVars, histVars, RunsRest, ToolRest

\* A run that was not launched has no thread, no dialog and nothing to say.
Launched ==
  \A r \in Runs : req[r] = NoRequest =>
    /\ writer[r] = "none" /\ pkexec[r] = "none" /\ phase[r] = "none"
    /\ pipe[r] = "empty" /\ out[r] = <<>>
\* The question about the edits is asked in a session only.
Asked == asked => session # NoSession
Typed == TypeOK /\ Launched /\ Asked

LEMMA TypedInit == Init => Typed
<1> SUFFICES ASSUME Init PROVE Typed
  OBVIOUS
<1>1. out \in [Runs -> Seq(Events)] /\ \A r \in Runs : out[r] = <<>>
  BY DEF Init
<1>2. disk \in [Files -> Content] /\ prior \in [Runs -> Content]
  BY DEF Init, Content
<1>3. boards \subseteq Files /\ shown \in boards
  BY UiAssumption DEF UiAssumption, Init
<1> QED BY <1>1, <1>2, <1>3 DEF Init, Typed, Launched, Asked, TypeOK, Tool!Init, States

LEMMA PostTyped ==
  ASSUME Typed, NEW r \in Runs, NEW l \in Events, Post(r, l)
  PROVE  /\ out' \in [Runs -> Seq(Events)] /\ out'[r] = Append(out[r], l)
         /\ \A s \in Runs \ {r} : out'[s] = out[s]
<1>1. out \in [Runs -> Seq(Events)] /\ out[r] \in Seq(Events)
  BY DEF Typed, TypeOK
<1>2. Append(out[r], l) \in Seq(Events)
  BY <1>1
<1> QED BY <1>1, <1>2 DEF Post

LEMMA TypedThread ==
  ASSUME Typed, NEW r \in Runs, Thread(r) \/ Pkexec(r)
  PROVE  Typed'
<1> USE DEF Typed, TypeOK, Launched, Asked
<1>1. CASE TakeLock(r)
  BY <1>1 DEF TakeLock
<1>2. CASE FinishWrite(r)
  BY <1>2 DEF FinishWrite
<1>3. CASE Authorize(r)
  BY <1>3 DEF Authorize, Tool!Begin, Tool!Enter
<1>4. CASE Deny(r)
  <2>1. /\ out' \in [Runs -> Seq(Events)] /\ \A s \in Runs \ {r} : out'[s] = out[s]
    BY <1>4, PostTyped DEF Deny, Events
  <2> QED BY <1>4, <2>1 DEF Deny
<1> QED BY <1>1, <1>2, <1>3, <1>4 DEF Thread, Pkexec

LEMMA TypedRun ==
  ASSUME Typed, NEW r \in Runs, RunStep(r)
  PROVE  Typed'
<1> USE DEF Tool!Enter, Tool!Says
<1>1. \E l \in Events : Post(r, l)
  BY DEF RunStep, RunRefuses, RunApplies, RunKeeps, RunReverts, RunCannotRevert, RunDies, Events
<1>2. out' \in [Runs -> Seq(Events)] /\ \A s \in Runs \ {r} : out'[s] = out[s]
  BY <1>1, PostTyped
<1>3. phase[r] # "none" /\ UNCHANGED ToolRest
  BY DEF RunStep, RunRefuses, RunApplies, RunKeeps, RunReverts, RunCannotRevert, RunDies,
         Tool!Refused, Tool!Applied, Tool!Kept, Tool!Undone, Tool!Dies
<1>4. req[r] \in Request
  BY <1>3 DEF Typed, TypeOK, Launched, Asked
<1>5. phase' \in [Runs -> {"none", "begun", "window", "ended"}] /\ phase'[r] # "none"
      /\ keep' = keep /\ \A s \in Runs \ {r} : phase'[s] = phase[s]
  BY DEF Typed, TypeOK, RunStep, RunRefuses, RunApplies, RunKeeps, RunReverts, RunCannotRevert,
         RunDies, Tool!Refused, Tool!Applied, Tool!Kept, Tool!Undone, Tool!Dies
<1>line. line' \in [Runs -> Events \union {"nothing"}]
  <2>1. line' = line \/ \E l \in Events : line' = [line EXCEPT ![r] = l]
    BY DEF RunStep, RunRefuses, RunApplies, RunKeeps, RunReverts, RunCannotRevert, RunDies, Events,
           Tool!Refused, Tool!Applied, Tool!Kept, Tool!Undone, Tool!Dies
  <2> QED BY <2>1 DEF Typed, TypeOK
<1>6. disk \in [Files -> Content] /\ prior \in [Runs -> Content]
  BY DEF Typed, TypeOK
<1>7. req[r].file \in Files /\ req[r].bytes \in Content
  BY <1>4 DEF Request
<1>8. disk' \in [Files -> Content] /\ prior' \in [Runs -> Content]
  <2>1. Change(r) \in [Files -> Content]
    BY <1>6, <1>7 DEF Change
  <2>2. [disk EXCEPT ![req[r].file] = prior[r]] \in [Files -> Content]
    BY <1>6, <1>7
  <2>3. [prior EXCEPT ![r] = disk[req[r].file]] \in [Runs -> Content]
    BY <1>6, <1>7
  <2> QED BY <1>6, <2>1, <2>2, <2>3 DEF RunStep, RunRefuses, RunApplies, RunKeeps, RunReverts,
                                       RunCannotRevert, RunDies
<1> QED BY <1>2, <1>3, <1>4, <1>5, <1>line, <1>8, NothingAssumption
        DEF Typed, TypeOK, Launched, Asked, NothingAssumption

LEMMA TypedExit ==
  ASSUME Typed, session # NoSession, NEW k \in Files \union {NoFile}, ExitEdit(k)
  PROVE  Typed'
<1> USE DEF Typed, TypeOK, Launched, Asked
<1>1. hup' \in [Runs -> BOOLEAN]
  BY DEF ExitEdit, RevertRun
<1>2. boards' \subseteq Files /\ shown' \in boards' \union {NoFile}
  BY NothingAssumption DEF ExitEdit, Phantom, ShowAfter, NothingAssumption
<1>3. state' = "idle"
  BY DEF ExitEdit
<1> QED BY <1>1, <1>2, <1>3 DEF ExitEdit, States

LEMMA TypedEnter ==
  ASSUME Typed, NEW f \in Files, NEW new \in BOOLEAN, NEW base \in SUBSET Edits,
         Enter(f, new, base), boards' \subseteq Files, shown' \in boards' \union {NoFile}
  PROVE  Typed'
<1> USE DEF Typed, TypeOK, Launched, Asked
<1>1. session' \in Session /\ state' \in States
  BY DEF Enter, Session, States
<1> QED BY <1>1, NothingAssumption DEF Enter, NothingAssumption

LEMMA TypedSpawn ==
  ASSUME Typed, session # NoSession, NEW r \in Runs,
         NEW op \in {"apply", "restore", "delete"}, NEW want \in {"apply", "restore", "delete"},
         NEW bytes \in Content, pending' \in {"session", "restore", "delete"},
         flow' \in {"none", "apply", "restore", "delete"}, tried' = tried,
         Spawn(r, op, want, bytes)
  PROVE  Typed' /\ req'[r] \in Request /\ req'[r] # NoRequest
<1> USE DEF Typed, TypeOK, Launched, Asked
<1>1. req' \in [Runs -> Request \union {NoRequest}] /\ req'[r] \in Request
      /\ \A s \in Runs \ {r} : req'[s] = req[s]
  <2>1. session.file \in Files
    BY DEF Session
  <2>2. PICK big \in BOOLEAN : req' = [req EXCEPT ![r] = 
            [op |-> op, want |-> want, file |-> session.file, bytes |-> bytes, big |-> big]]
    BY DEF Spawn
  <2>3. [op |-> op, want |-> want, file |-> session.file, bytes |-> bytes, big |-> big] \in Request
    BY <2>1 DEF Request
  <2> QED BY <2>2, <2>3
<1>2. req'[r] # NoRequest
  BY <1>1, NothingAssumption DEF NothingAssumption
<1>3. state' \in States /\ handle' \in Runs
  BY DEF Spawn, States
<1> QED BY <1>1, <1>2, <1>3 DEF Spawn

LEMMA TypedFail ==
  ASSUME Typed, Fail, pending' \in {"session", "restore", "delete"},
         flow' \in {"none", "apply", "restore", "delete"}, tried' = tried
  PROVE  Typed'
BY DEF Typed, TypeOK, Launched, Asked, Fail, States

LEMMA TypedLaunch ==
  ASSUME Typed, session # NoSession, NEW intent, NEW want \in {"apply", "restore", "delete"},
         LaunchApply(intent, want), flow' \in {"none", "apply", "restore", "delete"}, tried' = tried
  PROVE  Typed'
<1>1. {} \in Content /\ session.base \union session.edits \in Content
  BY DEF Typed, TypeOK, Session, Content
<1>2. CASE Fail
  BY <1>2, TypedFail DEF LaunchApply
<1>3. ASSUME NEW r \in Runs, Spawn(r, "restore", want, {})
              \/ Spawn(r, "apply", want, session.base \union session.edits)
      PROVE  Typed'
  BY <1>1, <1>3, TypedSpawn DEF LaunchApply
<1> QED BY <1>2, <1>3 DEF LaunchApply

LEMMA TypedUser ==
  ASSUME Typed, IntentInv, User
  PROVE  Typed'
<1>1. CASE OpenEdit
  <2>1. shown \in Files /\ disk[shown] \in SUBSET Edits
    BY <1>1 DEF OpenEdit, Typed, TypeOK, Content
  <2> QED BY <1>1, <2>1, TypedEnter DEF OpenEdit, Typed, TypeOK
<1>2. CASE \E f \in Files : CreateConfig(f)
  BY <1>2, TypedEnter DEF CreateConfig, Typed, TypeOK
<1>3. ASSUME NEW k \in Files \union {NoFile}, LeaveEdit(k) PROVE Typed'
  <2>1. CASE Ask(k)
    BY <2>1, <1>3 DEF LeaveEdit, Ask, Typed, TypeOK, Launched, Asked
  <2> QED BY <1>3, <2>1, TypedExit DEF LeaveEdit
<1>4. CASE \E k \in boards : PickKeyboard(k)
  <2>1. PICK k \in boards : PickKeyboard(k)
    BY <1>4
  <2>2. k \in Files
    BY DEF Typed, TypeOK
  <2>3. CASE LeaveEdit(k)
    BY <2>2, <2>3, <1>3
  <2>4. CASE shown' = k /\ UNCHANGED <<RunsRest, hup, session, boards, asked, going, applyVars, histVars>>
    BY <2>4 DEF Typed, TypeOK, Launched, Asked
  <2> QED BY <2>1, <2>3, <2>4 DEF PickKeyboard
<1>5. CASE ConfirmDiscard
  <2>1. going \in Files \union {NoFile}
    BY DEF Typed, TypeOK
  <2>2. session # NoSession
    BY <1>5 DEF ConfirmDiscard, Typed, Asked
  <2> QED BY <1>5, <2>1, <2>2, TypedExit DEF ConfirmDiscard
<1>6. CASE CancelDiscard
  BY <1>6 DEF CancelDiscard, Typed, TypeOK, Launched, Asked
<1>7. CASE \E e \in Edits : Edit(e)
  <2>1. PICK e \in Edits : Edit(e)
    BY <1>7
  <2>2. session \in Session
    BY <2>1 DEF Edit, Typed, TypeOK
  <2>3. session' \in Session
    BY <2>1, <2>2 DEF Edit, Session
  <2> QED BY <2>1, <2>3, NothingAssumption DEF Edit, Typed, TypeOK, Launched, Asked, NothingAssumption
<1>8. ASSUME NEW want \in {"apply", "restore"}, NEW intent \in {"session", "restore"},
             session # NoSession, Proceed(intent, want)
      PROVE  Typed'
  <2>1. CASE LaunchApply(intent, want)
    BY <1>8, <2>1, TypedLaunch DEF Proceed
  <2>2. CASE pending' = intent /\ state' = "confirm" /\ UNCHANGED <<RunsRest, hup, editVars, handle, dialog>>
    BY <1>8, <2>2 DEF Proceed, Typed, TypeOK, Launched, Asked, States
  <2> QED BY <1>8, <2>1, <2>2 DEF Proceed
<1>9. CASE StartApply
  <2>1. CASE Fail /\ pending' = "session" /\ UNCHANGED histVars
    BY <2>1, TypedFail DEF Typed, TypeOK
  <2> QED BY <1>8, <1>9, <2>1 DEF StartApply
<1>10. CASE RestoreBackup
  <2>1. CASE Fail /\ UNCHANGED <<pending, histVars>>
    BY <2>1, TypedFail DEF Typed, TypeOK
  <2> QED BY <1>8, <1>10, <2>1 DEF RestoreBackup
<1>11. CASE ConfirmApply
  BY <1>11, TypedLaunch DEF ConfirmApply, IntentInv, Confirmable
<1>12. CASE DeleteConfig
  <2>1. CASE ExitEdit(NoFile)
    BY <1>12, <2>1, TypedExit DEF DeleteConfig
  <2>2. CASE flow' = "delete" /\ tried' = tried /\ Fail /\ pending' \in {pending, "session"}
    BY <2>2, TypedFail DEF Typed, TypeOK
  <2>3. CASE /\ flow' = "delete" /\ tried' = tried /\ pending' = "delete"
             /\ \E r \in Runs : Spawn(r, "delete", "delete", Absent)
    BY <1>12, <2>3, TypedSpawn DEF DeleteConfig, Content
  <2> QED BY <1>12, <2>1, <2>2, <2>3 DEF DeleteConfig
<1>13. CASE CancelApply
  BY <1>13 DEF CancelApply, RevertRun, Typed, TypeOK, Launched, Asked, States
<1>14. CASE ClickKeep
  BY <1>14 DEF ClickKeep, Deaf, Tool!SendKeep, Typed, TypeOK, Launched, Asked
<1>15. CASE ClickRevert
  BY <1>15 DEF ClickRevert, RevertRun, Typed, TypeOK, Launched, Asked
<1> QED BY <1>1, <1>2, <1>3, <1>4, <1>5, <1>6, <1>7, <1>9, <1>10, <1>11, <1>12, <1>13, <1>14,
           <1>15 DEF User

\* The line at the head of a pipe is one of Events, and the rest is too.
LEMMA TakeTyped ==
  ASSUME Typed, NEW r \in Runs, NEW l, Take(r, l)
  PROVE  /\ req[r] # NoRequest
         /\ out' \in [Runs -> Seq(Events)]
         /\ \A s \in Runs \ {r} : out'[s] = out[s]
<1>1. out[r] \in Seq(Events) /\ out[r] # <<>>
  BY DEF Take, Typed, TypeOK
<1>2. Tail(out[r]) \in Seq(Events)
  BY <1>1
<1> QED BY <1>1, <1>2 DEF Take, Typed, TypeOK, Launched

LEMMA TypedHandle ==
  ASSUME Typed, NEW r \in Runs, Handle(r)
  PROVE  Typed'
<1> USE DEF Typed, TypeOK, Launched, Asked
<1>1. CASE OnApplied(r)
  <2>1. hup' \in [Runs -> BOOLEAN]
    BY <1>1 DEF OnApplied, RevertRun
  <2>2. "countdown" \in States
    BY DEF States
  <2>3. dialog' \in {r, dialog} /\ state' = "countdown"
        /\ UNCHANGED <<pending, handle, editVars, protocolVars, req, pkexec, writer, pipe,
                       diskVars, histVars>>
    BY <1>1 DEF OnApplied, Take
  <2>4. /\ req[r] # NoRequest /\ out' \in [Runs -> Seq(Events)]
        /\ \A s \in Runs \ {r} : out'[s] = out[s]
    BY <1>1, TakeTyped DEF OnApplied
  <2> QED BY <2>1, <2>2, <2>3, <2>4
<1>2. CASE OnKeptDelete(r)
  BY <1>2, TakeTyped, NothingAssumption DEF OnKeptDelete, Finish, DropBoard, Take, States, NothingAssumption
<1>3. CASE OnKept(r)
  <2>1. session' \in Session \union {NoSession} /\ (session # NoSession => session' # NoSession)
    <3>1. CASE session' = session
      BY <3>1
    <3>2. CASE /\ session # NoSession /\ disk[session.file] # Absent
               /\ session' = [session EXCEPT !.new = FALSE, !.base = disk[session.file], !.edits = {}]
      <4>1. session \in Session
        BY <3>2
      <4>2. disk[session.file] \in SUBSET Edits
        BY <3>2, <4>1 DEF Session, Content
      <4>3. session' \in Session
        BY <3>2, <4>1, <4>2 DEF Session
      <4> QED BY <4>3, NothingAssumption DEF NothingAssumption
    <3> QED BY <1>3, <3>1, <3>2 DEF OnKept
  <2> QED BY <1>3, <2>1, TakeTyped DEF OnKept, Finish, Take, States
<1>4. CASE OnEnded(r)
  <2>1. PICK l \in Events \ {"applied", "kept"} :
          Take(r, l) /\ Finish(OutcomeOf(l)) /\ UNCHANGED <<hup, editVars>>
    BY <1>4 DEF OnEnded
  <2>2. OutcomeOf(l) \in States
    BY DEF OutcomeOf, States
  <2> QED BY <2>1, <2>2, TakeTyped DEF Finish, Take
<1> QED BY <1>1, <1>2, <1>3, <1>4 DEF Handle

LEMMA TypedStep ==
  ASSUME Typed, IntentInv, [Next]_vars
  PROVE  Typed'
<1>1. CASE UNCHANGED vars
  BY <1>1 DEF vars, Typed, TypeOK, Launched, Asked
<1> QED BY <1>1, TypedUser, TypedThread, TypedRun, TypedHandle DEF Next

\* Every variable has its type: the list of boards is one the callbacks can
\* index, no run that was not launched has a line to say, and the question
\* about unsaved edits is open in an edit session only.
THEOREM Typing == Spec => []Typed
<1>1. Init => Typed
  BY TypedInit
<1>2. Typed /\ IntentInv /\ [Next]_vars => Typed'
  BY TypedStep
<1> QED BY <1>1, <1>2, IntentSafe, PTL DEF Spec

-----------------------------------------------------------------------------
(* The run in flight and the dialog.                                       *)

\* A run that is over has nothing left to say, and is not the one the handle is of.
Past(r) ==
  /\ r # handle /\ out[r] = <<>>
  /\ <<pkexec[r], phase[r]>> \in {<<"denied", "none">>, <<"passed", "ended">>}

\* Its password dialog is open, was refused, or the tool is at work.
Starting(r) ==
  /\ r = handle /\ state = "auth"
  /\ \/ <<pkexec[r], phase[r]>> \in {<<"asking", "none">>, <<"passed", "begun">>} /\ out[r] = <<>>
     \/ pkexec[r] = "denied" /\ phase[r] = "none" /\ out[r] = <<"denied">>

\* Its change is live; the UI has heard of it or is about to.
Open(r) ==
  /\ r = handle /\ pkexec[r] = "passed" /\ phase[r] = "window"
  /\ \/ out[r] = <<"applied">> /\ state = "auth"
     \/ out[r] = <<>> /\ state = "countdown" /\ (dialog = r \/ hup[r])

\* It has ended and its verdict is on the way.
Ending(r) ==
  /\ r = handle /\ pkexec[r] = "passed" /\ phase[r] = "ended"
  /\ \E v \in Events \ {"applied", "denied"} :
       \/ out[r] = <<v>>
       \/ out[r] = <<"applied", v>> /\ state = "auth"

Stage(r) == req[r] = NoRequest \/ Past(r) \/ Starting(r) \/ Open(r) \/ Ending(r)

Desk ==
  /\ handle = NoRun <=> state \notin {"auth", "countdown"}
  /\ session = NoSession => ~Busy
  /\ dialog # NoRun => handle = dialog /\ state = "countdown" /\ writer[dialog] = "done"

Answers ==
  \A r \in Runs : (line[r] = "kept" => keep[r]) /\ (keep[r] => r \in tried)

ControlInv == Desk /\ Answers /\ \A r \in Runs : Stage(r)

LEMMA ControlInit == Init => ControlInv
BY DEF Init, Tool!Init, ControlInv, Desk, Busy, Answers, Stage

LEMMA ControlKept ==
  ASSUME ControlInv,
         UNCHANGED <<phase, line, keep, req, pkexec, writer, out, hup, state, handle, dialog, tried>>,
         ~Busy \/ (session' = NoSession => session = NoSession)
  PROVE  ControlInv'
BY DEF ControlInv, Desk, Busy, Answers, Stage, Past, Starting, Open, Ending

\* Only run r changes.
LEMMA ControlOf ==
  ASSUME Typed, ControlInv, NEW r \in Runs,
         UNCHANGED <<req, hup, session, state, handle, dialog, tried>>,
         \A s \in Runs \ {r} :
           /\ phase'[s] = phase[s] /\ line'[s] = line[s] /\ keep'[s] = keep[s]
           /\ pkexec'[s] = pkexec[s] /\ out'[s] = out[s]
         , Stage(r)',
         line'[r] = "kept" => keep'[r], keep'[r] => r \in tried,
         \A s \in Runs : writer[s] = "done" => writer'[s] = "done"
  PROVE  ControlInv'
<1>1. \A s \in Runs \ {r} : Stage(s)'
  BY DEF ControlInv, Stage, Past, Starting, Open, Ending
<1>2. Desk'
  <2>1. dialog \in Runs \/ dialog = NoRun
    BY DEF Typed, TypeOK
  <2> QED BY <2>1 DEF ControlInv, Desk, Busy
<1> QED BY <1>1, <1>2 DEF ControlInv, Answers

LEMMA ControlThread ==
  ASSUME Typed, ControlInv, NEW r \in Runs, Thread(r)
  PROVE  ControlInv'
<1>1. UNCHANGED <<phase, line, keep, req, pkexec, out, hup, session, state, handle, dialog, tried>>
  BY DEF Thread, TakeLock, FinishWrite
<1>2. \A s \in Runs : writer[s] = "done" => writer'[s] = "done"
  BY DEF Thread, TakeLock, FinishWrite, Typed, TypeOK
<1>3. Stage(r)'
  BY <1>1 DEF ControlInv, Stage, Past, Starting, Open, Ending
<1> QED BY <1>1, <1>2, <1>3, ControlOf DEF ControlInv, Answers

LEMMA ControlPkexec ==
  ASSUME Typed, ControlInv, NEW r \in Runs, Pkexec(r)
  PROVE  ControlInv'
<1>1. pkexec[r] = "asking" /\ req[r] # NoRequest /\ Starting(r) /\ phase[r] = "none" /\ out[r] = <<>>
  BY DEF Pkexec, Authorize, Deny, ControlInv, Stage, Past, Starting, Open, Ending, Typed, Launched
<1>2. CASE Authorize(r)
  <2>1. Starting(r)'
    BY <1>1, <1>2 DEF Authorize, Tool!Begin, Tool!Enter, Starting, Typed, TypeOK
  <2>2. Stage(r)'
    BY <2>1 DEF Stage
  <2> QED BY <1>2, <2>2, ControlOf DEF Authorize, Tool!Begin, Tool!Enter, Typed, TypeOK, ControlInv, Answers
<1>3. CASE Deny(r)
  <2>1. out'[r] = <<"denied">> /\ \A s \in Runs \ {r} : out'[s] = out[s]
    BY <1>1, <1>3, PostTyped DEF Deny, Events
  <2>2. Starting(r)'
    BY <1>1, <1>3, <2>1 DEF Deny, Starting, Typed, TypeOK
  <2>3. Stage(r)'
    BY <2>2 DEF Stage
  <2> QED BY <1>3, <2>1, <2>3, ControlOf DEF Deny, Typed, TypeOK, ControlInv, Answers
<1> QED BY <1>2, <1>3 DEF Pkexec

LEMMA SecondLine ==
  ASSUME NEW l \in Events, NEW m \in Events
  PROVE  Append(<<l>>, m) = <<l, m>>
<1>1. <<l>> \in Seq(Events) /\ <<l, m>> \in Seq(Events)
  OBVIOUS
<1>2. Append(<<l>>, m) = [i \in 1..2 |-> IF i = 1 THEN l ELSE m]
  BY <1>1
<1>3. <<l, m>> = [i \in 1..2 |-> IF i = 1 THEN l ELSE m]
  BY <1>1
<1> QED BY <1>2, <1>3

LEMMA ControlRun ==
  ASSUME Typed, ControlInv, NEW r \in Runs, RunStep(r)
  PROVE  ControlInv'
<1> USE DEF Tool!Enter, Tool!Says
<1>1. PICK l \in Events \ {"denied"} : 
        /\ Post(r, l) /\ UNCHANGED ToolRest /\ UNCHANGED keep
        /\ \/ l = "applied" /\ phase[r] = "begun" /\ phase' = [phase EXCEPT ![r] = "window"]
           \/ l # "applied" /\ phase[r] \in {"begun", "window"} /\ phase' = [phase EXCEPT ![r] = "ended"]
        /\ \/ line' = line
           \/ line' = [line EXCEPT ![r] = l] /\ (l = "kept" => keep[r])
  BY DEF RunStep, RunRefuses, RunApplies, RunKeeps, RunReverts, RunCannotRevert, RunDies, Events,
         Tool!Refused, Tool!Applied, Tool!Kept, Tool!Undone, Tool!Dies
<1>2. out'[r] = Append(out[r], l) /\ \A s \in Runs \ {r} : out'[s] = out[s]
  BY <1>1, PostTyped
<1>3. req[r] # NoRequest /\ pkexec[r] = "passed" /\ r = handle
  BY <1>1 DEF ControlInv, Stage, Past, Starting, Open, Ending, Typed, Launched
<1>4. \/ phase[r] = "begun" /\ out[r] = <<>> /\ state = "auth"
      \/ phase[r] = "window" /\ ((out[r] = <<"applied">> /\ state = "auth") \/ out[r] = <<>>)
  BY <1>1, <1>3 DEF ControlInv, Stage, Past, Starting, Open, Ending
<1>5. Stage(r)'
  <2>1. CASE l = "applied"
    <3>1. out'[r] = <<"applied">> /\ phase'[r] = "window"
      BY <1>1, <1>2, <1>4, <2>1 DEF Typed, TypeOK
    <3> QED BY <1>1, <1>3, <1>4, <2>1, <3>1 DEF Stage, Open
  <2>2. CASE l # "applied"
    <3>1. phase'[r] = "ended" /\ l \in Events \ {"applied", "denied"}
      BY <1>1, <2>2 DEF Typed, TypeOK
    <3>2. out'[r] = <<l>> \/ (out'[r] = <<"applied", l>> /\ state = "auth")
      <4>1. Append(<<>>, l) = <<l>>
        OBVIOUS
      <4>2. Append(<<"applied">>, l) = <<"applied", l>>
        BY SecondLine DEF Events
      <4> QED BY <1>2, <1>4, <4>1, <4>2
    <3> QED BY <1>1, <1>3, <3>1, <3>2 DEF Stage, Ending
  <2> QED BY <2>1, <2>2
<1>6. /\ line'[r] = "kept" => keep'[r] 
      /\ \A s \in Runs \ {r} : line'[s] = line[s] /\ phase'[s] = phase[s]
  BY <1>1 DEF Typed, TypeOK, ControlInv, Answers
<1> QED BY <1>1, <1>2, <1>5, <1>6, ControlOf DEF ControlInv, Answers

\* What leaves a session that is not busy: the runs are past and stay past.
LEMMA ControlExit ==
  ASSUME Typed, ControlInv, ~Busy, NEW k, ExitEdit(k)
  PROVE  ControlInv'
<1>1. handle = NoRun /\ hup' = hup
  BY DEF ControlInv, Desk, Busy, ExitEdit, RevertRun
<1>2. dialog = NoRun /\ dialog' = NoRun /\ handle' = NoRun /\ state' = "idle" /\ session' = NoSession
  BY DEF ExitEdit, ControlInv, Desk, Busy
<1>3. Desk'
  BY <1>2 DEF Desk, Busy
<1>4. \A r \in Runs : Stage(r)'
  BY <1>1, <1>2, NothingAssumption
     DEF NothingAssumption, ExitEdit, ControlInv, Stage, Past, Starting, Open, Ending
<1> QED BY <1>3, <1>4 DEF ControlInv, Answers, ExitEdit

LEMMA ControlEnter ==
  ASSUME Typed, ControlInv, session = NoSession, NEW f, NEW new, NEW base, Enter(f, new, base)
  PROVE  ControlInv'
<1>1. handle = NoRun /\ dialog = NoRun
  BY DEF ControlInv, Desk, Busy
<1>2. Desk'
  BY <1>1 DEF Enter, Desk, Busy
<1>3. \A r \in Runs : Stage(r)'
  BY <1>1, NothingAssumption DEF NothingAssumption, Enter, ControlInv, Stage, Past, Starting, Open, Ending
<1> QED BY <1>2, <1>3 DEF ControlInv, Answers, Enter

LEMMA ControlSpawn ==
  ASSUME Typed, ControlInv, session # NoSession, handle = NoRun, tried' = tried,
         NEW r \in Runs, NEW op, NEW want, NEW bytes, Spawn(r, op, want, bytes)
  PROVE  ControlInv'
<1>1. dialog = NoRun
  BY DEF ControlInv, Desk
<1>2. r # NoRun
  BY NothingAssumption DEF NothingAssumption
<1>3. Desk'
  BY <1>1, <1>2 DEF Spawn, Desk, Busy
<1>4. Stage(r)'
  BY DEF Spawn, Typed, TypeOK, Launched, Stage, Starting
<1>5. \A s \in Runs \ {r} : Stage(s)'
  BY <1>1, NothingAssumption
     DEF NothingAssumption, Spawn, Typed, TypeOK, ControlInv, Stage, Past, Starting, Open, Ending
<1> QED BY <1>3, <1>4, <1>5 DEF ControlInv, Answers, Spawn

LEMMA ControlFail ==
  ASSUME ControlInv, handle = NoRun, Fail, tried' = tried
  PROVE  ControlInv'
<1>1. Desk'
  BY DEF Fail, ControlInv, Desk, Busy
<1>2. \A r \in Runs : Stage(r)'
  BY NothingAssumption DEF NothingAssumption, Fail, ControlInv, Stage, Past, Starting, Open, Ending
<1> QED BY <1>1, <1>2 DEF ControlInv, Answers, Fail

LEMMA ControlLaunch ==
  ASSUME Typed, ControlInv, session # NoSession, handle = NoRun, tried' = tried,
         NEW intent, NEW want, LaunchApply(intent, want)
  PROVE  ControlInv'
BY ControlFail, ControlSpawn DEF LaunchApply

LEMMA ControlProceed ==
  ASSUME Typed, ControlInv, session # NoSession, handle = NoRun,
         NEW intent, NEW want, Proceed(intent, want)
  PROVE  ControlInv'
<1>1. CASE LaunchApply(intent, want)
  BY <1>1, ControlLaunch DEF Proceed
<1>2. CASE state' = "confirm" /\ UNCHANGED <<RunsRest, hup, editVars, handle, dialog>>
  <2>1. Desk'
    BY <1>2 DEF ControlInv, Desk, Busy
  <2>2. \A r \in Runs : Stage(r)'
    BY <1>2, NothingAssumption DEF NothingAssumption, ControlInv, Stage, Past, Starting, Open, Ending
  <2> QED BY <1>2, <2>1, <2>2 DEF ControlInv, Answers, Proceed
<1> QED BY <1>1, <1>2 DEF Proceed

LEMMA ControlKeep ==
  ASSUME Typed, ControlInv, ClickKeep
  PROVE  /\ ControlInv'
         /\ \A r \in tried' \ tried : keep'[r] \/ hup[r] \/ phase[r] = "ended"
<1>1. handle = dialog /\ handle # NoRun /\ handle \in Runs /\ writer[handle] = "done" /\ state = "countdown"
  BY DEF ClickKeep, ControlInv, Desk, Typed, TypeOK
<1>2. /\ tried' = tried \union {handle}
      /\ \/ Deaf /\ UNCHANGED protocolVars
         \/ keep' = [keep EXCEPT ![handle] = TRUE] /\ UNCHANGED <<phase, line>>
  BY <1>1 DEF ClickKeep, Tool!SendKeep
<1>3. UNCHANGED <<req, pkexec, writer, out, hup, session, state, handle, dialog>>
  BY DEF ClickKeep
<1>4. Desk'
  BY <1>3 DEF ControlInv, Desk, Busy
<1>5. \A r \in Runs : Stage(r)'
  BY <1>2, <1>3 DEF ControlInv, Stage, Past, Starting, Open, Ending
<1>6. Answers'
  BY <1>1, <1>2 DEF ControlInv, Answers, Typed, TypeOK
<1>7. \A r \in tried' \ tried : keep'[r] \/ hup[r] \/ phase[r] = "ended"
  BY <1>1, <1>2 DEF Deaf, Typed, TypeOK
<1> QED BY <1>4, <1>5, <1>6, <1>7 DEF ControlInv

\* A run whose pipe is closed stays where it is.
LEMMA ControlHup ==
  ASSUME Typed, ControlInv, RevertRun,
         UNCHANGED <<phase, line, keep, req, pkexec, writer, out, session, state, handle, dialog, tried>>
  PROVE  ControlInv'
<1>1. \A r \in Runs : hup[r] => hup'[r]
  BY DEF RevertRun, Typed, TypeOK
<1>2. Desk' /\ Answers'
  BY DEF ControlInv, Desk, Busy, Answers
<1>3. \A r \in Runs : Stage(r)'
  BY <1>1 DEF ControlInv, Stage, Past, Starting, Open, Ending
<1> QED BY <1>2, <1>3 DEF ControlInv

LEMMA ControlUser ==
  ASSUME Typed, ControlInv, "discard in flight" \notin Uses, User
  PROVE  ControlInv'
<1>idle. session = NoSession => handle = NoRun
  BY DEF ControlInv, Desk, Busy
<1>quiet. ~Busy => handle = NoRun
  BY DEF ControlInv, Desk, Busy
<1>1. CASE OpenEdit
  BY <1>1, ControlEnter DEF OpenEdit
<1>2. CASE \E f \in Files : CreateConfig(f)
  BY <1>2, ControlEnter DEF CreateConfig
<1>3. ASSUME NEW k, LeaveEdit(k) PROVE ControlInv'
  <2>1. CASE Ask(k)
    BY <2>1, ControlKept DEF Ask
  <2> QED BY <1>3, <2>1, ControlExit DEF LeaveEdit
<1>4. CASE \E k \in boards : PickKeyboard(k)
  BY <1>3, <1>4, ControlKept DEF PickKeyboard
<1>5. CASE ConfirmDiscard
  BY <1>5, ControlExit DEF ConfirmDiscard
<1>6. CASE CancelDiscard
  BY <1>6, ControlKept DEF CancelDiscard
<1>7. CASE \E e \in Edits : Edit(e)
  BY <1>7, ControlKept DEF Edit
<1>8. CASE StartApply
  <2>1. handle = NoRun
    BY <1>8 DEF StartApply, ControlInv, Desk
  <2> QED BY <1>8, <2>1, ControlFail, ControlProceed DEF StartApply
<1>9. CASE RestoreBackup
  <2>1. handle = NoRun
    BY <1>9 DEF RestoreBackup, ControlInv, Desk
  <2> QED BY <1>9, <2>1, ControlFail, ControlProceed DEF RestoreBackup
<1>10. CASE ConfirmApply
  <2>1. handle = NoRun
    BY <1>10 DEF ConfirmApply, ControlInv, Desk
  <2> QED BY <1>10, <2>1, ControlLaunch DEF ConfirmApply
<1>11. CASE DeleteConfig
  <2>1. ~Busy /\ session # NoSession /\ handle = NoRun
    BY <1>11, <1>quiet DEF DeleteConfig
  <2> QED BY <1>11, <2>1, ControlExit, ControlFail, ControlSpawn DEF DeleteConfig
<1>12. CASE CancelApply
  <2>1. CASE state = "auth"
    BY <1>12, <2>1, ControlHup DEF CancelApply
  <2>2. CASE /\ state \notin {"idle", "auth", "countdown"} /\ state' = "idle"
             /\ UNCHANGED <<RunsRest, hup, editVars, handle, dialog, histVars>>
    <3>1. Desk'
      BY <2>2 DEF ControlInv, Desk, Busy
    <3>2. \A r \in Runs : Stage(r)'
      BY <2>2 DEF ControlInv, Stage, Past, Starting, Open, Ending
    <3> QED BY <2>2, <3>1, <3>2 DEF ControlInv, Answers
  <2> QED BY <1>12, <2>1, <2>2 DEF CancelApply
<1>13. CASE ClickKeep
  BY <1>13, ControlKeep
<1>14. CASE ClickRevert
  BY <1>14, ControlHup DEF ClickRevert
<1> QED BY <1>1, <1>2, <1>3, <1>4, <1>5, <1>6, <1>7, <1>8, <1>9, <1>10, <1>11, <1>12, <1>13, <1>14
        DEF User

\* An event is of the run the handle is of, whatever the UI makes of it.
LEMMA ControlTake ==
  ASSUME Typed, ControlInv, NEW r \in Runs, NEW l, Take(r, l)
  PROVE  /\ r = handle /\ handle # NoRun /\ l \in Events
         /\ l = "applied" => /\ state = "auth"
                             /\ \/ Open(r) /\ out'[r] = <<>>
                                \/ /\ Ending(r)
                                   /\ \E v \in Events \ {"applied", "denied"} : out'[r] = <<v>>
         /\ l # "applied" => /\ out'[r] = <<>>
                             /\ <<pkexec[r], phase[r]>> \in {<<"denied", "none">>, <<"passed", "ended">>}
         /\ \A s \in Runs \ {r} : out'[s] = out[s]
<1>1. /\ req[r] # NoRequest /\ out[r] # <<>> /\ Head(out[r]) = l /\ out'[r] = Tail(out[r])
      /\ \A s \in Runs \ {r} : out'[s] = out[s]
  BY TakeTyped DEF Take, Typed, TypeOK
<1>2. Starting(r) \/ Open(r) \/ Ending(r)
  BY <1>1 DEF ControlInv, Stage, Past
<1>3. r = handle /\ handle # NoRun
  BY <1>2, NothingAssumption DEF Starting, Open, Ending, NothingAssumption
<1>4. CASE Starting(r)
  <2>1. out[r] = <<"denied">>
    BY <1>1, <1>4 DEF Starting
  <2>2. l = "denied" /\ out'[r] = <<>>
    BY <1>1, <2>1
  <2> QED BY <1>1, <1>3, <1>4, <2>1, <2>2 DEF Starting, Events
<1>5. CASE Open(r)
  <2>1. out[r] = <<"applied">>
    BY <1>1, <1>5 DEF Open
  <2>2. l = "applied" /\ out'[r] = <<>>
    BY <1>1, <2>1
  <2> QED BY <1>1, <1>3, <1>5, <2>1, <2>2 DEF Open, Events
<1>6. CASE Ending(r)
  <2>1. PICK v \in Events \ {"applied", "denied"} :
          out[r] = <<v>> \/ (out[r] = <<"applied", v>> /\ state = "auth")
    BY <1>6 DEF Ending
  <2>2. CASE out[r] = <<v>>
    <3>1. l = v /\ out'[r] = <<>>
      BY <1>1, <2>2
    <3> QED BY <1>1, <1>3, <1>6, <3>1 DEF Ending
  <2>3. CASE out[r] = <<"applied", v>> /\ state = "auth"
    <3>1. l = "applied" /\ out'[r] = <<v>>
      BY <1>1, <2>3
    <3> QED BY <1>1, <1>3, <1>6, <2>3, <3>1 DEF Events
  <2> QED BY <2>1, <2>2, <2>3
<1> QED BY <1>2, <1>4, <1>5, <1>6

LEMMA ControlHandle ==
  ASSUME Typed, ControlInv, NEW r \in Runs, Handle(r)
  PROVE  ControlInv'
<1>1. CASE OnApplied(r)
  <2>1. Take(r, "applied") /\ writer[r] = "done"
    BY <1>1 DEF OnApplied, Take
  <2>2. /\ r = handle /\ handle # NoRun /\ state = "auth" /\ dialog = NoRun
        /\ \/ Open(r) /\ out'[r] = <<>>
           \/ Ending(r) /\ \E v \in Events \ {"applied", "denied"} : out'[r] = <<v>>
        /\ \A s \in Runs \ {r} : out'[s] = out[s]
    BY <2>1, ControlTake DEF ControlInv, Desk
  <2>3. /\ dialog' = r \/ (dialog' = NoRun /\ hup'[r])
        /\ state' = "countdown" /\ handle' = handle /\ session' = session
        /\ UNCHANGED <<protocolVars, req, pkexec, writer, tried>>
    BY <1>1, <2>1, <2>2 DEF OnApplied, RevertRun, Take, Typed, TypeOK
  <2>4. Desk'
    BY <2>1, <2>2, <2>3 DEF ControlInv, Desk, Busy
  <2>5. Stage(r)'
    BY <2>2, <2>3 DEF Stage, Open, Ending
  <2>6. \A s \in Runs \ {r} : Stage(s)'
    BY <2>2, <2>3 DEF ControlInv, Stage, Past, Starting, Open, Ending
  <2> QED BY <2>3, <2>4, <2>5, <2>6 DEF ControlInv, Answers
<1>2. ASSUME NEW l \in Events \ {"applied"}, Take(r, l), NEW s \in States \ {"auth", "countdown", "confirm"},
             Finish(s)
      PROVE  ControlInv'
  <2>1. /\ r = handle /\ handle # NoRun /\ out'[r] = <<>>
        /\ <<pkexec[r], phase[r]>> \in {<<"denied", "none">>, <<"passed", "ended">>}
        /\ \A t \in Runs \ {r} : out'[t] = out[t]
    BY <1>2, ControlTake
  <2>2. /\ handle' = NoRun /\ dialog' = NoRun /\ state' = s
        /\ UNCHANGED <<protocolVars, req, pkexec, writer, tried>>
    BY <1>2 DEF Finish, Take
  <2>3. Desk'
    BY <2>2 DEF Desk, Busy
  <2>4. Stage(r)'
    BY <2>1, <2>2 DEF Stage, Past
  <2>5. \A t \in Runs \ {r} : Stage(t)'
    BY <2>1, <2>2, NothingAssumption
       DEF NothingAssumption, ControlInv, Stage, Past, Starting, Open, Ending
  <2> QED BY <2>2, <2>3, <2>4, <2>5 DEF ControlInv, Answers
<1>3. CASE OnKeptDelete(r) \/ OnKept(r)
  BY <1>2, <1>3 DEF OnKeptDelete, OnKept, Events, States
<1>4. CASE OnEnded(r)
  <2>1. PICK l \in Events \ {"applied", "kept"} : Take(r, l) /\ Finish(OutcomeOf(l))
    BY <1>4 DEF OnEnded
  <2>2. OutcomeOf(l) \in States \ {"auth", "countdown", "confirm"}
    BY DEF OutcomeOf, States
  <2> QED BY <1>2, <2>1, <2>2
<1> QED BY <1>1, <1>3, <1>4 DEF Handle

LEMMA ControlStep ==
  ASSUME "discard in flight" \notin Uses, Typed, ControlInv, [Next]_vars
  PROVE  ControlInv'
<1>1. CASE UNCHANGED vars
  BY <1>1, ControlKept DEF vars
<1> QED BY <1>1, ControlUser, ControlThread, ControlPkexec, ControlRun, ControlHandle DEF Next

LEMMA KeepHeard ==
  ASSUME Typed, ControlInv, [Next]_vars
  PROVE  \A r \in tried' \ tried : keep'[r] \/ hup[r] \/ phase[r] = "ended"
<1>1. CASE ClickKeep
  BY <1>1, ControlKeep
<1>2. CASE ~ClickKeep
  <2>1. tried' = tried
    <3>1. CASE User
      BY <1>2, <3>1 DEF User, OpenEdit, CreateConfig, Enter, PickKeyboard, LeaveEdit, Ask, ExitEdit,
         ConfirmDiscard, CancelDiscard, Edit, StartApply, RestoreBackup, Proceed, ConfirmApply,
         DeleteConfig, CancelApply, ClickRevert
    <3>2. ASSUME NEW r \in Runs, Thread(r) \/ Pkexec(r) \/ RunStep(r) \/ Handle(r)
          PROVE  tried' = tried
      BY <3>2 DEF Thread, TakeLock, FinishWrite, Pkexec, Authorize, Deny, RunStep, RunRefuses,
         RunApplies, RunKeeps, RunReverts, RunCannotRevert, RunDies, Handle, OnApplied,
         OnKeptDelete, OnKept, OnEnded, Take
    <3> QED BY <3>1, <3>2 DEF Next, vars
  <2> QED BY <2>1
<1> QED BY <1>1, <1>2

LEMMA ControlSafe ==
  ASSUME "discard in flight" \notin Uses
  PROVE  Spec => []ControlInv
<1>1. Typed /\ ControlInv /\ [Next]_vars => ControlInv'
  BY ControlStep
<1> QED BY <1>1, ControlInit, Typing, PTL DEF Spec

\* Whatever the user does, short of answering the discard question while a run
\* is in flight, a live change that the UI has heard of has its dialog on the
\* screen, and the dialog's buttons reach it: there is one handle, and only the
\* run it is of can have a line left to say.
THEOREM ControlHolds ==
  ASSUME "discard in flight" \notin Uses
  PROVE  Spec => []WindowIsControlled
<1>1. Typed /\ ControlInv => DialogReaches
  <2> SUFFICES ASSUME Typed, ControlInv, NEW r \in Runs,
                      phase[r] = "window", out[r] = <<>>, ~hup[r]
               PROVE  state = "countdown" /\ handle = r /\ dialog = r
    BY DEF DialogReaches
  <2>1. req[r] # NoRequest
    BY DEF Typed, Launched
  <2>2. Open(r)
    BY <2>1 DEF ControlInv, Stage, Past, Starting, Open, Ending
  <2>3. <<>> # <<"applied">>
    OBVIOUS
  <2> QED BY <2>2, <2>3 DEF Open
<1>2. ControlInv => KeepNeverContends
  BY DEF ControlInv, Desk, KeepNeverContends
<1>3. Typed /\ ControlInv => WindowIsControlled
  BY <1>1, <1>2 DEF WindowIsControlled
<1> QED BY <1>3, Typing, ControlSafe, PTL

\* Under the same condition no change becomes permanent but by a KEEP on its own
\* dialog: a keep is written only to the run whose `applied' opened the dialog.
THEOREM KeptHolds ==
  ASSUME "discard in flight" \notin Uses
  PROVE  Spec => []KeptWasTried
<1>1. ControlInv => KeptWasTried
  BY DEF ControlInv, Answers, KeptWasTried
<1> QED BY <1>1, ControlSafe, PTL

\* Under the same condition a click on KEEP gets into the pipe of that run, unless
\* the run was answered or over before the click.
THEOREM KeepHeardHolds ==
  ASSUME "discard in flight" \notin Uses
  PROVE  Spec => KeepIsHeard
<1>1. Typed /\ ControlInv /\ [Next]_vars
        => [\A r \in tried' \ tried : keep'[r] \/ hup[r] \/ phase[r] = "ended"]_vars
  BY KeepHeard
<1> QED BY <1>1, ControlSafe, Typing, PTL DEF Spec, KeepIsHeard

-----------------------------------------------------------------------------
(* Boards and their files.                                                 *)

\* Run r deleted f, and has not put it back.
Deleted(r, f) ==
  /\ req[r] # NoRequest /\ req[r].op = "delete" /\ req[r].file = f
  /\ \/ phase[r] = "window"
     \/ phase[r] = "ended" /\ line[r] \in {"applied", "nothing", "revert-failed"}
     \/ phase[r] = "ended" /\ line[r] = "kept" /\ r = handle

\* The session is the one that is to create f.
Fresh(f) == session # NoSession /\ session.new /\ session.file = f

\* What a config without a file is.
Excused(f) ==
  \/ f \notin boards
  \/ Fresh(f)
  \/ \E r \in Runs : Deleted(r, f)

\* The run in flight is about the session, and Pending knows if it deletes.
InFlight ==
  handle # NoRun =>
    /\ session # NoSession /\ session.file = req[handle].file
    /\ pending = "delete" <=> req[handle].op = "delete"

\* A run has said what it has done.
Lines ==
  \A r \in Runs :
    /\ phase[r] \in {"none", "begun"} => line[r] = "nothing"
    /\ phase[r] = "window" => line[r] = "applied"
    /\ line[r] = "kept" /\ r = handle => out[r] \in {<<"kept">>, <<"applied", "kept">>}

\* Only a delete takes a file away, and what it would put back is a file.
Contents ==
  \A r \in Runs :
    /\ req[r] # NoRequest /\ req[r].op # "delete" => req[r].bytes # Absent
    /\ phase[r] = "window" /\ prior[r] = Absent => req[r].op # "delete" /\ Excused(req[r].file)

BoardInv ==
  /\ \A f \in Files : disk[f] = Absent => Excused(f)
  /\ InFlight /\ Lines /\ Contents

LEMMA BoardInit == Init => BoardInv
<1> SUFFICES ASSUME Init PROVE BoardInv
  OBVIOUS
<1>1. \A f \in Files : disk[f] = Absent => Excused(f)
  BY NothingAssumption DEF NothingAssumption, Init, Excused, Fresh
<1> QED BY <1>1 DEF Init, Tool!Init, BoardInv, InFlight, Lines, Contents

\* The runs, the files and what is in flight stay as they are, and no excuse
\* is taken back.
LEMMA BoardKept ==
  ASSUME BoardInv, UNCHANGED <<phase, line, req, out, disk, prior, handle, pending>>,
         handle # NoRun => UNCHANGED <<session, boards>>,
         \A f \in Files : disk[f] = Absent /\ Excused(f) => Excused(f)',
         \A r \in Runs : phase[r] = "window" => r = handle
  PROVE  BoardInv'
<1>1. InFlight' /\ Lines'
  BY DEF BoardInv, InFlight, Lines
<1>2. Contents'
  <2>1. ASSUME NEW r \in Runs, phase[r] = "window", Excused(req[r].file)
        PROVE  Excused(req[r].file)'
    <3>1. UNCHANGED <<session, boards>>
      BY <2>1, NothingAssumption DEF NothingAssumption
    <3> QED BY <2>1, <3>1 DEF Excused, Fresh, Deleted
  <2> QED BY <2>1 DEF BoardInv, Contents
<1> QED BY <1>1, <1>2 DEF BoardInv

LEMMA OneWindow ==
  ASSUME Typed, ControlInv
  PROVE  \A r \in Runs : phase[r] # "none" => req[r] # NoRequest
         /\ (phase[r] \in {"begun", "window"} => r = handle /\ r # NoRun)
BY NothingAssumption DEF NothingAssumption, Typed, Launched, ControlInv, Stage, Past, Starting, Open, Ending

LEMMA BoardThread ==
  ASSUME Typed, ControlInv, BoardInv, NEW r \in Runs, Thread(r)
  PROVE  BoardInv'
<1>1. UNCHANGED <<phase, line, req, out, disk, prior, handle, pending, session, boards>>
  BY DEF Thread, TakeLock, FinishWrite
<1> QED BY <1>1, BoardKept, OneWindow DEF Excused, Fresh, Deleted

LEMMA BoardPkexec ==
  ASSUME Typed, ControlInv, BoardInv, NEW r \in Runs, Pkexec(r)
  PROVE  BoardInv'
<1>1. phase[r] = "none"
  BY DEF Pkexec, Authorize, Deny, ControlInv, Stage, Past, Starting, Open, Ending, Typed, Launched
<1>2. UNCHANGED <<line, req, disk, prior, handle, pending, session, boards>>
  BY DEF Pkexec, Authorize, Deny, Tool!Begin
<1>3. /\ phase' \in {phase, [phase EXCEPT ![r] = "begun"]}
      /\ \A s \in Runs \ {r} : out'[s] = out[s]
  BY PostTyped DEF Pkexec, Authorize, Deny, Tool!Begin, Tool!Enter, Events
<1>4. \A s \in Runs : phase'[s] = phase[s] \/ (s = r /\ phase'[s] = "begun")
  BY <1>3 DEF Typed, TypeOK
<1>5. \A f \in Files : Excused(f) => Excused(f)'
  BY <1>1, <1>2, <1>4 DEF Excused, Fresh, Deleted
<1>6. Lines'
  BY <1>1, <1>2, <1>3, <1>4 DEF BoardInv, Lines
<1>7. \A s \in Runs : phase'[s] = "window" => phase[s] = "window" /\ req[s].file \in Files
  BY <1>4, OneWindow DEF Typed, TypeOK, Request
<1>8. Contents'
  BY <1>2, <1>5, <1>7 DEF BoardInv, Contents
<1> QED BY <1>2, <1>5, <1>6, <1>8 DEF BoardInv, InFlight

\* The effect of a step of the tool that ends r or opens its window.
LEMMA BoardOf ==
  ASSUME Typed, ControlInv, BoardInv, NEW r \in Runs, r = handle,
         UNCHANGED <<req, handle, pending, session, boards>>,
         \A s \in Runs \ {r} : /\ phase'[s] = phase[s] /\ line'[s] = line[s]
                              /\ out'[s] = out[s] /\ prior'[s] = prior[s],
         phase[r] \in {"begun", "window"},
         \A f \in Files \ {req[r].file} : disk'[f] = disk[f],
         disk'[req[r].file] = Absent => Excused(req[r].file)',
         phase'[r] = "ended" \/ (phase'[r] = "window" /\ line'[r] = "applied"),
         phase[r] = "window" => \A f \in Files : Deleted(r, f) => Deleted(r, f)' \/ disk'[f] # Absent,
         line'[r] = "kept" => out'[r] \in {<<"kept">>, <<"applied", "kept">>},
         phase'[r] = "window" /\ prior'[r] = Absent => req[r].op # "delete" /\ Excused(req[r].file)'
  PROVE  BoardInv'
<1>1. req[r] # NoRequest /\ req[r].file \in Files
  BY OneWindow DEF Typed, TypeOK, Request
<1>2. \A s \in Runs \ {r}, f \in Files : Deleted(s, f) => Deleted(s, f)'
  BY DEF Deleted
<1>3. \A f \in Files \ {req[r].file} : Excused(f) => Excused(f)'
  BY <1>2 DEF Excused, Fresh, Deleted
<1>4. \A f \in Files : disk'[f] = Absent => Excused(f)'
  BY <1>1, <1>3 DEF BoardInv
<1>5. Lines'
  BY DEF BoardInv, Lines
<1>6. Contents'
  BY OneWindow DEF BoardInv, Contents
<1> QED BY <1>4, <1>5, <1>6 DEF BoardInv, InFlight

LEMMA BoardRun ==
  ASSUME Typed, ControlInv, BoardInv, NEW r \in Runs, RunStep(r)
  PROVE  BoardInv'
<1> USE DEF Tool!Enter, Tool!Says
<1>1. phase[r] \in {"begun", "window"} /\ UNCHANGED ToolRest
  BY DEF RunStep, RunRefuses, RunApplies, RunKeeps, RunReverts, RunCannotRevert, RunDies,
         Tool!Refused, Tool!Applied, Tool!Kept, Tool!Undone, Tool!Dies
<1>2. r = handle /\ req[r] \in Request /\ req[r].file \in Files /\ req[r].bytes \in Content
  BY <1>1, OneWindow DEF Typed, TypeOK, Request
<1>3. session # NoSession /\ session.file = req[r].file
  BY <1>2, NothingAssumption DEF NothingAssumption, BoardInv, InFlight
<1>4. PICK l \in Events :
        /\ Post(r, l)
        /\ \A s \in Runs \ {r} : /\ phase'[s] = phase[s] /\ line'[s] = line[s]
                               /\ prior'[s] = prior[s]
        /\ \A f \in Files \ {req[r].file} : disk'[f] = disk[f]
  BY <1>2 DEF RunStep, RunRefuses, RunApplies, RunKeeps, RunReverts, RunCannotRevert, RunDies,
         Tool!Refused, Tool!Applied, Tool!Kept, Tool!Undone, Tool!Dies, Events, Change, Typed, TypeOK
<1>5. out'[r] = Append(out[r], l) /\ \A s \in Runs \ {r} : out'[s] = out[s]
  BY <1>4, PostTyped
<1>6. /\ phase[r] = "begun" => line[r] = "nothing"
      /\ phase[r] = "window" => line[r] = "applied"
  BY DEF BoardInv, Lines
<1>7. out[r] \in {<<>>, <<"applied">>} /\ (phase[r] = "begun" => out[r] = <<>>)
  BY <1>1, <1>2 DEF ControlInv, Stage, Past, Starting, Open, Ending, Typed, Launched
<1>9. CASE RunRefuses(r)
  <2>1. disk' = disk /\ prior' = prior /\ phase[r] = "begun" /\ phase'[r] = "ended" /\ line'[r] = "error"
    BY <1>9 DEF RunRefuses, Tool!Refused, Typed, TypeOK
  <2>2. Excused(req[r].file) => Excused(req[r].file)'
    BY <1>1, <1>4, <2>1 DEF Excused, Fresh, Deleted
  <2> QED BY <1>1, <1>2, <1>4, <1>5, <2>1, <2>2, BoardOf DEF BoardInv
<1>10. CASE RunApplies(r)
  <2>1. /\ prior'[r] = disk[req[r].file] /\ disk'[req[r].file] = req[r].bytes
        /\ phase[r] = "begun" /\ phase'[r] = "window" /\ line'[r] = "applied"
        /\ req[r].op = "delete" => disk[req[r].file] # Absent
    BY <1>2, <1>10 DEF RunApplies, Tool!Applied, Writes, Change, Typed, TypeOK
  <2>2. Excused(req[r].file) => Excused(req[r].file)'
    BY <1>1, <1>4, <2>1 DEF Excused, Fresh, Deleted
  <2>3. req[r].op = "delete" => Deleted(r, req[r].file)'
    BY <1>1, <1>2, <2>1, OneWindow DEF Deleted
  <2>4. disk'[req[r].file] = Absent => Excused(req[r].file)'
    BY <1>1, <1>2, <2>1, <2>3, OneWindow DEF BoardInv, Contents, Excused, Fresh
  <2>5. prior'[r] = Absent => req[r].op # "delete" /\ Excused(req[r].file)'
    BY <1>2, <2>1, <2>2 DEF BoardInv
  <2> QED BY <1>1, <1>2, <1>4, <1>5, <2>1, <2>4, <2>5, BoardOf
<1>11. CASE RunKeeps(r)
  <2>1. disk' = disk /\ prior' = prior /\ phase[r] = "window" /\ phase'[r] = "ended" /\ line'[r] = "kept"
        /\ Post(r, "kept")
    BY <1>11 DEF RunKeeps, Tool!Kept, Typed, TypeOK
  <2>2. \A f \in Files : Deleted(r, f) => Deleted(r, f)'
    BY <1>1, <1>2, <2>1 DEF Deleted
  <2>3. Excused(req[r].file) => Excused(req[r].file)'
    BY <1>1, <1>4, <2>1, <2>2, <1>2 DEF Excused, Fresh, Deleted
  <2>4. out'[r] \in {<<"kept">>, <<"applied", "kept">>}
    <3>1. out'[r] = Append(out[r], "kept")
      BY <2>1, PostTyped DEF Events
    <3>2. Append(<<"applied">>, "kept") = <<"applied", "kept">>
      BY SecondLine DEF Events
    <3>3. Append(<<>>, "kept") = <<"kept">>
      OBVIOUS
    <3> QED BY <1>7, <3>1, <3>2, <3>3
  <2> QED BY <1>1, <1>2, <1>4, <1>5, <2>1, <2>2, <2>3, <2>4, BoardOf DEF BoardInv
<1>12. CASE RunReverts(r) /\ phase[r] = "begun"
  <2>1. disk' = disk /\ prior' = prior /\ phase'[r] = "ended" /\ line'[r] = "reverted"
    BY <1>12 DEF RunReverts, Tool!Undone, Typed, TypeOK
  <2>2. Excused(req[r].file) => Excused(req[r].file)'
    BY <1>1, <1>4, <2>1, <1>12 DEF Excused, Fresh, Deleted
  <2> QED BY <1>1, <1>2, <1>4, <1>5, <1>12, <2>1, <2>2, BoardOf DEF BoardInv
<1>13. CASE RunReverts(r) /\ phase[r] = "window"
  <2>1. disk'[req[r].file] = prior[r] /\ prior' = prior /\ phase'[r] = "ended" /\ line'[r] = "reverted"
    BY <1>2, <1>13 DEF RunReverts, Tool!Undone, Typed, TypeOK
  <2>2. prior[r] = Absent => req[r].op # "delete" /\ Excused(req[r].file)
    BY <1>13 DEF BoardInv, Contents
  <2>3. disk'[req[r].file] = Absent => Excused(req[r].file)'
    BY <1>1, <1>4, <2>1, <2>2 DEF Excused, Fresh, Deleted
  <2>4. \A f \in Files : ~Deleted(r, f) \/ disk'[f] # Absent
    BY <2>1, <2>2 DEF Deleted
  <2> QED BY <1>1, <1>2, <1>4, <1>5, <2>1, <2>3, <2>4, BoardOf
<1>14. CASE (RunCannotRevert(r) \/ RunDies(r)) /\ phase[r] = "begun"
  <2>1. /\ disk'[req[r].file] \in {disk[req[r].file], req[r].bytes}
        /\ prior' = prior /\ phase'[r] = "ended" /\ line'[r] \in {"nothing", "revert-failed"}
    BY <1>2, <1>6, <1>14 DEF RunCannotRevert, RunDies, Change, Tool!Undone, Tool!Dies, Typed, TypeOK
  <2>2. Excused(req[r].file) => Excused(req[r].file)'
    BY <1>1, <1>4, <2>1, <1>14 DEF Excused, Fresh, Deleted
  <2>3. req[r].op = "delete" => Deleted(r, req[r].file)'
    BY <1>1, <1>2, <2>1, OneWindow DEF Deleted
  <2>4. disk'[req[r].file] = Absent => Excused(req[r].file)'
    BY <1>1, <1>2, <2>1, <2>2, <2>3, OneWindow DEF BoardInv, Contents, Excused, Fresh
  <2> QED BY <1>1, <1>2, <1>4, <1>5, <1>14, <2>1, <2>4, BoardOf
<1>15. CASE (RunCannotRevert(r) \/ RunDies(r)) /\ phase[r] = "window"
  <2>1. /\ disk' = disk /\ prior' = prior /\ phase'[r] = "ended"
        /\ line'[r] \in {"applied", "revert-failed"}
    BY <1>6, <1>15 DEF RunCannotRevert, RunDies, Tool!Undone, Tool!Dies, Typed, TypeOK
  <2>2. \A f \in Files : Deleted(r, f) => Deleted(r, f)'
    BY <1>1, <1>2, <2>1 DEF Deleted
  <2>3. Excused(req[r].file) => Excused(req[r].file)'
    BY <1>1, <1>4, <2>1, <2>2, <1>2 DEF Excused, Fresh, Deleted
  <2> QED BY <1>1, <1>2, <1>4, <1>5, <2>1, <2>2, <2>3, BoardOf DEF BoardInv
<1> QED BY <1>1, <1>9, <1>10, <1>11, <1>12, <1>13, <1>14, <1>15 DEF RunStep

\* Nothing is in flight before or after.
LEMMA BoardIdle ==
  ASSUME Typed, ControlInv, BoardInv, handle = NoRun, handle' = NoRun,
         UNCHANGED <<phase, line, req, out, disk, prior>>,
         \A f \in Files : disk[f] = Absent /\ Excused(f) => Excused(f)'
  PROVE  BoardInv'
<1>1. \A r \in Runs : r # NoRun /\ phase[r] # "window"
  BY OneWindow, NothingAssumption DEF NothingAssumption
<1> QED BY <1>1 DEF BoardInv, InFlight, Lines, Contents

\* A flow that is in flight, or idle, is left as it is.
LEMMA BoardSame ==
  ASSUME Typed, ControlInv, BoardInv,
         UNCHANGED <<phase, line, req, out, disk, prior, handle, pending, session, boards>>
  PROVE  BoardInv'
BY BoardKept, OneWindow DEF Excused, Fresh, Deleted

LEMMA BoardExit ==
  ASSUME Typed, ControlInv, BoardInv, ~Busy, NEW k, ExitEdit(k)
  PROVE  BoardInv'
<1>1. handle = NoRun /\ handle' = NoRun /\ session' = NoSession
  BY DEF ControlInv, Desk, Busy, ExitEdit
<1>2. /\ UNCHANGED <<phase, line, req, out, disk, prior>>
      /\ boards' \subseteq boards
      /\ Phantom => session.file \notin boards'
  BY DEF ExitEdit
<1>3. ASSUME NEW f \in Files, disk[f] = Absent, Excused(f) PROVE Excused(f)'
  BY <1>1, <1>2, <1>3 DEF Excused, Fresh, Deleted, Phantom
<1> QED BY <1>1, <1>2, <1>3, BoardIdle

LEMMA BoardEnter ==
  ASSUME Typed, ControlInv, BoardInv, session = NoSession,
         NEW f \in Files, NEW new \in BOOLEAN, NEW base \in SUBSET Edits,
         Enter(f, new, base),
         boards' = boards \/ (new /\ boards' = boards \union {f})
  PROVE  BoardInv'
<1>1. handle = NoRun /\ handle' = NoRun
  BY DEF ControlInv, Desk, Busy, Enter
<1>2. UNCHANGED <<phase, line, req, out, disk, prior>>
  BY DEF Enter
<1>3. session' # NoSession /\ session'.file = f /\ session'.new = new
  BY NothingAssumption DEF NothingAssumption, Enter, Session
<1>4. ASSUME NEW g \in Files, Excused(g) PROVE Excused(g)'
  BY <1>1, <1>2, <1>3, <1>4 DEF Excused, Fresh, Deleted
<1> QED BY <1>1, <1>2, <1>4, BoardIdle

LEMMA BoardFail ==
  ASSUME Typed, ControlInv, BoardInv, handle = NoRun, Fail
  PROVE  BoardInv'
BY BoardIdle DEF Fail, Excused, Fresh, Deleted

LEMMA BoardSpawn ==
  ASSUME Typed, ControlInv, BoardInv, session # NoSession, handle = NoRun,
         NEW r \in Runs, NEW op, NEW want, NEW bytes, Spawn(r, op, want, bytes),
         pending' = "delete" <=> op = "delete",
         op # "delete" => bytes \in SUBSET Edits
  PROVE  BoardInv'
<1>1. \A s \in Runs : s # NoRun /\ phase[s] # "window"
  BY OneWindow, NothingAssumption DEF NothingAssumption
<1>2. /\ req[r] = NoRequest /\ handle' = r
      /\ UNCHANGED <<phase, line, out, disk, prior, session, boards>>
      /\ req'[r].op = op /\ req'[r].file = session.file /\ req'[r].bytes = bytes
      /\ \A s \in Runs \ {r} : req'[s] = req[s]
  BY DEF Spawn, Typed, TypeOK
<1>3. phase[r] = "none" /\ line[r] = "nothing"
  BY <1>2 DEF Typed, Launched, BoardInv, Lines
<1>4. \A f \in Files : Excused(f) => Excused(f)'
  BY <1>1, <1>2 DEF Excused, Fresh, Deleted
<1>5. Lines'
  BY <1>2, <1>3 DEF BoardInv, Lines
<1>6. Contents'
  BY <1>1, <1>2, NothingAssumption DEF NothingAssumption, BoardInv, Contents
<1>7. InFlight'
  BY <1>2 DEF InFlight
<1> QED BY <1>2, <1>4, <1>5, <1>6, <1>7 DEF BoardInv

LEMMA BoardLaunch ==
  ASSUME Typed, ControlInv, BoardInv, session # NoSession, handle = NoRun,
         NEW intent, NEW want, LaunchApply(intent, want)
  PROVE  BoardInv'
<1>1. session.base \union session.edits \in SUBSET Edits
  BY DEF Typed, TypeOK, Session
<1> QED BY <1>1, BoardFail, BoardSpawn DEF LaunchApply

LEMMA BoardProceed ==
  ASSUME Typed, ControlInv, BoardInv, session # NoSession, handle = NoRun,
         NEW intent, NEW want, Proceed(intent, want)
  PROVE  BoardInv'
BY BoardLaunch, BoardIdle DEF Proceed, Excused, Fresh, Deleted

LEMMA BoardUser ==
  ASSUME Typed, ControlInv, BoardInv, "discard in flight" \notin Uses, User
  PROVE  BoardInv'
<1>idle. session = NoSession \/ ~Busy => handle = NoRun
  BY DEF ControlInv, Desk, Busy
<1>1. CASE OpenEdit
  <2>1. shown \in Files /\ disk[shown] \in SUBSET Edits
    BY <1>1 DEF OpenEdit, Typed, TypeOK, Content
  <2> QED BY <1>1, <2>1, BoardEnter DEF OpenEdit
<1>2. CASE \E f \in Files : CreateConfig(f)
  BY <1>2, BoardEnter DEF CreateConfig
<1>3. ASSUME NEW k, LeaveEdit(k) PROVE BoardInv'
  <2>1. CASE Ask(k)
    BY <2>1, BoardSame DEF Ask
  <2> QED BY <1>3, <2>1, BoardExit DEF LeaveEdit
<1>4. CASE \E k \in boards : PickKeyboard(k)
  BY <1>3, <1>4, BoardSame DEF PickKeyboard
<1>5. CASE ConfirmDiscard
  BY <1>5, BoardExit DEF ConfirmDiscard
<1>6. CASE CancelDiscard
  BY <1>6, BoardSame DEF CancelDiscard
<1>7. CASE \E e \in Edits : Edit(e)
  <2>1. /\ handle = NoRun /\ handle' = NoRun
        /\ UNCHANGED <<phase, line, req, out, disk, prior, boards>>
    BY <1>7, <1>idle DEF Edit
  <2>2. session # NoSession /\ session \in Session
        /\ session' # NoSession /\ session'.file = session.file /\ session'.new = session.new
    <3>1. PICK e \in Edits : Edit(e)
      BY <1>7
    <3>2. session \in Session
      BY <3>1 DEF Edit, Typed, TypeOK
    <3>3. session' \in Session
      BY <3>1, <3>2 DEF Edit, Session
    <3> QED BY <3>1, <3>2, <3>3, NothingAssumption DEF Edit, Session, NothingAssumption
  <2>3. \A f \in Files : Excused(f) => Excused(f)'
    BY <2>1, <2>2 DEF Excused, Fresh, Deleted
  <2> QED BY <2>1, <2>3, BoardIdle
<1>8. CASE StartApply
  <2>1. handle = NoRun
    BY <1>8 DEF StartApply, ControlInv, Desk
  <2> QED BY <1>8, <2>1, BoardFail, BoardProceed DEF StartApply
<1>9. CASE RestoreBackup
  <2>1. handle = NoRun
    BY <1>9 DEF RestoreBackup, ControlInv, Desk
  <2> QED BY <1>9, <2>1, BoardFail, BoardProceed DEF RestoreBackup
<1>10. CASE ConfirmApply
  <2>1. handle = NoRun
    BY <1>10 DEF ConfirmApply, ControlInv, Desk
  <2> QED BY <1>10, <2>1, BoardLaunch DEF ConfirmApply
<1>11. CASE DeleteConfig
  <2>1. ~Busy /\ session # NoSession /\ handle = NoRun
    BY <1>11, <1>idle DEF DeleteConfig
  <2> QED BY <1>11, <2>1, BoardExit, BoardFail, BoardSpawn DEF DeleteConfig
<1>12. CASE CancelApply
  <2>1. CASE state = "auth"
    BY <1>12, <2>1, BoardSame DEF CancelApply
  <2>2. CASE state \notin {"idle", "auth", "countdown"}
    <3>1. handle = NoRun
      BY <2>2 DEF ControlInv, Desk
    <3> QED BY <1>12, <2>2, <3>1, BoardIdle DEF CancelApply, Excused, Fresh, Deleted
  <2> QED BY <1>12, <2>1, <2>2 DEF CancelApply
<1>13. CASE ClickKeep
  <2>1. UNCHANGED <<phase, line, req, out, disk, prior, handle, pending, session, boards>>
    BY <1>13 DEF ClickKeep, Tool!SendKeep
  <2> QED BY <2>1, BoardSame
<1>14. CASE ClickRevert
  BY <1>14, BoardSame DEF ClickRevert
<1> QED BY <1>1, <1>2, <1>3, <1>4, <1>5, <1>6, <1>7, <1>8, <1>9, <1>10, <1>11, <1>12, <1>13, <1>14
        DEF User

LEMMA BoardHandle ==
  ASSUME Typed, ControlInv, BoardInv, NEW r \in Runs, Handle(r)
  PROVE  BoardInv'
<1>1. CASE OnApplied(r)
  <2>1. /\ Take(r, "applied") /\ Head(out[r]) = "applied" /\ out'[r] = Tail(out[r])
        /\ UNCHANGED <<phase, line, req, disk, prior, handle, pending, session, boards>>
    BY <1>1 DEF OnApplied, Take, Typed, TypeOK
  <2>2. r = handle /\ \A s \in Runs \ {r} : out'[s] = out[s]
    BY <2>1, ControlTake
  <2>3. out[r] \in {<<"kept">>, <<"applied", "kept">>} => out'[r] \in {<<"kept">>, <<"applied", "kept">>}
    <3>1. CASE out[r] = <<"kept">>
      BY <2>1, <3>1
    <3>2. CASE out[r] = <<"applied", "kept">>
      <4>1. Tail(<<"applied", "kept">>) = <<"kept">>
        OBVIOUS
      <4> QED BY <2>1, <3>2, <4>1
    <3> QED BY <3>1, <3>2
  <2>4. Lines'
    BY <2>1, <2>2, <2>3 DEF BoardInv, Lines
  <2>5. \A f : Excused(f) => Excused(f)'
    BY <2>1 DEF Excused, Fresh, Deleted
  <2> QED BY <2>1, <2>4, <2>5 DEF BoardInv, InFlight, Contents
<1>2. ASSUME NEW l \in Events \ {"applied"}, Take(r, l), NEW s, Finish(s),
             \A f \in Files : disk[f] = Absent /\ (f \notin boards \/ Fresh(f))
                => Excused(f)',
             \A f \in Files : line[r] = "kept" /\ Deleted(r, f) => f \notin boards',
             boards' \subseteq boards
      PROVE  BoardInv'
  <2>1. /\ r = handle /\ r # NoRun /\ phase[r] \in {"none", "ended"}
        /\ \A t \in Runs \ {r} : out'[t] = out[t]
    BY <1>2, ControlTake
  <2>2. /\ handle' = NoRun
        /\ UNCHANGED <<phase, line, req, disk, prior>>
    BY <1>2 DEF Finish, Take
  <2>3. \A t \in Runs : t # NoRun /\ phase[t] # "window"
    BY <2>1, OneWindow, NothingAssumption DEF NothingAssumption
  <2>4. ASSUME NEW f \in Files, disk[f] = Absent, NEW t \in Runs, Deleted(t, f)
        PROVE  Excused(f)'
    <3>1. CASE line[t] # "kept"
      BY <2>2, <2>3, <2>4, <3>1 DEF Deleted, Excused, Fresh
    <3>2. CASE line[t] = "kept"
      <4>1. t = r
        BY <2>1, <2>3, <2>4, <3>2 DEF Deleted
      <4> QED BY <1>2, <2>4, <3>2, <4>1 DEF Excused, Fresh
    <3> QED BY <3>1, <3>2
  <2>5. \A f \in Files : disk[f] = Absent => Excused(f)'
    BY <1>2, <2>4 DEF BoardInv, Excused, Fresh
  <2>6. Lines' /\ Contents' /\ InFlight'
    BY <2>2, <2>3 DEF BoardInv, Lines, Contents, InFlight
  <2> QED BY <2>2, <2>5, <2>6 DEF BoardInv
<1>3. \A l : Take(r, l) => r = handle /\ handle # NoRun
  BY ControlTake
<1>4. CASE OnKeptDelete(r)
  <2>1. Take(r, "kept") /\ Finish("idle") /\ boards' = boards \ {session.file}
    BY <1>4 DEF OnKeptDelete, DropBoard
  <2>2. session.file = req[r].file
    BY <1>3, <2>1 DEF BoardInv, InFlight
  <2>3. \A f \in Files : Deleted(r, f) => f \notin boards'
    BY <2>1, <2>2 DEF Deleted
  <2>4. \A f \in Files : f \notin boards \/ Fresh(f) => Excused(f)'
    BY <2>1 DEF Excused, Fresh
  <2> QED BY <1>2, <2>1, <2>3, <2>4 DEF Events
<1>5. CASE OnKept(r)
  <2>1. Take(r, "kept") /\ Finish("kept") /\ boards' = boards /\ pending # "delete"
    BY <1>5 DEF OnKept
  <2>2. \A f \in Files : ~Deleted(r, f)
    BY <1>3, <2>1 DEF BoardInv, InFlight, Deleted
  <2>3. session' = session \/ disk[session.file] # Absent
    BY <1>5 DEF OnKept
  <2>4. \A f \in Files : disk[f] = Absent /\ (f \notin boards \/ Fresh(f))
           => Excused(f)'
    BY <2>1, <2>3 DEF Excused, Fresh
  <2> QED BY <1>2, <2>1, <2>2, <2>4 DEF Events
<1>6. CASE OnEnded(r)
  <2>1. PICK l \in Events \ {"applied", "kept"} : Take(r, l) /\ Finish(OutcomeOf(l)) /\ UNCHANGED editVars
    BY <1>6 DEF OnEnded
  <2>2. line[r] # "kept"
    <3>1. out[r] \notin {<<"kept">>, <<"applied", "kept">>}
      BY <2>1 DEF Take
    <3> QED BY <1>3, <2>1, <3>1 DEF BoardInv, Lines
  <2>3. \A f \in Files : f \notin boards \/ Fresh(f) => Excused(f)'
    BY <2>1 DEF Excused, Fresh
  <2> QED BY <1>2, <2>1, <2>2, <2>3
<1> QED BY <1>1, <1>4, <1>5, <1>6 DEF Handle

LEMMA BoardStep ==
  ASSUME "discard in flight" \notin Uses, Typed, ControlInv, BoardInv, [Next]_vars
  PROVE  BoardInv'
<1>1. CASE UNCHANGED vars
  BY <1>1, BoardSame DEF vars
<1> QED BY <1>1, BoardUser, BoardThread, BoardPkexec, BoardRun, BoardHandle DEF Next

LEMMA BoardSafe ==
  ASSUME "discard in flight" \notin Uses
  PROVE  Spec => []BoardInv
<1>1. Typed /\ ControlInv /\ BoardInv /\ [Next]_vars => BoardInv'
  BY BoardStep
<1> QED BY <1>1, BoardInit, Typing, ControlSafe, PTL DEF Spec

\* Under the same condition no board outlives its file: it is dropped with the
\* session that would have created it, or with the run that deleted it, unless
\* that run ended without its verdict or could not put the file back.
THEOREM BoardsHold ==
  ASSUME "discard in flight" \notin Uses
  PROVE  Spec => []BoardsAreReal
<1>1. Typed /\ ControlInv /\ BoardInv => PhantomBoardsGo
  <2> SUFFICES ASSUME Typed, ControlInv, BoardInv, NEW f \in boards, disk[f] = Absent,
                      ~(session # NoSession /\ session.file = f)
               PROVE  \E r \in Runs :
                        /\ req[r] # NoRequest /\ req[r].file = f
                        /\ \/ ~Over(r)
                           \/ req[r].op = "delete" /\ line[r] \in {"applied", "nothing", "revert-failed"}
    BY DEF PhantomBoardsGo
  <2>1. f \in Files
    BY DEF Typed, TypeOK
  <2>2. PICK r \in Runs : Deleted(r, f)
    BY <2>1 DEF BoardInv, Excused, Fresh
  <2>3. CASE line[r] \in {"applied", "nothing", "revert-failed"}
    BY <2>2, <2>3 DEF Deleted
  <2>4. CASE phase[r] = "ended" /\ line[r] = "kept" /\ r = handle
    <3>1. out[r] \in {<<"kept">>, <<"applied", "kept">>}
      BY <2>4 DEF BoardInv, Lines
    <3>2. <<"kept">> # <<>> /\ <<"applied", "kept">> # <<>>
      OBVIOUS
    <3> QED BY <2>2, <3>1, <3>2 DEF Deleted, Over
  <2>5. CASE phase[r] = "window"
    BY <2>3, <2>5 DEF BoardInv, Lines
  <2> QED BY <2>2, <2>3, <2>4, <2>5 DEF Deleted
<1>2. Typed /\ ControlInv /\ BoardInv => BoardsAreReal
  BY <1>1 DEF BoardsAreReal, Typed
<1> QED BY <1>2, Typing, ControlSafe, BoardSafe, PTL

-----------------------------------------------------------------------------
(* Edits.                                                                  *)

\* A run in flight carries the edits of the session, unless it deletes; a
\* restore that waits for its confirmation has none to lose.
Carries ==
  /\ handle # NoRun /\ req[handle].op # "delete" => session.edits \subseteq req[handle].bytes
  /\ state = "confirm" /\ pending = "restore" => session.edits = {}

\* What a run is about to keep, or has kept and not yet said, is on disk.
OnDisk ==
  \A r \in Runs :
    phase[r] = "window" \/ (line[r] = "kept" /\ r = handle) => disk[req[r].file] = req[r].bytes

\* `kept' is never said of a change that is not.
Honest ==
  \A r \in Runs : out[r] \in {<<"kept">>, <<"applied", "kept">>} => line[r] = "kept"

EditInv == Carries /\ OnDisk /\ Honest

\* What the user does not do.
Careful == {"discard in flight", "restore over edits"} \cap Uses = {}

LEMMA EditInit == Init => EditInv
BY DEF Init, Tool!Init, EditInv, Carries, OnDisk, Honest

\* What the user does never reaches a run that was launched, or its lines.
LEMMA UserAside ==
  ASSUME Typed, User
  PROVE  /\ UNCHANGED <<phase, line, out, disk>>
         /\ \A r \in Runs : req[r] # NoRequest => req'[r] = req[r]
         /\ handle' \in {handle, NoRun} \/ req[handle'] = NoRequest
<1>1. CASE OpenEdit \/ (\E f \in Files : CreateConfig(f)) \/ LeaveEdit(NoFile)
           \/ (\E k \in boards : PickKeyboard(k)) \/ ConfirmDiscard \/ CancelDiscard
           \/ (\E e \in Edits : Edit(e))
  BY <1>1 DEF OpenEdit, CreateConfig, Enter, LeaveEdit, Ask, ExitEdit, PickKeyboard, ConfirmDiscard,
              CancelDiscard, Edit
<1>2. ASSUME NEW r \in Runs, NEW op, NEW want, NEW bytes, Spawn(r, op, want, bytes)
      PROVE  /\ UNCHANGED <<phase, line, out, disk>>
             /\ \A s \in Runs : req[s] # NoRequest => req'[s] = req[s]
             /\ req[handle'] = NoRequest
  BY <1>2 DEF Spawn, Typed, TypeOK
<1>3. ASSUME Fail PROVE UNCHANGED <<phase, line, out, disk, req, handle>>
  BY <1>3 DEF Fail
<1>4. CASE StartApply \/ RestoreBackup \/ ConfirmApply \/ DeleteConfig
  BY <1>2, <1>3, <1>4 DEF StartApply, RestoreBackup, ConfirmApply, DeleteConfig, Proceed, LaunchApply,
                          ExitEdit
<1>5. CASE CancelApply \/ ClickKeep \/ ClickRevert
  BY <1>5 DEF CancelApply, ClickKeep, ClickRevert, Tool!SendKeep
<1> QED BY <1>1, <1>4, <1>5 DEF User

LEMMA EditRuns ==
  ASSUME Typed, ControlInv, BoardInv, EditInv, User
  PROVE  OnDisk' /\ Honest'
<1>1. \A r \in Runs : phase[r] = "window" \/ line[r] = "kept" => req[r] # NoRequest
  BY DEF Typed, Launched, BoardInv, Lines
<1>2. \A r \in Runs : phase'[r] = "window" \/ (line'[r] = "kept" /\ r = handle')
        => /\ phase[r] = "window" \/ (line[r] = "kept" /\ r = handle)
           /\ req'[r] = req[r]
  BY <1>1, UserAside, NothingAssumption DEF NothingAssumption
<1> QED BY <1>2, UserAside DEF EditInv, OnDisk, Honest

LEMMA CarriesLaunch ==
  ASSUME Typed, session # NoSession, NEW intent, NEW want, LaunchApply(intent, want),
         intent = "restore" => session.edits = {}, handle = NoRun
  PROVE  Carries'
<1>1. CASE Fail
  BY <1>1 DEF Fail, Carries
<1>2. ASSUME NEW r \in Runs, NEW op, NEW bytes, Spawn(r, op, want, bytes), session.edits \subseteq bytes
      PROVE  Carries'
  <2>1. handle' = r /\ req'[r].bytes = bytes /\ session' = session /\ state' = "auth"
    BY <1>2 DEF Spawn, Typed, TypeOK
  <2> QED BY <1>2, <2>1 DEF Carries
<1> QED BY <1>1, <1>2 DEF LaunchApply

LEMMA CarriesProceed ==
  ASSUME Typed, session # NoSession, NEW intent, NEW want, Proceed(intent, want),
         intent = "restore" => session.edits = {}, handle = NoRun
  PROVE  Carries'
<1>1. CASE LaunchApply(intent, want)
  BY <1>1, CarriesLaunch
<1>2. CASE pending' = intent /\ UNCHANGED <<RunsRest, hup, editVars, handle, dialog>>
  BY <1>2 DEF Carries
<1> QED BY <1>1, <1>2 DEF Proceed

LEMMA CarriesUser ==
  ASSUME Typed, ControlInv, EditInv, Careful, User
  PROVE  Carries'
<1>idle. session = NoSession \/ ~Busy => handle = NoRun
  BY DEF ControlInv, Desk, Busy
<1>1. ASSUME NEW k, ExitEdit(k) PROVE Carries'
  BY <1>1 DEF ExitEdit, Carries
<1>2. CASE OpenEdit \/ \E f \in Files : CreateConfig(f)
  BY <1>2, <1>idle DEF OpenEdit, CreateConfig, Enter, Carries
<1>3. ASSUME NEW k, LeaveEdit(k) PROVE Carries'
  BY <1>1, <1>3 DEF LeaveEdit, Ask, EditInv, Carries
<1>4. CASE \E k \in boards : PickKeyboard(k)
  BY <1>3, <1>4 DEF PickKeyboard, EditInv, Carries
<1>5. CASE ConfirmDiscard \/ CancelDiscard
  BY <1>1, <1>5 DEF ConfirmDiscard, CancelDiscard, EditInv, Carries
<1>6. CASE \E e \in Edits : Edit(e)
  BY <1>6, <1>idle DEF Edit, Busy, Carries
<1>7. CASE StartApply \/ RestoreBackup
  <2>1. handle = NoRun
    BY <1>7 DEF StartApply, RestoreBackup, ControlInv, Desk
  <2>2. CASE Fail
    BY <2>1, <2>2 DEF Fail, Carries
  <2> QED BY <1>7, <2>1, <2>2, CarriesProceed DEF StartApply, RestoreBackup, Careful
<1>8. CASE ConfirmApply
  <2>1. handle = NoRun /\ (pending = "restore" => session.edits = {})
    BY <1>8 DEF ConfirmApply, ControlInv, Desk, EditInv, Carries
  <2> QED BY <1>8, <2>1, CarriesLaunch DEF ConfirmApply
<1>9. CASE DeleteConfig
  <2>1. handle = NoRun
    BY <1>9, <1>idle DEF DeleteConfig
  <2>2. CASE Fail
    BY <2>1, <2>2 DEF Fail, Carries
  <2>3. ASSUME NEW r \in Runs, Spawn(r, "delete", "delete", Absent) PROVE Carries'
    BY <2>3 DEF Spawn, Carries, Typed, TypeOK
  <2> QED BY <1>1, <1>9, <2>2, <2>3 DEF DeleteConfig
<1>10. CASE CancelApply \/ ClickKeep \/ ClickRevert
  BY <1>10 DEF CancelApply, ClickKeep, ClickRevert, Tool!SendKeep, EditInv, Carries
<1> QED BY <1>2, <1>3, <1>4, <1>5, <1>6, <1>7, <1>8, <1>9, <1>10 DEF User

LEMMA EditQuiet ==
  ASSUME EditInv, NEW r \in Runs, Thread(r) \/ Authorize(r), Typed
  PROVE  EditInv'
<1>1. UNCHANGED <<line, req, out, disk, handle, pending, session, state>>
  BY DEF Thread, TakeLock, FinishWrite, Authorize, Tool!Begin
<1>2. \A s \in Runs : phase'[s] = "window" => phase[s] = "window"
  BY DEF Thread, TakeLock, FinishWrite, Authorize, Tool!Begin, Tool!Enter, Typed, TypeOK
<1> QED BY <1>1, <1>2 DEF EditInv, Carries, OnDisk, Honest

\* What a line leaves in the pipe.
LEMMA LastLine ==
  ASSUME Typed, NEW r \in Runs, out[r] \in {<<>>, <<"applied">>}, NEW l \in Events, Post(r, l)
  PROVE  out'[r] \in {<<"kept">>, <<"applied", "kept">>} <=> l = "kept"
<1>1. out'[r] = Append(out[r], l)
  BY PostTyped
<1>2. Append(<<>>, l) = <<l>> /\ <<l>> # <<"applied", "kept">> /\ (<<l>> = <<"kept">> <=> l = "kept")
  OBVIOUS
<1>3. Append(<<"applied">>, l) = <<"applied", l>>
  BY SecondLine DEF Events
<1>4. <<"applied", l>> # <<"kept">> /\ (<<"applied", l>> = <<"applied", "kept">> <=> l = "kept")
  OBVIOUS
<1> QED BY <1>1, <1>2, <1>3, <1>4

LEMMA EditDeny ==
  ASSUME EditInv, NEW r \in Runs, Deny(r), Typed, ControlInv
  PROVE  EditInv'
<1>1. UNCHANGED <<phase, line, req, disk, handle, pending, session, state>> /\ Post(r, "denied")
  BY DEF Deny
<1>2. out[r] = <<>>
  BY DEF Deny, ControlInv, Stage, Past, Starting, Open, Ending, Typed, Launched
<1>3. out'[r] \notin {<<"kept">>, <<"applied", "kept">>}
  BY <1>1, <1>2, LastLine DEF Events
<1> QED BY <1>1, <1>3, PostTyped DEF EditInv, Carries, OnDisk, Honest, Events

LEMMA EditRun ==
  ASSUME Typed, ControlInv, BoardInv, EditInv, NEW r \in Runs, RunStep(r)
  PROVE  EditInv'
<1> USE DEF Tool!Enter, Tool!Says
<1>1. phase[r] \in {"begun", "window"} /\ UNCHANGED ToolRest
  BY DEF RunStep, RunRefuses, RunApplies, RunKeeps, RunReverts, RunCannotRevert, RunDies,
         Tool!Refused, Tool!Applied, Tool!Kept, Tool!Undone, Tool!Dies
<1>2. r = handle /\ req[r].file \in Files /\ line[r] # "kept"
  BY <1>1, OneWindow DEF Typed, TypeOK, Request, BoardInv, Lines
<1>3. out[r] \in {<<>>, <<"applied">>}
  BY <1>1, <1>2 DEF ControlInv, Stage, Past, Starting, Open, Ending, Typed, Launched
<1>4. PICK l \in Events :
        /\ Post(r, l)
        /\ line'[r] = "kept" <=> l = "kept"
        /\ phase'[r] = "window" => disk'[req[r].file] = req[r].bytes
        /\ line'[r] = "kept" => phase[r] = "window" /\ disk' = disk
        /\ \A s \in Runs \ {r} : phase'[s] = phase[s] /\ line'[s] = line[s]
  BY <1>1, <1>2 DEF RunStep, RunRefuses, RunApplies, RunKeeps, RunReverts, RunCannotRevert, RunDies,
         Tool!Refused, Tool!Applied, Tool!Kept, Tool!Undone, Tool!Dies, Events, Change, Typed, TypeOK
<1>5. \A s \in Runs \ {r} : out'[s] = out[s]
  BY <1>4, PostTyped
<1>6. \A s \in Runs \ {r} : phase[s] # "window" /\ s # handle
  BY <1>2, OneWindow
<1>7. OnDisk'
  BY <1>1, <1>2, <1>4, <1>6 DEF EditInv, OnDisk
<1>8. Honest'
  BY <1>3, <1>4, <1>5, LastLine DEF EditInv, Honest
<1>9. Carries'
  BY <1>1 DEF EditInv, Carries
<1> QED BY <1>7, <1>8, <1>9 DEF EditInv

LEMMA EditTake ==
  ASSUME Typed, ControlInv, BoardInv, EditInv, NEW r \in Runs, NEW l, Take(r, l)
  PROVE  /\ r = handle /\ handle # NoRun
         /\ l = "kept" => line[r] = "kept"
         /\ Honest'
<1>1. /\ r = handle /\ handle # NoRun /\ \A s \in Runs \ {r} : out'[s] = out[s]
      /\ l # "applied" => out'[r] = <<>>
      /\ l \in Events
  BY ControlTake
<1>2. Head(out[r]) = l /\ out'[r] = Tail(out[r]) /\ out[r] # <<>> /\ line' = line /\ out[r] \in Seq(Events)
  BY DEF Take, Typed, TypeOK
<1>3. out[r] \in {<<"denied">>, <<"applied">>}
      \/ \E v \in Events \ {"applied", "denied"} : out[r] \in {<<v>>, <<"applied", v>>}
  BY <1>1, <1>2 DEF Take, ControlInv, Stage, Past, Starting, Open, Ending, Typed, Launched
<1>4. ASSUME l = "kept" PROVE out[r] = <<"kept">>
  BY <1>2, <1>3, <1>4
<1>5. ASSUME l = "applied", out'[r] \in {<<"kept">>, <<"applied", "kept">>}
      PROVE  out[r] = <<"applied", "kept">>
  <2>1. ASSUME out[r] \in {<<"denied">>, <<"applied">>} PROVE FALSE
    <3>1. Tail(<<"applied">>) = <<>> /\ Tail(<<"denied">>) = <<>>
      OBVIOUS
    <3>2. <<>> # <<"kept">> /\ <<>> # <<"applied", "kept">>
      OBVIOUS
    <3> QED BY <1>2, <1>5, <2>1, <3>1, <3>2
  <2>2. ASSUME NEW v \in Events \ {"applied", "denied"}, out[r] = <<v>> PROVE FALSE
    BY <1>2, <1>5, <2>2
  <2>3. ASSUME NEW v \in Events \ {"applied", "denied"}, out[r] = <<"applied", v>> PROVE v = "kept"
    <3>1. Tail(<<"applied", v>>) = <<v>>
      OBVIOUS
    <3> QED BY <1>2, <1>5, <2>3, <3>1
  <2> QED BY <1>3, <2>1, <2>2, <2>3
<1>6. <<>> \notin {<<"kept">>, <<"applied", "kept">>}
  OBVIOUS
<1> QED BY <1>1, <1>2, <1>4, <1>5, <1>6 DEF EditInv, Honest

LEMMA EditHandle ==
  ASSUME Typed, ControlInv, BoardInv, EditInv, NEW r \in Runs, Handle(r)
  PROVE  EditInv'
<1>1. PICK l : Take(r, l) /\ ((handle' = handle /\ session' = session) \/ handle' = NoRun)
               /\ state' # "confirm"
  BY DEF Handle, OnApplied, OnKeptDelete, OnKept, OnEnded, Finish, OutcomeOf, Events
<1>2. Honest'
  BY <1>1, EditTake
<1>3. UNCHANGED <<phase, line, req, disk>>
  BY <1>1 DEF Take
<1>4. OnDisk'
  BY <1>1, <1>3, NothingAssumption DEF NothingAssumption, EditInv, OnDisk
<1>5. Carries'
  BY <1>1, <1>3 DEF EditInv, Carries
<1> QED BY <1>2, <1>4, <1>5 DEF EditInv

LEMMA EditStep ==
  ASSUME Careful, Typed, ControlInv, BoardInv, EditInv, [Next]_vars
  PROVE  EditInv'
<1>1. CASE UNCHANGED vars
  BY <1>1 DEF vars, EditInv, Carries, OnDisk, Honest
<1>2. CASE User
  BY <1>2, EditRuns, CarriesUser DEF EditInv
<1> QED BY <1>1, <1>2, EditQuiet, EditDeny, EditRun, EditHandle DEF Next, Pkexec

LEMMA EditsStay ==
  ASSUME Careful, Typed, ControlInv, BoardInv, EditInv, [Next]_vars,
         session # NoSession, NEW e \in session.edits
  PROVE  \/ session' # NoSession /\ session'.file = session.file
              /\ e \in session'.edits \union session'.base
         \/ disk[session.file] # Absent /\ e \in disk[session.file]
         \/ asked /\ ~asked'
         \/ pending = "delete" \/ (session.new /\ session' = NoSession)
<1>1. CASE session' = session
  BY <1>1
<1>2. ASSUME NEW k, LeaveEdit(k) PROVE session' = session
  BY <1>2 DEF LeaveEdit, Dirty, Ask
<1>3. CASE User
  <2>1. CASE ConfirmDiscard
    BY <2>1 DEF ConfirmDiscard, ExitEdit
  <2>2. CASE \E x \in Edits : Edit(x)
    <3>1. PICK x \in Edits : session' = [session EXCEPT !.edits = @ \union {x}]
      BY <2>2 DEF Edit
    <3>2. session \in Session
      BY DEF Typed, TypeOK
    <3>3. session' \in Session /\ session'.file = session.file /\ e \in session'.edits
      BY <3>1, <3>2 DEF Session
    <3> QED BY <3>3, NothingAssumption DEF NothingAssumption
  <2>3. CASE DeleteConfig
    BY <2>3 DEF DeleteConfig, ExitEdit, Fail, Spawn
  <2>4. CASE StartApply \/ RestoreBackup \/ ConfirmApply
    BY <1>1, <2>4 DEF StartApply, RestoreBackup, ConfirmApply, Proceed, LaunchApply, Fail, Spawn
  <2> QED BY <1>1, <1>2, <1>3, <2>1, <2>2, <2>3, <2>4
          DEF User, OpenEdit, CreateConfig, PickKeyboard, CancelDiscard, CancelApply, ClickKeep, ClickRevert
<1>4. ASSUME NEW r \in Runs, OnKept(r)
      PROVE  session' = session \/ (disk[session.file] # Absent /\ e \in disk[session.file])
  <2>1. Take(r, "kept") /\ pending # "delete"
    BY <1>4 DEF OnKept
  <2>2. r = handle /\ handle # NoRun /\ line[r] = "kept"
    BY <2>1, EditTake
  <2>3. disk[req[r].file] = req[r].bytes /\ session.file = req[r].file /\ req[r].op # "delete"
    BY <2>1, <2>2 DEF EditInv, OnDisk, BoardInv, InFlight
  <2>4. e \in req[r].bytes
    BY <2>2, <2>3 DEF EditInv, Carries
  <2>5. req[r].bytes # Absent
    BY <2>1, <2>3, TakeTyped DEF BoardInv, Contents
  <2> QED BY <2>3, <2>4, <2>5
<1>5. CASE \E r \in Runs : Handle(r)
  BY <1>1, <1>4, <1>5 DEF Handle, OnApplied, OnKeptDelete, OnEnded
<1>6. ASSUME NEW r \in Runs, Thread(r) \/ Pkexec(r) \/ RunStep(r) PROVE session' = session
  BY <1>6 DEF Thread, TakeLock, FinishWrite, Pkexec, Authorize, Deny, RunStep, RunRefuses,
     RunApplies, RunKeeps, RunReverts, RunCannotRevert, RunDies
<1> QED BY <1>1, <1>3, <1>5, <1>6 DEF Next, vars

LEMMA EditSafe ==
  ASSUME Careful
  PROVE  Spec => []EditInv
<1>1. "discard in flight" \notin Uses
  BY DEF Careful
<1>2. Typed /\ ControlInv /\ BoardInv /\ EditInv /\ [Next]_vars => EditInv'
  BY EditStep
<1> QED BY <1>1, <1>2, EditInit, Typing, ControlSafe, BoardSafe, PTL DEF Spec

\* If, besides, no backup is restored over unsaved edits, an edit leaves the
\* session only into the file or by a decision to discard or delete: whatever is
\* kept carries the edits the session had when the run was launched, and they
\* cannot have changed since.
THEOREM EditsHold ==
  ASSUME Careful
  PROVE  Spec => EditsAreNeverDropped
<1>1. "discard in flight" \notin Uses
  BY DEF Careful
<1>2. Typed /\ ControlInv /\ BoardInv /\ EditInv /\ [Next]_vars
        => [session # NoSession =>
             \A e \in session.edits :
               \/ session' # NoSession /\ session'.file = session.file
                    /\ e \in session'.edits \union session'.base
               \/ disk[session.file] # Absent /\ e \in disk[session.file]
               \/ asked /\ ~asked'
               \/ pending = "delete" \/ (session.new /\ session' = NoSession)]_vars
  BY EditsStay
<1> QED BY <1>1, <1>2, EditSafe, BoardSafe, ControlSafe, Typing, PTL DEF Spec, EditsAreNeverDropped
=============================================================================
