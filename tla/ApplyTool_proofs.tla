--------------------------- MODULE ApplyTool_proofs ---------------------------
(***************************************************************************)
(* Proofs about the apply tool, for any number of runs, files, contents    *)
(* and I/O failures: its types and control, what each ending says of the   *)
(* files, runs side by side, the backups, and that the tool implements     *)
(* RunProtocol and DeadMan.                                                *)
(***************************************************************************)
EXTENDS ApplyTool, WriteSet, SequenceTheorems, FiniteSetTheorems, TLAPS

-----------------------------------------------------------------------------
(* The control invariant: where a run of main.rs is, what its transaction  *)
(* does and what it has said belong together.                              *)

LEMMA ControlInit == Init => ControlInv
<1> SUFFICES ASSUME Init PROVE ControlInv
  OBVIOUS
<1> USE TxnAssumption, ToolAssumption DEF Init, TxnInit
<1>1. TypeOK
  BY DEF TypeOK, TxnTypeOK, Steps, Values, Places
<1>2. \A r \in Runs : Control(r)
  BY DEF Control
<1> QED BY <1>1, <1>2 DEF ControlInv

LEMMA ControlStart ==
  ASSUME ControlInv, NEW r \in Runs, NEW q \in Requests, Start(r, q)
  PROVE  ControlInv'
<1> USE DEF ControlInv, Start, In, Move, dirVars, runVars, pipeVars
<1>1. TypeOK'
  BY DEF TypeOK, TxnTypeOK, Places
<1>2. ASSUME NEW s \in Runs PROVE Control(s)'
  BY DEF Control, TypeOK, TxnTypeOK, Op, Own
<1> QED BY <1>1, <1>2

LEMMA Appends ==
  ASSUME NEW S, NEW x \in S, NEW y \in S
  PROVE  Append(<<>>, x) = <<x>> /\ Append(<<y>>, x) = <<y, x>>
<1> DEFINE t == Append(<<y>>, x)
           u == <<y, x>>
<1>1. <<y>> \in Seq(S) /\ Len(<<y>>) = 1
  OBVIOUS
<1>2. t \in Seq(S) /\ Len(t) = 2 /\ t[1] = y /\ t[2] = x
  BY <1>1
<1>3. u \in Seq(S) /\ Len(u) = 2 /\ u[1] = y /\ u[2] = x
  OBVIOUS
<1>4. t = u
  <2> HIDE DEF t, u
  <2>1. Len(t) = Len(u) /\ \A i \in 1 .. Len(t) : t[i] = u[i]
    BY <1>2, <1>3
  <2> QED BY <1>2, <1>3, <2>1, SeqEqual
<1> QED BY <1>4

LEMMA MoveTyped ==
  ASSUME TypeOK, NEW r \in Runs, NEW p \in Places, Move(r, p)
  PROVE  at' \in [Runs -> Places] /\ at'[r] = p
BY DEF TypeOK, Move

LEMMA SayTyped ==
  ASSUME TypeOK, NEW r \in Runs, NEW l \in Lines, Say(r, l)
  PROVE  said' \in [Runs -> Seq(Lines)] /\ said'[r] = Append(said[r], l)
BY DEF TypeOK, Say

LEMMA SayFirst ==
  ASSUME TypeOK, NEW r \in Runs, NEW l \in Lines, Say(r, l), said[r] = <<>>
  PROVE  said'[r] = <<l>>
<1>1. said'[r] = Append(<<>>, l)
  BY SayTyped
<1> QED BY <1>1, Appends

LEMMA SaySecond ==
  ASSUME TypeOK, NEW r \in Runs, NEW l \in Lines, Say(r, l),
         NEW k \in Lines, said[r] = <<k>>
  PROVE  said'[r] = <<k, l>>
<1>1. said'[r] = Append(<<k>>, l)
  BY SayTyped
<1> QED BY <1>1, Appends

LEMMA GotoTyped ==
  ASSUME TxnTypeOK, NEW r \in Runs, NEW p \in Steps, Goto(r, p)
  PROVE  step' \in [Runs -> Steps] /\ step'[r] = p
BY DEF TxnTypeOK, Goto

\* Only run r moves.
Only(r) ==
  \A s \in Runs \ {r} :
    /\ at'[s] = at[s]
    /\ req'[s] = req[s]
    /\ said'[s] = said[s]
    /\ inbox'[s] = inbox[s]
    /\ step'[s] = step[s]
    /\ todo'[s] = todo[s]
    /\ prior'[s] = prior[s]
    /\ applied'[s] = applied[s]

LEMMA OnlyControl ==
  ASSUME ControlInv, NEW r \in Runs, Only(r), TypeOK', Control(r)'
  PROVE  ControlInv'
<1> SUFFICES ASSUME NEW s \in Runs \ {r} PROVE Control(s)'
  BY DEF ControlInv
<1>1. Control(s)
  BY DEF ControlInv
<1> QED
  BY <1>1 DEF Control, Only, Op, Own

LEMMA ControlRefuse ==
  ASSUME ControlInv, NEW r \in Runs, Refuse(r)
  PROVE  ControlInv'
<1>1. TypeOK /\ Control(r) /\ at[r] = "payload"
  BY DEF ControlInv, Refuse, In
<1>2. at' \in [Runs -> Places] /\ at'[r] = "exit"
  BY <1>1, MoveTyped DEF Refuse, Places
<1>3. said' \in [Runs -> Seq(Lines)] /\ said'[r] = Append(said[r], "error")
  BY <1>1, SayTyped DEF Refuse, Lines
<1>4. TypeOK'
  BY <1>1, <1>2, <1>3 DEF Refuse, txnVars, dirVars, runVars, histVars, pipeVars, TypeOK, TxnTypeOK
<1>5. Only(r)
  BY <1>1 DEF Refuse, txnVars, dirVars, runVars, histVars, pipeVars, Move, Say, Only, TypeOK, TxnTypeOK
<1>6. UNCHANGED <<req, inbox, todo, prior, step, applied>>
  BY DEF Refuse, txnVars, dirVars, runVars, histVars, pipeVars
<1>7. said'[r] = <<"error">>
  <2>1. said[r] = <<>>
    BY <1>1 DEF Control
  <2> QED BY <1>1, <2>1, SayFirst DEF Refuse, Lines
<1>8. Control(r)'
  BY <1>1, <1>2, <1>7, <1>6 DEF Control, Op, Own
<1> QED BY <1>4, <1>5, <1>8, OnlyControl

LEMMA ControlRefuseSensitive ==
  ASSUME ControlInv, NEW r \in Runs, RefuseSensitive(r)
  PROVE  ControlInv'
<1>1. TypeOK /\ Control(r) /\ at[r] = "payload"
  BY DEF ControlInv, RefuseSensitive, In
<1>2. at' \in [Runs -> Places] /\ at'[r] = "exit"
  BY <1>1, MoveTyped DEF RefuseSensitive, Places
<1>3. said' \in [Runs -> Seq(Lines)] /\ said'[r] = Append(said[r], "error")
  BY <1>1, SayTyped DEF RefuseSensitive, Lines
<1>4. TypeOK'
  BY <1>1, <1>2, <1>3 DEF RefuseSensitive, txnVars, dirVars, runVars, histVars, pipeVars, TypeOK, TxnTypeOK
<1>5. Only(r)
  BY <1>1 DEF RefuseSensitive, txnVars, dirVars, runVars, histVars, pipeVars, Move, Say, Only, TypeOK, TxnTypeOK
<1>6. UNCHANGED <<req, inbox, todo, prior, step, applied>>
  BY DEF RefuseSensitive, txnVars, dirVars, runVars, histVars, pipeVars
<1>7. said'[r] = <<"error">>
  <2>1. said[r] = <<>>
    BY <1>1 DEF Control
  <2> QED BY <1>1, <2>1, SayFirst DEF RefuseSensitive, Lines
<1>8. Control(r)'
  BY <1>1, <1>2, <1>7, <1>6 DEF Control, Op, Own
<1> QED BY <1>4, <1>5, <1>8, OnlyControl

LEMMA ControlTxnFailed ==
  ASSUME ControlInv, NEW r \in Runs, TxnFailed(r)
  PROVE  ControlInv'
<1>1. TypeOK /\ Control(r) /\ at[r] = "txn" /\ step[r] = "failed"
  BY DEF ControlInv, TxnFailed, In
<1>2. at' \in [Runs -> Places] /\ at'[r] = "exit"
  BY <1>1, MoveTyped DEF TxnFailed, Places
<1>3. said' \in [Runs -> Seq(Lines)] /\ said'[r] = Append(said[r], "error")
  BY <1>1, SayTyped DEF TxnFailed, Lines
<1>4. TypeOK'
  BY <1>1, <1>2, <1>3 DEF TxnFailed, txnVars, dirVars, runVars, histVars, pipeVars, TypeOK, TxnTypeOK
<1>5. Only(r)
  BY <1>1 DEF TxnFailed, txnVars, dirVars, runVars, histVars, pipeVars, Move, Say, Only, TypeOK, TxnTypeOK
<1>6. UNCHANGED <<req, inbox, todo, prior, step, applied>>
  BY DEF TxnFailed, txnVars, dirVars, runVars, histVars, pipeVars
<1>7. said'[r] = <<"error">>
  <2>1. said[r] = <<>>
    BY <1>1 DEF Control
  <2> QED BY <1>1, <2>1, SayFirst DEF TxnFailed, Lines
<1>8. Control(r)'
  BY <1>1, <1>2, <1>7, <1>6 DEF Control, Op, Own
<1> QED BY <1>4, <1>5, <1>8, OnlyControl

LEMMA ControlReload ==
  ASSUME ControlInv, NEW r \in Runs, Reload(r)
  PROVE  ControlInv'
<1>1. TypeOK /\ Control(r) /\ at[r] = "txn" /\ step[r] = "open"
  BY DEF ControlInv, Reload, In
<1>2. at' \in [Runs -> Places] /\ at'[r] = "window"
  BY <1>1, MoveTyped DEF Reload, Places
<1>3. said' \in [Runs -> Seq(Lines)] /\ said'[r] = Append(said[r], "applied")
  BY <1>1, SayTyped DEF Reload, Lines
<1>4. TypeOK'
  BY <1>1, <1>2, <1>3 DEF Reload, txnVars, dirVars, runVars, histVars, pipeVars, TypeOK, TxnTypeOK
<1>5. Only(r)
  BY <1>1 DEF Reload, txnVars, dirVars, runVars, histVars, pipeVars, Move, Say, Only, TypeOK, TxnTypeOK
<1>6. UNCHANGED <<req, inbox, todo, prior, step, applied>>
  BY DEF Reload, txnVars, dirVars, runVars, histVars, pipeVars
<1>7. said'[r] = <<"applied">>
  <2>1. said[r] = <<>>
    BY <1>1 DEF Control
  <2> QED BY <1>1, <2>1, SayFirst DEF Reload, Lines
<1>8. Control(r)'
  BY <1>1, <1>2, <1>7, <1>6 DEF Control, Op, Own
<1> QED BY <1>4, <1>5, <1>8, OnlyControl

LEMMA ControlReloadFails ==
  ASSUME ControlInv, NEW r \in Runs, ReloadFails(r)
  PROVE  ControlInv'
<1>1. TypeOK /\ Control(r) /\ at[r] = "txn" /\ step[r] = "open"
  BY DEF ControlInv, ReloadFails, In, Revert, At
<1>2. at' \in [Runs -> Places] /\ at'[r] = "undo"
  BY <1>1, MoveTyped DEF ReloadFails, Places
<1>3. step' \in [Runs -> Steps] /\ step'[r] = "revert"
  BY <1>1, GotoTyped DEF ReloadFails, Revert, TypeOK, Steps
<1>4. TypeOK'
  BY <1>1, <1>2, <1>3 DEF ReloadFails, Revert, txnVars, dirVars, runVars, histVars, pipeVars, TypeOK, TxnTypeOK
<1>5. Only(r)
  BY <1>1 DEF ReloadFails, Revert, txnVars, dirVars, runVars, histVars, pipeVars, Move, Goto, Only, TypeOK, TxnTypeOK
<1>6. UNCHANGED <<req, inbox, todo, prior, said, applied>>
  BY DEF ReloadFails, Revert, txnVars, dirVars, runVars, histVars, pipeVars
<1>7. Control(r)'
  BY <1>1, <1>2, <1>3, <1>6 DEF Control, Op, Own
<1> QED BY <1>4, <1>5, <1>7, OnlyControl

LEMMA ControlWindowKeep ==
  ASSUME ControlInv, NEW r \in Runs, WindowKeep(r)
  PROVE  ControlInv'
<1>1. TypeOK /\ Control(r) /\ at[r] = "window" /\ inbox[r] = "keep" /\ step[r] = "open"
  BY DEF ControlInv, WindowKeep, In, Keep, At
<1>2. at' \in [Runs -> Places] /\ at'[r] = "kept"
  BY <1>1, MoveTyped DEF WindowKeep, Places
<1>3. step' \in [Runs -> Steps] /\ step'[r] = "kept"
  BY <1>1, GotoTyped DEF WindowKeep, Keep, TypeOK, Steps
<1>4. applied' \in [Runs -> Seq(Undo)] /\ applied'[r] = <<>>
  BY <1>1 DEF WindowKeep, Keep, TypeOK, TxnTypeOK
<1>5. TypeOK'
  BY <1>1, <1>2, <1>3, <1>4 DEF WindowKeep, Keep, txnVars, dirVars, runVars, histVars, pipeVars, TypeOK, TxnTypeOK
<1>6. Only(r)
  BY <1>1 DEF WindowKeep, Keep, txnVars, dirVars, runVars, histVars, pipeVars, Move, Goto, Only, TypeOK, TxnTypeOK
<1>7. UNCHANGED <<req, inbox, todo, prior, said>>
  BY DEF WindowKeep, Keep, txnVars, dirVars, runVars, histVars, pipeVars
<1>8. Control(r)'
  BY <1>1, <1>2, <1>3, <1>4, <1>7 DEF Control, Op, Own
<1> QED BY <1>5, <1>6, <1>8, OnlyControl

LEMMA ControlWindowRevert ==
  ASSUME ControlInv, NEW r \in Runs, WindowRevert(r)
  PROVE  ControlInv'
<1>1. TypeOK /\ Control(r) /\ at[r] = "window" /\ step[r] = "open"
  BY DEF ControlInv, WindowRevert, In, Revert, At
<1>2. at' \in [Runs -> Places] /\ at'[r] = "undo"
  BY <1>1, MoveTyped DEF WindowRevert, Places
<1>3. step' \in [Runs -> Steps] /\ step'[r] = "revert"
  BY <1>1, GotoTyped DEF WindowRevert, Revert, TypeOK, Steps
<1>4. TypeOK'
  BY <1>1, <1>2, <1>3 DEF WindowRevert, Revert, txnVars, dirVars, runVars, histVars, pipeVars, TypeOK, TxnTypeOK
<1>5. Only(r)
  BY <1>1 DEF WindowRevert, Revert, txnVars, dirVars, runVars, histVars, pipeVars, Move, Goto, Only, TypeOK, TxnTypeOK
<1>6. UNCHANGED <<req, inbox, todo, prior, said, applied>>
  BY DEF WindowRevert, Revert, txnVars, dirVars, runVars, histVars, pipeVars
<1>7. Control(r)'
  BY <1>1, <1>2, <1>3, <1>6 DEF Control, Op, Own
<1> QED BY <1>4, <1>5, <1>7, OnlyControl

LEMMA ControlSayKept ==
  ASSUME ControlInv, NEW r \in Runs, SayKept(r)
  PROVE  ControlInv'
<1>1. TypeOK /\ Control(r) /\ at[r] = "kept" /\ step[r] = "pruned"
  BY DEF ControlInv, SayKept, In
<1>2. at' \in [Runs -> Places] /\ at'[r] = "exit"
  BY <1>1, MoveTyped DEF SayKept, Places
<1>3. said' \in [Runs -> Seq(Lines)] /\ said'[r] = Append(said[r], "kept")
  BY <1>1, SayTyped DEF SayKept, Lines
<1>4. TypeOK'
  BY <1>1, <1>2, <1>3 DEF SayKept, txnVars, dirVars, runVars, histVars, pipeVars, TypeOK, TxnTypeOK
<1>5. Only(r)
  BY <1>1 DEF SayKept, txnVars, dirVars, runVars, histVars, pipeVars, Move, Say, Only, TypeOK, TxnTypeOK
<1>6. UNCHANGED <<req, inbox, todo, prior, step, applied>>
  BY DEF SayKept, txnVars, dirVars, runVars, histVars, pipeVars
<1>7. said'[r] = <<"applied", "kept">>
  <2>1. said[r] = <<"applied">>
    BY <1>1 DEF Control
  <2> QED BY <1>1, <2>1, SaySecond DEF SayKept, Lines
<1>8. Control(r)'
  BY <1>1, <1>2, <1>7, <1>6 DEF Control, Op, Own
<1> QED BY <1>4, <1>5, <1>8, OnlyControl

LEMMA ControlSayReverted ==
  ASSUME ControlInv, NEW r \in Runs, SayReverted(r)
  PROVE  ControlInv'
<1>1. TypeOK /\ Control(r) /\ at[r] = "undo" /\ step[r] = "reverted"
  BY DEF ControlInv, SayReverted, In
<1>2. at' \in [Runs -> Places] /\ at'[r] = "exit"
  BY <1>1, MoveTyped DEF SayReverted, Places
<1>3. said' \in [Runs -> Seq(Lines)] /\ said'[r] = Append(said[r], "reverted")
  BY <1>1, SayTyped DEF SayReverted, Lines
<1>4. TypeOK'
  BY <1>1, <1>2, <1>3 DEF SayReverted, txnVars, dirVars, runVars, histVars, pipeVars, TypeOK, TxnTypeOK
<1>5. Only(r)
  BY <1>1 DEF SayReverted, txnVars, dirVars, runVars, histVars, pipeVars, Move, Say, Only, TypeOK, TxnTypeOK
<1>6. UNCHANGED <<req, inbox, todo, prior, step, applied>>
  BY DEF SayReverted, txnVars, dirVars, runVars, histVars, pipeVars
<1>7. said'[r] \in {<<"reverted">>, <<"applied", "reverted">>}
  <2>1. said[r] \in {<<>>, <<"applied">>}
    BY <1>1 DEF Control
  <2> QED BY <1>1, <2>1, SayFirst, SaySecond DEF SayReverted, Lines
<1>8. Control(r)'
  BY <1>1, <1>2, <1>7, <1>6 DEF Control, Op, Own
<1> QED BY <1>4, <1>5, <1>8, OnlyControl

LEMMA ControlSayRevertFailed ==
  ASSUME ControlInv, NEW r \in Runs, SayRevertFailed(r)
  PROVE  ControlInv'
<1>1. TypeOK /\ Control(r) /\ at[r] = "undo" /\ step[r] = "stuck"
  BY DEF ControlInv, SayRevertFailed, In, DropRest, At
<1>2. at' \in [Runs -> Places] /\ at'[r] = "exit"
  BY <1>1, MoveTyped DEF SayRevertFailed, Places
<1>3. said' \in [Runs -> Seq(Lines)] /\ said'[r] = Append(said[r], "revert-failed")
  BY <1>1, SayTyped DEF SayRevertFailed, Lines
<1>4. step' \in [Runs -> Steps] /\ step'[r] = "drop"
  BY <1>1, GotoTyped DEF SayRevertFailed, DropRest, TypeOK, Steps
<1>5. TypeOK'
  BY <1>1, <1>2, <1>3, <1>4 DEF SayRevertFailed, DropRest, txnVars, dirVars, runVars, histVars, pipeVars, TypeOK, TxnTypeOK
<1>6. Only(r)
  BY <1>1 DEF SayRevertFailed, DropRest, txnVars, dirVars, runVars, histVars, pipeVars, Move, Say, Goto, Only, TypeOK, TxnTypeOK
<1>7. UNCHANGED <<req, inbox, todo, prior, applied>>
  BY DEF SayRevertFailed, DropRest, txnVars, dirVars, runVars, histVars, pipeVars
<1>8. said'[r] \in {<<"revert-failed">>, <<"applied", "revert-failed">>}
  <2>1. said[r] \in {<<>>, <<"applied">>}
    BY <1>1 DEF Control
  <2> QED BY <1>1, <2>1, SayFirst, SaySecond DEF SayRevertFailed, Lines
<1>9. Control(r)'
  BY <1>1, <1>2, <1>8, <1>4, <1>7 DEF Control, Op, Own
<1> QED BY <1>5, <1>6, <1>9, OnlyControl

LEMMA ControlPruneKept ==
  ASSUME ControlInv, NEW r \in Runs, PruneKept(r)
  PROVE  ControlInv'
<1>1. TypeOK /\ Control(r) /\ at[r] = "kept" /\ step[r] = "kept"
  BY DEF ControlInv, PruneKept, In, Prune, At
<1>2. UNCHANGED <<at, req, said, inbox, todo, prior, applied>>
  BY DEF PruneKept, Prune, toolVars, pipeVars
<1>3. step' \in [Runs -> Steps] /\ step'[r] = "pruned"
  BY <1>1, GotoTyped DEF PruneKept, Prune, TypeOK, Steps
<1>4. baks' \subseteq Backup
  BY <1>1 DEF PruneKept, Prune, TypeOK, TxnTypeOK
<1>5. faults' \in 0..MaxFaults
  BY <1>1, TxnAssumption DEF PruneKept, Prune, NoFault, Fault, TypeOK, TxnTypeOK
<1>6. TypeOK'
  BY <1>1, <1>3, <1>4, <1>5 DEF PruneKept, Prune, toolVars, pipeVars, histVars, TypeOK,
                                TxnTypeOK
<1>7. Only(r)
  BY <1>1, <1>2 DEF PruneKept, Prune, Goto, Only, TypeOK, TxnTypeOK
<1>8. Control(r)'
  BY <1>1, <1>2, <1>3 DEF Control, Op, Own
<1> QED BY <1>6, <1>7, <1>8, OnlyControl

LEMMA ControlAccept ==
  ASSUME ControlInv, NEW r \in Runs, Accept(r)
  PROVE  ControlInv'
<1>1. TypeOK /\ Control(r) /\ at[r] = "payload" /\ req[r] \in Requests
  BY DEF ControlInv, Accept, In, Control
<1>2. at' \in [Runs -> Places] /\ at'[r] = "txn"
  BY <1>1, MoveTyped DEF Accept, Places
<1>3. req[r].name \in Names /\ req[r].content \in Contents
  BY <1>1, ToolAssumption DEF RequestType
<1>4. \/ /\ req[r].verb = "apply"
         /\ BeginApply(r, <<Op(r)>>, stamp[r])
      \/ /\ req[r].verb = "delete"
         /\ BeginDelete(r, req[r].name, stamp[r])
  BY DEF Accept, Op
<1>5. Op(r) \in Write
  BY <1>3 DEF Op, Write, Values
<1>6. todo' = [todo EXCEPT ![r] = <<Op(r)>>]
  BY <1>4 DEF BeginApply, BeginDelete, Op
<1>7. todo' \in [Runs -> Seq(Write)] /\ todo'[r] = <<Op(r)>>
  BY <1>1, <1>5, <1>6 DEF TypeOK, TxnTypeOK
<1>8. /\ step' \in [Runs -> Steps]
      /\ \/ req[r].verb = "apply" /\ step'[r] = "read"
         \/ req[r].verb = "delete" /\ step'[r] = "dread"
  BY <1>1, <1>4, GotoTyped DEF BeginApply, BeginDelete, TypeOK, Steps
<1>9. /\ stamp' \in [Runs -> 0..MaxClock]
      /\ base' = live
      /\ latest' = r
      /\ UNCHANGED <<live, temps, baks, clock, faults, alive, prior, applied>>
      /\ UNCHANGED <<req, said, inbox, hup, expired, loaded>>
  BY <1>1, <1>4 DEF BeginApply, BeginDelete, dirVars, Accept, pipeVars, TypeOK, TxnTypeOK
<1>10. TypeOK'
  BY <1>1, <1>2, <1>7, <1>8, <1>9 DEF TypeOK, TxnTypeOK
<1>11. Only(r)
  BY <1>1, <1>4, <1>6, <1>9 DEF Accept, BeginApply, BeginDelete, Goto, Move, Only, TypeOK,
                               TxnTypeOK
<1>12. Control(r)'
  BY <1>1, <1>2, <1>7, <1>8, <1>9 DEF Control, Op, Own
<1> QED BY <1>10, <1>11, <1>12, OnlyControl

LEMMA ControlKill ==
  ASSUME ControlInv, NEW r \in Runs, Kill(r)
  PROVE  ControlInv'
<1>1. TypeOK'
  BY DEF ControlInv, Kill, dirVars, runVars, histVars, toolVars, pipeVars, TypeOK, TxnTypeOK
<1>2. Only(r)
  BY DEF Kill, runVars, toolVars, pipeVars, Only
<1>3. Control(r)'
  BY DEF ControlInv, Kill, runVars, toolVars, pipeVars, Control, Op, Own
<1> QED BY <1>1, <1>2, <1>3, OnlyControl

LEMMA FrameWork ==
  ASSUME TypeOK, NEW r \in Runs, TxnWork(r), UNCHANGED toolVars
  PROVE  Only(r)
<1> USE DEF Only, TypeOK, TxnTypeOK, Goto, toolVars, pipeVars
<1>1. CASE ReadPrior(r)        BY <1>1 DEF ReadPrior
<1>2. CASE WriteTmp(r)         BY <1>2 DEF WriteTmp
<1>3. CASE CheckTmp(r)         BY <1>3 DEF CheckTmp
<1>4. CASE WriteBackup(r)      BY <1>4 DEF WriteBackup
<1>5. CASE RenameTmp(r)        BY <1>5 DEF RenameTmp
<1>6. CASE ReadDoomed(r)       BY <1>6 DEF ReadDoomed
<1>7. CASE BackupDoomed(r)     BY <1>7 DEF BackupDoomed
<1>8. CASE UnlinkDoomed(r)     BY <1>8 DEF UnlinkDoomed
<1>9. CASE RevertEntry(r)      BY <1>9 DEF RevertEntry
<1>10. CASE RevertEntryFails(r) BY <1>10 DEF RevertEntryFails
<1>11. CASE RevertDone(r)      BY <1>11 DEF RevertDone
<1> QED BY <1>1, <1>2, <1>3, <1>4, <1>5, <1>6, <1>7, <1>8, <1>9, <1>10, <1>11
        DEF TxnWork

LEMMA ControlReadPrior ==
  ASSUME ControlInv, NEW r \in Runs, ReadPrior(r), UNCHANGED toolVars
  PROVE  Control(r)'
<1>1. Control(r) /\ at[r] \in Places
  BY DEF ControlInv, TypeOK
<1>2. UNCHANGED <<at, req, said, inbox, todo, applied>>
  BY DEF ReadPrior, toolVars, pipeVars
<1>3. step[r] = "read" /\ step'[r] \in {"tmp", "abort"}
  BY DEF ReadPrior, At, Goto, ControlInv, TypeOK, TxnTypeOK
<1> QED BY <1>1, <1>2, <1>3 DEF Control, Op, Own, Places

LEMMA ControlWriteTmp ==
  ASSUME ControlInv, NEW r \in Runs, WriteTmp(r), UNCHANGED toolVars
  PROVE  Control(r)'
<1>1. Control(r) /\ at[r] \in Places
  BY DEF ControlInv, TypeOK
<1>2. UNCHANGED <<at, req, said, inbox, todo, prior, applied>>
  BY DEF WriteTmp, toolVars, pipeVars
<1>3. step[r] = "tmp" /\ step'[r] \in {"check", "abort"}
  BY DEF WriteTmp, At, Goto, ControlInv, TypeOK, TxnTypeOK
<1> QED BY <1>1, <1>2, <1>3 DEF Control, Op, Own, Places

LEMMA ControlCheckTmp ==
  ASSUME ControlInv, NEW r \in Runs, CheckTmp(r), UNCHANGED toolVars
  PROVE  Control(r)'
<1>1. Control(r) /\ at[r] \in Places
  BY DEF ControlInv, TypeOK
<1>2. UNCHANGED <<at, req, said, inbox, todo, prior, applied>>
  BY DEF CheckTmp, toolVars, pipeVars
<1>3. step[r] = "check" /\ step'[r] \in {"backup", "abort"}
  BY DEF CheckTmp, At, Goto, ControlInv, TypeOK, TxnTypeOK
<1> QED BY <1>1, <1>2, <1>3 DEF Control, Op, Own, Places

LEMMA ControlWriteBackup ==
  ASSUME ControlInv, NEW r \in Runs, WriteBackup(r), UNCHANGED toolVars
  PROVE  Control(r)'
<1>1. Control(r) /\ at[r] \in Places
  BY DEF ControlInv, TypeOK
<1>2. UNCHANGED <<at, req, said, inbox, todo, prior, applied>>
  BY DEF WriteBackup, toolVars, pipeVars
<1>3. step[r] = "backup" /\ step'[r] \in {"rename", "abort"}
  BY DEF WriteBackup, At, Goto, ControlInv, TypeOK, TxnTypeOK
<1> QED BY <1>1, <1>2, <1>3 DEF Control, Op, Own, Places

LEMMA ControlRenameTmp ==
  ASSUME ControlInv, NEW r \in Runs, RenameTmp(r), UNCHANGED toolVars
  PROVE  Control(r)'
<1>1. Control(r) /\ at[r] \in Places
  BY DEF ControlInv, TypeOK
<1>2. UNCHANGED <<at, req, said, inbox, prior>>
  BY DEF RenameTmp, toolVars, pipeVars
<1>3. step[r] = "rename"
  BY DEF RenameTmp, At
<1>4. todo[r] = <<Op(r)>> /\ applied[r] = <<>> /\ at[r] = "txn"
  BY <1>1, <1>3 DEF Control, Places
<1>5. File(r) = req[r].name /\ Len(todo[r]) = 1
  BY <1>4 DEF File, Op
<1>6. \/ step'[r] = "open" /\ applied'[r] = <<Own(r)>> \o applied[r]
      \/ step'[r] = "abort" /\ applied'[r] = applied[r]
  BY <1>5 DEF RenameTmp, Goto, Own, ControlInv, TypeOK, TxnTypeOK
<1>7. <<Own(r)>> \o <<>> = <<Own(r)>>
  OBVIOUS
<1> QED BY <1>1, <1>2, <1>3, <1>4, <1>6, <1>7 DEF Control, Op, Own

LEMMA ControlReadDoomed ==
  ASSUME ControlInv, NEW r \in Runs, ReadDoomed(r), UNCHANGED toolVars
  PROVE  Control(r)'
<1>1. Control(r) /\ at[r] \in Places
  BY DEF ControlInv, TypeOK
<1>2. UNCHANGED <<at, req, said, inbox, todo, applied>>
  BY DEF ReadDoomed, toolVars, pipeVars
<1>3. /\ step[r] = "dread"
      /\ \/ step'[r] = "failed"
         \/ step'[r] = "dbackup" /\ prior'[r] # Absent
  BY DEF ReadDoomed, At, Goto, ControlInv, TypeOK, TxnTypeOK
<1> QED BY <1>1, <1>2, <1>3 DEF Control, Op, Own, Places

LEMMA ControlBackupDoomed ==
  ASSUME ControlInv, NEW r \in Runs, BackupDoomed(r), UNCHANGED toolVars
  PROVE  Control(r)'
<1>1. Control(r) /\ at[r] \in Places
  BY DEF ControlInv, TypeOK
<1>2. UNCHANGED <<at, req, said, inbox, todo, prior, applied>>
  BY DEF BackupDoomed, toolVars, pipeVars
<1>3. step[r] = "dbackup" /\ step'[r] \in {"unlink", "failed"}
  BY DEF BackupDoomed, At, Goto, ControlInv, TypeOK, TxnTypeOK
<1> QED BY <1>1, <1>2, <1>3 DEF Control, Op, Own, Places

LEMMA ControlUnlinkDoomed ==
  ASSUME ControlInv, NEW r \in Runs, UnlinkDoomed(r), UNCHANGED toolVars
  PROVE  Control(r)'
<1>1. Control(r) /\ at[r] \in Places
  BY DEF ControlInv, TypeOK
<1>2. UNCHANGED <<at, req, said, inbox, prior>>
  BY DEF UnlinkDoomed, toolVars, pipeVars
<1>3. step[r] = "unlink"
  BY DEF UnlinkDoomed, At
<1>4. todo[r] = <<Op(r)>> /\ applied[r] = <<>> /\ at[r] = "txn"
  BY <1>1, <1>3 DEF Control, Places
<1>5. File(r) = req[r].name
  BY <1>4 DEF File, Op
<1>6. \/ step'[r] = "open" /\ applied'[r] = <<Own(r)>>
      \/ step'[r] = "failed" /\ applied'[r] = applied[r]
  BY <1>5 DEF UnlinkDoomed, Goto, Own, ControlInv, TypeOK, TxnTypeOK
<1> QED BY <1>1, <1>2, <1>3, <1>4, <1>6 DEF Control, Op, Own

LEMMA ControlRevertEntry ==
  ASSUME ControlInv, NEW r \in Runs, RevertEntry(r), UNCHANGED toolVars
  PROVE  Control(r)'
<1>1. Control(r) /\ at[r] \in Places
  BY DEF ControlInv, TypeOK
<1>2. UNCHANGED <<at, req, said, inbox, todo, prior, step>>
  BY DEF RevertEntry, toolVars, pipeVars
<1>3. step[r] = "revert" /\ applied[r] = <<Own(r)>>
  BY <1>1 DEF RevertEntry, Undoing, Control
<1>4. applied'[r] = <<>>
  BY <1>3 DEF RevertEntry, ControlInv, TypeOK, TxnTypeOK
<1> QED BY <1>1, <1>2, <1>3, <1>4 DEF Control, Op, Own

LEMMA ControlRevertEntryFails ==
  ASSUME ControlInv, NEW r \in Runs, RevertEntryFails(r), UNCHANGED toolVars
  PROVE  Control(r)'
<1>1. Control(r)
  BY DEF ControlInv
<1>2. UNCHANGED <<at, req, said, inbox, todo, prior>>
  BY DEF RevertEntryFails, toolVars, pipeVars
<1>3. step[r] = "revert" /\ applied[r] = <<Own(r)>>
  BY <1>1 DEF RevertEntryFails, Undoing, Control
<1>4. applied'[r] = <<>>
  BY <1>3 DEF RevertEntryFails, ControlInv, TypeOK, TxnTypeOK
<1>5. step'[r] = "stuck"
  BY <1>3 DEF RevertEntryFails, Goto, AfterError, ControlInv, TypeOK, TxnTypeOK
<1> QED BY <1>1, <1>2, <1>3, <1>4, <1>5 DEF Control, Op, Own

LEMMA ControlRevertDone ==
  ASSUME ControlInv, NEW r \in Runs, RevertDone(r), UNCHANGED toolVars
  PROVE  Control(r)'
<1>1. Control(r)
  BY DEF ControlInv
<1>2. UNCHANGED <<at, req, said, inbox, todo, prior, applied>>
  BY DEF RevertDone, toolVars, pipeVars
<1>3. step[r] \in {"abort", "revert", "drop"} /\ applied[r] = <<>>
  BY <1>1 DEF RevertDone, Undoing, Control, ControlInv, TypeOK, Places
<1>4. step'[r] = IF step[r] = "revert" THEN "reverted" ELSE "failed"
  BY <1>3 DEF RevertDone, Goto, AfterAll, ControlInv, TypeOK, TxnTypeOK
<1>5. at[r] \in Places
  BY DEF ControlInv, TypeOK
<1> QED BY <1>1, <1>2, <1>3, <1>4, <1>5 DEF Control, Op, Own, Places

LEMMA ControlWork ==
  ASSUME ControlInv, NEW r \in Runs, TxnWork(r), UNCHANGED toolVars
  PROVE  Control(r)'
BY ControlReadPrior, ControlWriteTmp, ControlCheckTmp, ControlWriteBackup,
   ControlRenameTmp, ControlReadDoomed, ControlBackupDoomed, ControlUnlinkDoomed,
   ControlRevertEntry, ControlRevertEntryFails, ControlRevertDone
DEF TxnWork
LEMMA OpTyped ==
  ASSUME ControlInv, NEW r \in Runs,
         step[r] \in {"read", "tmp", "check", "backup", "rename", "dread",
                      "dbackup", "unlink"}
  PROVE  /\ File(r) = req[r].name
         /\ File(r) \in Names
         /\ Head(todo[r]).content \in Values
         /\ todo[r] = <<Op(r)>>
         /\ req[r] \in Requests
<1>1. Control(r) /\ at[r] \in Places
  BY DEF ControlInv, TypeOK
<1>2. todo[r] = <<Op(r)>> /\ req[r] \in Requests
  BY <1>1 DEF Control, Places
<1>3. req[r].name \in Names /\ req[r].content \in Contents
  BY <1>2, ToolAssumption DEF RequestType
<1> QED BY <1>2, <1>3 DEF File, Op, Values

LEMMA TypeReadPrior ==
  ASSUME ControlInv, NEW r \in Runs, ReadPrior(r)
  PROVE  TxnTypeOK'
<1>1. TxnTypeOK /\ step[r] = "read"
  BY DEF ControlInv, TypeOK, ReadPrior, At
<1>2. File(r) \in Names
  BY <1>1, OpTyped
<1>3. step' \in [Runs -> Steps]
  BY <1>1 DEF ReadPrior, Goto, TxnTypeOK, Steps
<1>4. faults' \in 0..MaxFaults
  BY <1>1, TxnAssumption DEF ReadPrior, NoFault, Fault, TxnTypeOK
<1> QED BY <1>1, <1>2, <1>3, <1>4 DEF ReadPrior, dirVars, histVars, TxnTypeOK

LEMMA TypeWriteTmp ==
  ASSUME ControlInv, NEW r \in Runs, WriteTmp(r)
  PROVE  TxnTypeOK'
<1>1. TxnTypeOK /\ step[r] = "tmp"
  BY DEF ControlInv, TypeOK, WriteTmp, At
<1>2. Tmp(r) \in Runs \X {"tmp", "rev"} \X Names
  BY <1>1, OpTyped DEF Tmp
<1>3. step' \in [Runs -> Steps]
  BY <1>1 DEF WriteTmp, Goto, TxnTypeOK, Steps
<1>4. faults' \in 0..MaxFaults
  BY <1>1, TxnAssumption DEF WriteTmp, NoFault, Fault, TxnTypeOK
<1> QED BY <1>1, <1>2, <1>3, <1>4 DEF WriteTmp, dirVars, histVars, TxnTypeOK

LEMMA TypeCheckTmp ==
  ASSUME ControlInv, NEW r \in Runs, CheckTmp(r)
  PROVE  TxnTypeOK'
<1>1. TxnTypeOK
  BY DEF ControlInv, TypeOK
<1>3. step' \in [Runs -> Steps]
  BY <1>1 DEF CheckTmp, Goto, TxnTypeOK, Steps
<1>4. faults' \in 0..MaxFaults
  BY <1>1, TxnAssumption DEF CheckTmp, NoFault, Fault, TxnTypeOK
<1> QED BY <1>1, <1>3, <1>4 DEF CheckTmp, dirVars, histVars, TxnTypeOK

\* The backup a run writes, whole or torn, is a backup.
LEMMA BakTyped ==
  ASSUME ControlInv, NEW r \in Runs, step[r] \in {"backup", "dbackup"},
         prior[r] # Absent
  PROVE  Bak(r, prior[r]) \in Backup /\ BakDebris(r) \subseteq SUBSET Backup
<1>1. TxnTypeOK
  BY DEF ControlInv, TypeOK
<1>2. File(r) \in Names
  BY OpTyped
<1>3. Bak(r, prior[r]) \in Backup /\ Bak(r, Torn) \in Backup
  BY <1>1, <1>2 DEF TxnTypeOK, Bak, Backup, Values
<1> QED BY <1>1, <1>3 DEF BakDebris, TxnTypeOK

LEMMA TypeWriteBackup ==
  ASSUME ControlInv, NEW r \in Runs, WriteBackup(r)
  PROVE  TxnTypeOK'
<1>1. TxnTypeOK /\ step[r] = "backup"
  BY DEF ControlInv, TypeOK, WriteBackup, At
<1>2. baks' \subseteq Backup
  BY <1>1, BakTyped DEF WriteBackup, TxnTypeOK
<1>3. temps' \subseteq Runs \X {"tmp", "rev"} \X Names
  BY <1>1 DEF WriteBackup, TxnTypeOK
<1>4. step' \in [Runs -> Steps]
  BY <1>1 DEF WriteBackup, Goto, TxnTypeOK, Steps
<1>5. faults' \in 0..MaxFaults
  BY <1>1, TxnAssumption DEF WriteBackup, NoFault, Fault, Unsync, TxnTypeOK
<1> QED BY <1>1, <1>2, <1>3, <1>4, <1>5 DEF WriteBackup, histVars, TxnTypeOK

LEMMA TypeRenameTmp ==
  ASSUME ControlInv, NEW r \in Runs, RenameTmp(r)
  PROVE  TxnTypeOK'
<1>1. TxnTypeOK /\ step[r] = "rename"
  BY DEF ControlInv, TypeOK, RenameTmp, At
<1>2. File(r) \in Names /\ Head(todo[r]).content \in Values /\ Len(todo[r]) = 1
  BY <1>1, OpTyped
<1>3. live' \in [Names -> Values]
  BY <1>1, <1>2 DEF RenameTmp, TxnTypeOK
<1>4. applied' \in [Runs -> Seq(Undo)]
  <2>1. [name |-> File(r), prior |-> prior[r]] \in Undo
    BY <1>1, <1>2 DEF Undo, TxnTypeOK
  <2>2. <<[name |-> File(r), prior |-> prior[r]]>> \o applied[r] \in Seq(Undo)
    BY <1>1, <2>1 DEF TxnTypeOK
  <2> QED BY <1>1, <2>2 DEF RenameTmp, TxnTypeOK
<1>5. todo' \in [Runs -> Seq(Write)]
  <2>1. todo[r] \in Seq(Write) /\ todo[r] # <<>>
    BY <1>1, OpTyped DEF TxnTypeOK
  <2>2. Tail(todo[r]) \in Seq(Write)
    BY <2>1
  <2> QED BY <1>1, <2>2 DEF RenameTmp, TxnTypeOK
<1>6. step' \in [Runs -> Steps]
  BY <1>1, <1>2 DEF RenameTmp, Goto, TxnTypeOK, Steps
<1>7. faults' \in 0..MaxFaults
  BY <1>1, <1>2, TxnAssumption DEF RenameTmp, NoFault, Fault, Unsync, TxnTypeOK
<1>8. temps' \subseteq Runs \X {"tmp", "rev"} \X Names
  BY <1>1 DEF RenameTmp, TxnTypeOK
<1> QED BY <1>1, <1>3, <1>4, <1>5, <1>6, <1>7, <1>8 DEF RenameTmp, histVars, TxnTypeOK

LEMMA TypeReadDoomed ==
  ASSUME ControlInv, NEW r \in Runs, ReadDoomed(r)
  PROVE  TxnTypeOK'
<1>1. TxnTypeOK /\ step[r] = "dread"
  BY DEF ControlInv, TypeOK, ReadDoomed, At
<1>2. File(r) \in Names
  BY <1>1, OpTyped
<1>3. prior' \in [Runs -> Values]
  BY <1>1, <1>2 DEF ReadDoomed, TxnTypeOK
<1>4. step' \in [Runs -> Steps]
  BY <1>1 DEF ReadDoomed, Goto, TxnTypeOK, Steps
<1>5. faults' \in 0..MaxFaults
  BY <1>1, TxnAssumption DEF ReadDoomed, NoFault, Fault, TxnTypeOK
<1> QED BY <1>1, <1>3, <1>4, <1>5 DEF ReadDoomed, dirVars, histVars, TxnTypeOK

LEMMA TypeBackupDoomed ==
  ASSUME ControlInv, NEW r \in Runs, BackupDoomed(r)
  PROVE  TxnTypeOK'
<1>1. TxnTypeOK /\ step[r] = "dbackup"
  BY DEF ControlInv, TypeOK, BackupDoomed, At
<1>2. prior[r] # Absent
  BY <1>1 DEF ControlInv, Control
<1>3. baks' \subseteq Backup
  BY <1>1, <1>2, BakTyped DEF BackupDoomed, TxnTypeOK
<1>4. step' \in [Runs -> Steps]
  BY <1>1 DEF BackupDoomed, Goto, TxnTypeOK, Steps
<1>5. faults' \in 0..MaxFaults
  BY <1>1, TxnAssumption DEF BackupDoomed, NoFault, Fault, Unsync, TxnTypeOK
<1> QED BY <1>1, <1>3, <1>4, <1>5 DEF BackupDoomed, histVars, TxnTypeOK

LEMMA TypeUnlinkDoomed ==
  ASSUME ControlInv, NEW r \in Runs, UnlinkDoomed(r)
  PROVE  TxnTypeOK'
<1>1. TxnTypeOK /\ step[r] = "unlink"
  BY DEF ControlInv, TypeOK, UnlinkDoomed, At
<1>2. File(r) \in Names /\ todo[r] \in Seq(Write) /\ todo[r] # <<>>
  BY <1>1, OpTyped DEF TxnTypeOK
<1>3. live' \in [Names -> Values]
  BY <1>1, <1>2 DEF UnlinkDoomed, TxnTypeOK, Values
<1>4. applied' \in [Runs -> Seq(Undo)]
  <2>1. <<[name |-> File(r), prior |-> prior[r]]>> \in Seq(Undo)
    BY <1>1, <1>2 DEF Undo, TxnTypeOK
  <2> QED BY <1>1, <2>1 DEF UnlinkDoomed, TxnTypeOK
<1>5. todo' \in [Runs -> Seq(Write)]
  <2>1. Tail(todo[r]) \in Seq(Write)
    BY <1>2
  <2> QED BY <1>1, <2>1 DEF UnlinkDoomed, TxnTypeOK
<1>6. step' \in [Runs -> Steps]
  BY <1>1 DEF UnlinkDoomed, Goto, TxnTypeOK, Steps
<1>7. faults' \in 0..MaxFaults
  BY <1>1, TxnAssumption DEF UnlinkDoomed, NoFault, Fault, Unsync, TxnTypeOK
<1>8. baks' \subseteq Backup
  BY <1>1 DEF UnlinkDoomed, TxnTypeOK
<1> QED BY <1>1, <1>3, <1>4, <1>5, <1>6, <1>7, <1>8 DEF UnlinkDoomed, histVars, TxnTypeOK

LEMMA TypeRevertEntry ==
  ASSUME ControlInv, NEW r \in Runs, RevertEntry(r)
  PROVE  TxnTypeOK'
<1>1. TxnTypeOK /\ applied[r] \in Seq(Undo) /\ applied[r] # <<>>
  BY DEF ControlInv, TypeOK, TxnTypeOK, RevertEntry
<1>2. Head(applied[r]) \in Undo /\ Tail(applied[r]) \in Seq(Undo)
  BY <1>1
<1>3. live' \in [Names -> Values]
  BY <1>1, <1>2 DEF RevertEntry, TxnTypeOK, Undo
<1>4. applied' \in [Runs -> Seq(Undo)]
  BY <1>1, <1>2 DEF RevertEntry, TxnTypeOK
<1> QED BY <1>1, <1>3, <1>4 DEF RevertEntry, NoFault, histVars, TxnTypeOK

LEMMA TypeRevertEntryFails ==
  ASSUME ControlInv, NEW r \in Runs, RevertEntryFails(r)
  PROVE  TxnTypeOK'
<1>1. TxnTypeOK /\ applied[r] \in Seq(Undo) /\ applied[r] # <<>>
  BY DEF ControlInv, TypeOK, TxnTypeOK, RevertEntryFails
<1>2. /\ Head(applied[r]) \in Undo
      /\ Tail(applied[r]) \in Seq(Undo)
      /\ <<r, "rev", Head(applied[r]).name>> \in Runs \X {"tmp", "rev"} \X Names
  <2>1. Head(applied[r]) \in Undo /\ Tail(applied[r]) \in Seq(Undo)
    BY <1>1
  <2> QED BY <2>1 DEF Undo
<1>3. live' \in [Names -> Values]
  BY <1>1, <1>2 DEF RevertEntryFails, TxnTypeOK, Undo
<1>4. applied' \in [Runs -> Seq(Undo)]
  BY <1>1, <1>2 DEF RevertEntryFails, TxnTypeOK
<1>5. temps' \subseteq Runs \X {"tmp", "rev"} \X Names
  BY <1>1, <1>2 DEF RevertEntryFails, TxnTypeOK
<1>6. faults' \in 0..MaxFaults
  BY <1>1, TxnAssumption DEF RevertEntryFails, Fault, Unsync, TxnTypeOK
<1>7. step' \in [Runs -> Steps]
  <2>1. AfterError[step[r]] \in Steps
    BY DEF RevertEntryFails, Undoing, AfterError, Steps
  <2> QED BY <1>1, <2>1 DEF RevertEntryFails, Goto, TxnTypeOK
<1> QED BY <1>1, <1>3, <1>4, <1>5, <1>6, <1>7 DEF RevertEntryFails, histVars, TxnTypeOK

LEMMA TypeRevertDone ==
  ASSUME ControlInv, NEW r \in Runs, RevertDone(r)
  PROVE  TxnTypeOK'
<1>1. TxnTypeOK
  BY DEF ControlInv, TypeOK
<1>2. AfterAll[step[r]] \in Steps
  BY DEF RevertDone, Undoing, AfterAll, Steps
<1> QED BY <1>1, <1>2 DEF RevertDone, Goto, dirVars, histVars, TxnTypeOK

LEMMA ControlInvWork ==
  ASSUME ControlInv, NEW r \in Runs, TxnWork(r), UNCHANGED toolVars
  PROVE  ControlInv'
<1>1. TxnTypeOK'
  BY TypeReadPrior, TypeWriteTmp, TypeCheckTmp, TypeWriteBackup, TypeRenameTmp,
     TypeReadDoomed, TypeBackupDoomed, TypeUnlinkDoomed, TypeRevertEntry,
     TypeRevertEntryFails, TypeRevertDone
  DEF TxnWork
<1>2. TypeOK'
  BY <1>1 DEF ControlInv, TypeOK, toolVars, pipeVars
<1>3. Only(r)
  BY FrameWork DEF ControlInv
<1> QED BY <1>2, <1>3, ControlWork, OnlyControl

LEMMA ControlSendLine ==
  ASSUME ControlInv, NEW r \in Runs, NEW l \in {"keep", "other"}, SendLine(r, l)
  PROVE  ControlInv'
<1> USE DEF ControlInv, SendLine, txnVars, dirVars, runVars, histVars, Running
<1>1. TypeOK'
  BY DEF TypeOK, TxnTypeOK
<1>2. ASSUME NEW s \in Runs PROVE Control(s)'
  BY DEF Control, TypeOK, Op, Own
<1> QED BY <1>1, <1>2

LEMMA ControlHangUp ==
  ASSUME ControlInv, NEW r \in Runs, HangUp(r)
  PROVE  ControlInv'
<1> USE DEF ControlInv, HangUp, txnVars, dirVars, runVars, histVars
<1>1. TypeOK'
  BY DEF TypeOK, TxnTypeOK
<1>2. ASSUME NEW s \in Runs PROVE Control(s)'
  BY DEF Control, Op, Own
<1> QED BY <1>1, <1>2

LEMMA ControlExpire ==
  ASSUME ControlInv, NEW r \in Runs, Expire(r)
  PROVE  ControlInv'
<1> USE DEF ControlInv, Expire, txnVars, dirVars, runVars, histVars
<1>1. TypeOK'
  BY DEF TypeOK, TxnTypeOK
<1>2. ASSUME NEW s \in Runs PROVE Control(s)'
  BY DEF Control, Op, Own
<1> QED BY <1>1, <1>2

LEMMA ControlKeydRestart ==
  ASSUME ControlInv, KeydRestart
  PROVE  ControlInv'
<1> USE DEF ControlInv, KeydRestart, txnVars, dirVars, runVars, histVars, pipeVars
<1>1. TypeOK'
  BY DEF TypeOK, TxnTypeOK
<1>2. ASSUME NEW s \in Runs PROVE Control(s)'
  BY DEF Control, Op, Own
<1> QED BY <1>1, <1>2

LEMMA ControlTick ==
  ASSUME ControlInv, Tick, UNCHANGED toolVars
  PROVE  ControlInv'
<1> USE DEF ControlInv, Tick, dirVars, runVars, histVars, toolVars, pipeVars
<1>1. TypeOK'
  BY TxnAssumption DEF TypeOK, TxnTypeOK
<1>2. ASSUME NEW s \in Runs PROVE Control(s)'
  BY DEF Control, Op, Own
<1> QED BY <1>1, <1>2

LEMMA ControlStutter ==
  ASSUME ControlInv, UNCHANGED vars
  PROVE  ControlInv'
<1> USE DEF ControlInv, vars, txnVars, dirVars, runVars, histVars, toolVars, pipeVars
<1>1. TypeOK'
  BY DEF TypeOK, TxnTypeOK
<1>2. ASSUME NEW s \in Runs PROVE Control(s)'
  BY DEF Control, Op, Own
<1> QED BY <1>1, <1>2

-----------------------------------------------------------------------------

LEMMA ControlStep ==
  ASSUME ControlInv, NEW r \in Runs, Step(r)
  PROVE  ControlInv'
BY ControlRefuse, ControlRefuseSensitive, ControlAccept, ControlTxnFailed, ControlReload,
   ControlReloadFails, ControlWindowKeep, ControlWindowRevert, ControlPruneKept,
   ControlSayKept, ControlSayReverted, ControlSayRevertFailed, ControlInvWork
DEF Step, Transact, UndoTxn, DropTxn

LEMMA ControlNext ==
  ASSUME ControlInv, [Next]_vars
  PROVE  ControlInv'
BY ControlStart, ControlStep, ControlKill, ControlSendLine, ControlHangUp, ControlExpire,
   ControlKeydRestart, ControlTick, ControlStutter
DEF Next

THEOREM ControlHolds == Spec => []ControlInv
BY ControlInit, ControlNext, PTL DEF Spec

\* Every variable keeps its type: in particular the transaction never reads
\* the head of an empty write-set or undo list, whatever fails and whenever
\* a process is killed.
THEOREM Typing == Spec => []TypeOK
<1>1. ControlInv => TypeOK
  BY DEF ControlInv
<1> QED BY <1>1, ControlHolds, PTL

-----------------------------------------------------------------------------
(* One run at a time: what the directory and keyd hold at each point of    *)
(* the run.                                                                *)

LEMMA SoloInit == Init => Solo
BY TxnAssumption DEF Init, TxnInit, Solo, Running

\* The run at work is the latest one.
LEMMA SoloRun ==
  ASSUME Solo, NEW r \in Runs, Running(r)
  PROVE  r = latest /\ at[r] # "idle" /\ Directory(r)
BY TxnAssumption DEF Solo, Running

LEMMA SoloFrame ==
  ASSUME ControlInv, Solo, NEW r \in Runs, r = latest, latest' = latest, Only(r),
         \A s \in Runs : alive'[s] => alive[s],
         at'[r] # "idle", Directory(r)'
  PROVE  Solo'
BY TxnAssumption DEF Solo, Only, Running

\* Nothing Directory speaks of changes but, perhaps, keyd's view to what is live.
LEMMA SoloSame ==
  ASSUME TypeOK, Solo, UNCHANGED <<at, step, said, req, prior, applied, live, base, latest>>,
         \A s \in Runs : alive'[s] => alive[s],
         loaded' \in {loaded, live}
  PROVE  Solo'
<1>1. ASSUME NEW s \in Runs, Directory(s) PROVE Directory(s)'
  BY <1>1 DEF Directory, Wanted, Unsure
<1>2. latest # NoRun => latest \in Runs /\ Directory(latest)'
  BY <1>1 DEF Solo, TypeOK, TxnTypeOK
<1>3. \A r \in Runs : Running(r)' => Running(r)
  BY DEF Running
<1> QED BY <1>2, <1>3 DEF Solo

LEMMA SoloReadPrior ==
  ASSUME ControlInv, NEW r \in Runs, Directory(r), ReadPrior(r), UNCHANGED toolVars
  PROVE  Directory(r)'
<1>1. Control(r) /\ TypeOK /\ step[r] = "read"
  BY DEF ControlInv, ReadPrior, At
<1>2. UNCHANGED <<at, req, said, live, base, applied, loaded>>
  BY DEF ReadPrior, toolVars, dirVars, histVars
<1>3. File(r) = req[r].name
  BY <1>1, OpTyped
<1>4. \/ step'[r] = "tmp" /\ prior'[r] = live[req[r].name]
      \/ step'[r] = "abort"
  BY <1>1, <1>3 DEF ReadPrior, Goto, TypeOK, TxnTypeOK
<1>5. at[r] = "txn"
  BY <1>1 DEF Control, TypeOK, Places
<1> QED BY <1>1, <1>2, <1>4, <1>5 DEF Directory, Wanted, Unsure

LEMMA SoloQuiet ==
  ASSUME ControlInv, NEW r \in Runs, Directory(r), UNCHANGED toolVars,
         WriteTmp(r) \/ CheckTmp(r) \/ WriteBackup(r) \/ BackupDoomed(r)
  PROVE  Directory(r)'
<1>1. Control(r) /\ TypeOK /\ step[r] \in {"tmp", "check", "backup", "dbackup"}
  BY DEF ControlInv, WriteTmp, CheckTmp, WriteBackup, BackupDoomed, At
<1>2. UNCHANGED <<at, req, said, live, base, prior, applied, loaded>>
  BY DEF WriteTmp, CheckTmp, WriteBackup, BackupDoomed, toolVars, histVars
<1>3. \/ step'[r] \in {"check", "backup", "rename", "abort", "unlink"}
      \/ step'[r] = "failed"
  BY <1>1 DEF WriteTmp, CheckTmp, WriteBackup, BackupDoomed, Goto, TypeOK, TxnTypeOK
<1>4. at[r] = "txn" /\ said[r] = <<>>
  BY <1>1 DEF Control, TypeOK, Places
<1> QED BY <1>1, <1>2, <1>3, <1>4 DEF Directory, Wanted, Unsure

LEMMA SoloRenameTmp ==
  ASSUME ControlInv, NEW r \in Runs, Directory(r), RenameTmp(r),
         UNCHANGED toolVars
  PROVE  Directory(r)'
<1>1. Control(r) /\ TypeOK /\ step[r] = "rename"
  BY DEF ControlInv, RenameTmp, At
<1>2. UNCHANGED <<at, req, said, base, prior, loaded>>
  BY DEF RenameTmp, toolVars, histVars
<1>3. at[r] = "txn" /\ todo[r] = <<Op(r)>> /\ req[r].verb = "apply"
  BY <1>1 DEF Control, TypeOK, Places
<1>4. File(r) = req[r].name /\ Head(todo[r]).content = req[r].content /\ Len(todo[r]) = 1
  BY <1>3 DEF File, Op
<1>5. live = base /\ prior[r] = base[req[r].name]
  BY <1>1 DEF Directory
<1>6. \/ step'[r] = "open" /\ live' = [live EXCEPT ![req[r].name] = req[r].content]
      \/ step'[r] = "abort" /\ live' = live
      \/ /\ step'[r] = "abort" /\ UnsyncedIO
         /\ live' = [live EXCEPT ![req[r].name] = req[r].content]
  BY <1>1, <1>4 DEF RenameTmp, Unsync, Goto, TypeOK, TxnTypeOK
<1>7. \/ step'[r] = "open" /\ live' = Wanted(r)'
      \/ step'[r] = "abort" /\ live' = live
      \/ step'[r] = "abort" /\ UnsyncedIO /\ live' = Wanted(r)'
  BY <1>2, <1>3, <1>5, <1>6 DEF Wanted
<1> HIDE DEF Wanted
<1> QED BY <1>2, <1>3, <1>5, <1>7 DEF Directory, Unsure

LEMMA SoloReadDoomed ==
  ASSUME ControlInv, NEW r \in Runs, Directory(r), ReadDoomed(r), UNCHANGED toolVars
  PROVE  Directory(r)'
<1>1. Control(r) /\ TypeOK /\ step[r] = "dread"
  BY DEF ControlInv, ReadDoomed, At
<1>2. UNCHANGED <<at, req, said, live, base, applied, loaded>>
  BY DEF ReadDoomed, toolVars, dirVars, histVars
<1>3. File(r) = req[r].name
  BY <1>1, OpTyped
<1>4. \/ step'[r] = "dbackup" /\ prior'[r] = live[req[r].name]
      \/ step'[r] = "failed"
  BY <1>1, <1>3 DEF ReadDoomed, Goto, TypeOK, TxnTypeOK
<1>5. at[r] = "txn" /\ said[r] = <<>>
  BY <1>1 DEF Control, TypeOK, Places
<1> QED BY <1>1, <1>2, <1>4, <1>5 DEF Directory, Wanted, Unsure

LEMMA SoloUnlinkDoomed ==
  ASSUME ControlInv, NEW r \in Runs, Directory(r), UnlinkDoomed(r),
         UNCHANGED toolVars
  PROVE  Directory(r)'
<1>1. Control(r) /\ TypeOK /\ step[r] = "unlink"
  BY DEF ControlInv, UnlinkDoomed, At
<1>2. UNCHANGED <<at, req, said, base, prior, loaded>>
  BY DEF UnlinkDoomed, toolVars, histVars
<1>3. at[r] = "txn" /\ said[r] = <<>> /\ req[r].verb = "delete"
  BY <1>1 DEF Control, TypeOK, Places
<1>4. File(r) = req[r].name
  BY <1>1, OpTyped
<1>5. live = base /\ prior[r] = base[req[r].name]
  BY <1>1 DEF Directory
<1>6. \/ step'[r] = "open" /\ live' = [live EXCEPT ![req[r].name] = Absent]
      \/ step'[r] = "failed" /\ live' = live
      \/ /\ step'[r] = "failed" /\ UnsyncedIO
         /\ live' = [live EXCEPT ![req[r].name] = Absent]
  BY <1>1, <1>4 DEF UnlinkDoomed, Unsync, Goto, TypeOK, TxnTypeOK
<1>7. \/ step'[r] = "open" /\ live' = Wanted(r)'
      \/ step'[r] = "failed" /\ live' = live
      \/ step'[r] = "failed" /\ UnsyncedIO /\ live' = Wanted(r)'
  BY <1>2, <1>3, <1>5, <1>6 DEF Wanted
<1> HIDE DEF Wanted
<1> QED BY <1>2, <1>3, <1>5, <1>7 DEF Directory, Unsure

\* Undoing the one write puts back what was found.
LEMMA UndoneIsBase ==
  ASSUME TypeOK, NEW r \in Runs, req[r].name \in Names,
         live = Wanted(r), prior[r] = base[req[r].name]
  PROVE  [live EXCEPT ![req[r].name] = prior[r]] = base
BY DEF Wanted, TypeOK, TxnTypeOK

LEMMA SoloRevertEntry ==
  ASSUME ControlInv, NEW r \in Runs, Directory(r), RevertEntry(r), UNCHANGED toolVars
  PROVE  Directory(r)'
<1>1. Control(r) /\ TypeOK
  BY DEF ControlInv
<1>2. UNCHANGED <<at, req, said, base, prior, loaded, step>>
  BY DEF RevertEntry, toolVars, histVars
<1>3. step[r] = "revert" /\ applied[r] = <<Own(r)>> /\ applied[r] # <<>>
  BY <1>1 DEF RevertEntry, Undoing, Control
<1>4. at[r] = "undo" /\ req[r] \in Requests
  BY <1>1, <1>3 DEF Control, TypeOK, Places
<1>5. applied'[r] = <<>>
  BY <1>1, <1>3 DEF RevertEntry, TypeOK, TxnTypeOK
<1>6. live = Wanted(r) /\ prior[r] = base[req[r].name]
  BY <1>3 DEF Directory
<1>7. live' = [live EXCEPT ![req[r].name] = prior[r]]
  <2>1. Head(applied[r]) = Own(r)
    BY <1>3
  <2>2. Own(r).name = req[r].name /\ Own(r).prior = prior[r]
    BY DEF Own
  <2> QED BY <2>1, <2>2 DEF RevertEntry
<1>8. live' = base
  BY <1>1, <1>4, <1>6, <1>7, UndoneIsBase, ToolAssumption DEF RequestType
<1> QED BY <1>2, <1>3, <1>4, <1>5, <1>6, <1>8 DEF Directory

LEMMA SoloRevertEntryFails ==
  ASSUME ControlInv, NEW r \in Runs, Directory(r), RevertEntryFails(r), UNCHANGED toolVars
  PROVE  Directory(r)'
<1>1. Control(r) /\ TypeOK
  BY DEF ControlInv
<1>2. UNCHANGED <<at, req, said, base, prior, loaded>>
  BY DEF RevertEntryFails, toolVars, histVars
<1>3. step[r] = "revert" /\ applied[r] = <<Own(r)>> /\ applied[r] # <<>>
  BY <1>1 DEF RevertEntryFails, Undoing, Control
<1>4. at[r] = "undo" /\ req[r] \in Requests
  BY <1>1, <1>3 DEF Control, TypeOK, Places
<1>5. step'[r] = "stuck"
  BY <1>1, <1>3 DEF RevertEntryFails, Goto, AfterError, TypeOK, TxnTypeOK
<1>6. live = Wanted(r) /\ prior[r] = base[req[r].name]
  BY <1>3 DEF Directory
<1>7. live' = live \/ (UnsyncedIO /\ live' = [live EXCEPT ![req[r].name] = prior[r]])
  <2>1. Head(applied[r]) = Own(r)
    BY <1>3
  <2>2. Own(r).name = req[r].name /\ Own(r).prior = prior[r]
    BY DEF Own
  <2> QED BY <2>1, <2>2 DEF RevertEntryFails, Unsync
<1>8. live' = live \/ (UnsyncedIO /\ live' = base)
  BY <1>1, <1>4, <1>6, <1>7, UndoneIsBase, ToolAssumption DEF RequestType
<1>9. Wanted(r)' = Wanted(r)
  BY <1>2 DEF Wanted
<1> HIDE DEF Wanted
<1> QED BY <1>2, <1>4, <1>5, <1>6, <1>8, <1>9 DEF Directory, Unsure

LEMMA SoloRevertDone ==
  ASSUME ControlInv, NEW r \in Runs, Directory(r), RevertDone(r), UNCHANGED toolVars
  PROVE  Directory(r)'
<1>1. Control(r) /\ TypeOK
  BY DEF ControlInv
<1>2. UNCHANGED <<at, req, said, base, prior, loaded, live, applied>>
  BY DEF RevertDone, toolVars, histVars, dirVars
<1>3. applied[r] = <<>> /\ step[r] \in {"abort", "revert", "drop"}
  BY <1>1 DEF RevertDone, Undoing, Control, TypeOK, Places
<1>4. step'[r] = IF step[r] = "revert" THEN "reverted" ELSE "failed"
  BY <1>1, <1>3 DEF RevertDone, Goto, AfterAll, TypeOK, TxnTypeOK
<1>5. CASE step[r] = "revert"
  <2>1. at[r] = "undo" /\ live = base
    BY <1>1, <1>3, <1>5 DEF Control, TypeOK, Places, Directory
  <2> QED BY <1>2, <1>4, <1>5, <2>1 DEF Directory
<1>6. CASE step[r] = "abort"
  <2>1. at[r] = "txn" /\ said[r] = <<>> /\ Unsure(r, base)
    BY <1>1, <1>6 DEF Control, TypeOK, Places, Directory
  <2>2. Wanted(r)' = Wanted(r)
    BY <1>2 DEF Wanted
  <2> HIDE DEF Wanted
  <2> QED BY <1>2, <1>4, <1>6, <2>1, <2>2 DEF Directory, Unsure
<1>7. CASE step[r] = "drop"
  <2>1. /\ at[r] = "exit"
        /\ said[r] \in {<<"revert-failed">>, <<"applied", "revert-failed">>}
        /\ Unsure(r, Wanted(r))
    BY <1>1, <1>7 DEF Control, TypeOK, Places, Directory
  <2>2. said[r] \notin {<<>>, <<"error">>}
    BY <2>1
  <2>3. Wanted(r)' = Wanted(r)
    BY <1>2 DEF Wanted
  <2> HIDE DEF Wanted
  <2> QED BY <1>2, <1>4, <1>7, <2>1, <2>2, <2>3 DEF Directory, Unsure
<1> QED BY <1>3, <1>5, <1>6, <1>7

LEMMA SoloWork ==
  ASSUME ControlInv, NEW r \in Runs, Directory(r), TxnWork(r), UNCHANGED toolVars
  PROVE  Directory(r)'
BY SoloReadPrior, SoloQuiet, SoloRenameTmp, SoloReadDoomed, SoloUnlinkDoomed,
   SoloRevertEntry, SoloRevertEntryFails, SoloRevertDone
DEF TxnWork

LEMMA SoloStart ==
  ASSUME ControlInv, ~Concurrent, Solo, NEW r \in Runs, NEW q \in Requests, Start(r, q)
  PROVE  Solo'
<1>1. TypeOK /\ Control(r) /\ at[r] = "idle"
  BY DEF ControlInv, Start, In
<1>2. step[r] = "idle" /\ step' = step /\ live' = live
  BY <1>1 DEF Control, Start, dirVars, runVars
<1>3. at' = [at EXCEPT ![r] = "payload"] /\ latest' = r /\ base' = live /\ alive' = alive
  BY DEF Start, Move
<1>4. ASSUME NEW s \in Runs, s # r PROVE ~Running(s)'
  <2>1. ~Running(s)
    BY DEF Start
  <2>2. at'[s] = at[s]
    BY <1>1, <1>3, <1>4 DEF TypeOK
  <2> QED BY <1>3, <2>1, <2>2 DEF Running
<1>5. at'[r] = "payload"
  BY <1>1, <1>3 DEF TypeOK
<1>6. Directory(r)'
  BY <1>2, <1>3, <1>5 DEF Directory
<1> QED BY <1>3, <1>4, <1>5, <1>6, TxnAssumption DEF Solo

LEMMA SoloAccept ==
  ASSUME ControlInv, ControlInv', Solo, NEW r \in Runs, Accept(r)
  PROVE  Solo'
<1>1. TypeOK /\ Control(r) /\ at[r] = "payload" /\ Running(r)
  BY DEF ControlInv, Accept, In, Running
<1>2. r = latest
  BY <1>1, SoloRun
<1>3. UNCHANGED <<live, alive, said, req, loaded>> /\ latest' = r /\ base' = live
  BY DEF Accept, BeginApply, BeginDelete, dirVars
<1>4. at' = [at EXCEPT ![r] = "txn"]
  BY DEF Accept, Move
<1>5. step'[r] \in {"read", "dread"}
  BY <1>1 DEF Accept, BeginApply, BeginDelete, Goto, TypeOK, TxnTypeOK
<1>6. at'[r] = "txn"
  BY <1>1, <1>4 DEF TypeOK
<1>7. Directory(r)'
  BY <1>3, <1>5, <1>6 DEF Directory
<1>8. ASSUME NEW s \in Runs, s # r PROVE ~Running(s)'
  <2>1. ~Running(s)
    BY <1>2, <1>8 DEF Solo
  <2>2. at'[s] = at[s]
    BY <1>1, <1>4, <1>8 DEF TypeOK
  <2> QED BY <1>3, <2>1, <2>2 DEF Running
<1> QED BY <1>3, <1>6, <1>7, <1>8, TxnAssumption DEF Solo

LEMMA OnlyTool ==
  ASSUME TypeOK, NEW r \in Runs,
         \/ Refuse(r) \/ RefuseSensitive(r) \/ TxnFailed(r) \/ Reload(r)
         \/ ReloadFails(r) \/ WindowKeep(r) \/ WindowRevert(r) \/ PruneKept(r)
         \/ SayKept(r) \/ SayReverted(r) \/ SayRevertFailed(r)
  PROVE  Only(r) /\ at'[r] # "idle"
<1> USE DEF In, Move, Say, Goto, txnVars, runVars, toolVars, pipeVars, Only, TypeOK, TxnTypeOK
<1>1. CASE Refuse(r)           BY <1>1 DEF Refuse
<1>2. CASE RefuseSensitive(r)  BY <1>2 DEF RefuseSensitive
<1>3. CASE TxnFailed(r)        BY <1>3 DEF TxnFailed
<1>4. CASE Reload(r)           BY <1>4 DEF Reload
<1>5. CASE ReloadFails(r)      BY <1>5 DEF ReloadFails, Revert
<1>6. CASE WindowKeep(r)       BY <1>6 DEF WindowKeep, Keep
<1>7. CASE WindowRevert(r)     BY <1>7 DEF WindowRevert, Revert
<1>8. CASE PruneKept(r)        BY <1>8 DEF PruneKept, Prune
<1>9. CASE SayKept(r)          BY <1>9 DEF SayKept
<1>10. CASE SayReverted(r)     BY <1>10 DEF SayReverted
<1>11. CASE SayRevertFailed(r) BY <1>11 DEF SayRevertFailed, DropRest
<1> QED BY <1>1, <1>2, <1>3, <1>4, <1>5, <1>6, <1>7, <1>8, <1>9, <1>10, <1>11

\* A step of main.rs itself, between the transaction's: the files stay.
LEMMA SoloTool ==
  ASSUME ControlInv, ControlInv', Solo, NEW r \in Runs,
         \/ Refuse(r) \/ RefuseSensitive(r) \/ TxnFailed(r) \/ Reload(r)
         \/ ReloadFails(r) \/ WindowKeep(r) \/ WindowRevert(r) \/ PruneKept(r)
         \/ SayKept(r) \/ SayReverted(r) \/ SayRevertFailed(r)
  PROVE  Solo'
<1> USE DEF In, Move, Goto, txnVars, dirVars, runVars, histVars, toolVars, pipeVars
<1>1. /\ TypeOK /\ Control(r) /\ r = latest /\ Directory(r)
      /\ UNCHANGED <<live, alive, latest, base, req, prior>>
  <2>1. TypeOK /\ Control(r) /\ Running(r)
    BY DEF ControlInv, Running, Refuse, RefuseSensitive, TxnFailed, Reload, ReloadFails,
           WindowKeep, WindowRevert, PruneKept, SayKept, SayReverted, SayRevertFailed
  <2>2. UNCHANGED <<live, alive, latest, base, req, prior>>
    BY DEF Refuse, RefuseSensitive, TxnFailed, Reload, ReloadFails, Revert, WindowKeep, Keep,
           WindowRevert, PruneKept, Prune, SayKept, SayReverted, SayRevertFailed, DropRest
  <2> QED BY <2>1, <2>2, SoloRun
<1>2. Only(r) /\ at'[r] # "idle"
  BY <1>1, OnlyTool
<1>3. Directory(r)'
  <2>1. CASE Refuse(r) \/ RefuseSensitive(r)
    <3>1. step[r] = "idle" /\ step' = step /\ at'[r] = "exit"
      BY <1>1, <2>1 DEF Refuse, RefuseSensitive, Control, TypeOK
    <3> QED BY <1>1, <3>1 DEF Directory
  <2>2. CASE TxnFailed(r)
    <3>1. step[r] = "failed" /\ step' = step /\ at'[r] = "exit" /\ said[r] = <<>>
      BY <1>1, <2>2 DEF TxnFailed, Control, TypeOK
    <3>2. said'[r] = <<"error">>
      BY <1>1, <2>2, <3>1, SayFirst DEF TxnFailed, Lines
    <3> QED BY <1>1, <3>1, <3>2 DEF Directory, Unsure, Wanted
  <2>3. CASE Reload(r)
    <3>1. step[r] = "open" /\ step' = step /\ at'[r] = "window" /\ loaded' = live'
      BY <1>1, <2>3 DEF Reload, TypeOK
    <3> QED BY <1>1, <3>1 DEF Directory, Wanted
  <2>4. CASE ReloadFails(r) \/ WindowRevert(r)
    <3>1. /\ step[r] = "open" /\ step'[r] = "revert" /\ at'[r] = "undo"
          /\ applied' = applied
      BY <1>1, <2>4 DEF ReloadFails, WindowRevert, Revert, At, TypeOK, TxnTypeOK
    <3>2. applied[r] = <<Own(r)>> /\ <<Own(r)>> # <<>>
      BY <1>1, <3>1 DEF Control
    <3> QED BY <1>1, <3>1, <3>2 DEF Directory, Wanted
  <2>5. CASE WindowKeep(r)
    <3>1. /\ step[r] = "open" /\ step'[r] = "kept" /\ at[r] = "window" /\ at'[r] = "kept"
          /\ loaded' = loaded
      BY <1>1, <2>5 DEF WindowKeep, Keep, At, TypeOK, TxnTypeOK
    <3> QED BY <1>1, <3>1 DEF Directory, Wanted
  <2>6. CASE PruneKept(r)
    <3>1. /\ step[r] = "kept" /\ step'[r] = "pruned" /\ at[r] = "kept" /\ at'[r] = "kept"
          /\ loaded' = loaded
      BY <1>1, <2>6 DEF PruneKept, Prune, At, TypeOK, TxnTypeOK
    <3> QED BY <1>1, <3>1 DEF Directory, Wanted
  <2>7. CASE SayKept(r)
    <3>1. /\ step[r] = "pruned" /\ step' = step /\ at[r] = "kept" /\ at'[r] = "exit"
          /\ loaded' = loaded
      BY <1>1, <2>7 DEF SayKept, TypeOK
    <3> QED BY <1>1, <3>1 DEF Directory, Wanted
  <2>8. CASE SayReverted(r)
    <3>1. step[r] = "reverted" /\ step' = step /\ at'[r] = "exit"
      BY <1>1, <2>8 DEF SayReverted, TypeOK
    <3> QED BY <1>1, <3>1 DEF Directory
  <2>9. CASE SayRevertFailed(r)
    <3>1. step[r] = "stuck" /\ step'[r] = "drop" /\ at'[r] = "exit"
      BY <1>1, <2>9 DEF SayRevertFailed, DropRest, At, TypeOK, TxnTypeOK
    <3> QED BY <1>1, <3>1 DEF Directory, Wanted, Unsure
  <2> QED BY <2>1, <2>2, <2>3, <2>4, <2>5, <2>6, <2>7, <2>8, <2>9
<1> QED BY <1>1, <1>2, <1>3, SoloFrame

\* The transaction at work: for the latest run, or as the Drop of an earlier
\* one, which has nothing left to undo.
LEMMA SoloTransact ==
  ASSUME ControlInv, Solo, NEW r \in Runs,
         Transact(r) \/ UndoTxn(r) \/ DropTxn(r)
  PROVE  Solo'
<1>1. TypeOK /\ Control(r) /\ alive[r] /\ at[r] \in {"txn", "undo", "exit"}
      /\ TxnWork(r) /\ UNCHANGED toolVars
  BY DEF ControlInv, Transact, UndoTxn, DropTxn, In
<1>2. Only(r)
  BY <1>1, FrameWork
<1>3. alive' = alive /\ latest' = latest /\ base' = base
  BY <1>1 DEF TxnWork, ReadPrior, WriteTmp, CheckTmp, WriteBackup, RenameTmp, ReadDoomed,
              BackupDoomed, UnlinkDoomed, RevertEntry, RevertEntryFails, RevertDone, histVars
<1>4. CASE r = latest
  <2>1. Directory(r)
    BY <1>1, <1>4, TxnAssumption DEF Solo
  <2>2. Directory(r)' /\ at'[r] # "idle"
    BY <1>1, <2>1, SoloWork DEF toolVars
  <2> QED BY <1>2, <1>3, <1>4, <2>2, SoloFrame
<1>5. CASE r # latest
  <2>1. at[r] = "exit" /\ step[r] = "drop"
    BY <1>1, <1>5 DEF Solo, Running, Transact, UndoTxn, DropTxn, In
  <2>2. applied[r] = <<>>
    BY <1>1, <2>1 DEF Control
  <2>3. RevertDone(r)
    BY <1>1, <2>1, <2>2 DEF TxnWork, ReadPrior, WriteTmp, CheckTmp, WriteBackup, RenameTmp,
                            ReadDoomed, BackupDoomed, UnlinkDoomed, RevertEntry,
                            RevertEntryFails, At
  <2>4. UNCHANGED <<at, req, said, live, loaded>>
    BY <1>1, <2>3 DEF RevertDone, dirVars, toolVars
  <2>5. ASSUME latest # NoRun PROVE at'[latest] # "idle" /\ Directory(latest)'
    <3>1. latest \in Runs \ {r} /\ at[latest] # "idle" /\ Directory(latest)
      BY <1>1, <1>5, <2>5 DEF Solo, TypeOK, TxnTypeOK
    <3> QED BY <1>2, <1>3, <2>4, <3>1 DEF Directory, Wanted, Unsure, Only
  <2> QED BY <1>3, <2>4, <2>5 DEF Solo, Running
<1> QED BY <1>4, <1>5

LEMMA SoloKill ==
  ASSUME ControlInv, Solo, NEW r \in Runs, Kill(r)
  PROVE  Solo'
<1>1. UNCHANGED <<at, step, said, req, prior, applied, live, base, latest, loaded>>
  BY DEF Kill, dirVars, runVars, histVars, toolVars
<1>2. \A s \in Runs : alive'[s] => alive[s]
  BY DEF Kill, ControlInv, TypeOK, TxnTypeOK
<1> QED BY <1>1, <1>2, SoloSame DEF ControlInv

LEMMA SoloOutside ==
  ASSUME ControlInv, Solo,
         \/ \E r \in Runs :
              \/ \E l \in {"keep", "other"} : SendLine(r, l)
              \/ HangUp(r)
              \/ Expire(r)
         \/ KeydRestart
         \/ Tick /\ UNCHANGED toolVars
         \/ UNCHANGED vars
  PROVE  Solo'
<1>1. /\ UNCHANGED <<at, step, said, req, prior, applied, live, base, latest, alive>>
      /\ loaded' \in {loaded, live}
  BY DEF SendLine, HangUp, Expire, KeydRestart, Tick, vars, txnVars, dirVars, runVars,
         histVars, toolVars
<1> QED BY <1>1, SoloSame DEF ControlInv

LEMMA SoloNext ==
  ASSUME ~Concurrent, ControlInv, ControlInv', Solo, [Next]_vars
  PROVE  Solo'
BY SoloStart, SoloAccept, SoloTool, SoloTransact, SoloKill, SoloOutside DEF Next, Step

\* One run at a time: at every moment the directory and keyd are what the place
\* of the latest run in the code says.
THEOREM SafetyHolds ==
  ASSUME ~Concurrent
  PROVE  Spec => []SafetyInv
<1>1. Init => SafetyInv
  BY ControlInit, SoloInit DEF SafetyInv
<1>2. SafetyInv /\ [Next]_vars => SafetyInv'
  BY ControlNext, SoloNext DEF SafetyInv
<1> QED BY <1>1, <1>2, PTL DEF Spec

-----------------------------------------------------------------------------
(* The properties of the runs.                                             *)

Last(r) == said[r][Len(said[r])]

\* The four ways a run ends.
LEMMA Endings ==
  ASSUME SafetyInv, latest # NoRun, at[latest] = "exit"
  PROVE  \/ Last(latest) = "error" /\ Unsure(latest, base)
         \/ /\ Last(latest) = "kept" /\ live = Wanted(latest)
            /\ loaded = live /\ inbox[latest] = "keep"
         \/ Last(latest) = "reverted" /\ live = base
         \/ Last(latest) = "revert-failed" /\ Unsure(latest, Wanted(latest))
<1>1. latest \in Runs /\ Control(latest) /\ Directory(latest)
  BY DEF SafetyInv, Solo, ControlInv, TypeOK, TxnTypeOK
<1>2. CASE step[latest] \in {"idle", "failed"} /\ said[latest] = <<"error">>
  <2>1. Last(latest) = "error"
    BY <1>2 DEF Last
  <2>2. step[latest] = "idle" => live = base
    BY <1>1 DEF Directory
  <2>3. step[latest] = "failed" => Unsure(latest, base)
    BY <1>1, <1>2 DEF Directory
  <2>4. Unsure(latest, base)
    BY <1>2, <2>2, <2>3 DEF Unsure
  <2> QED BY <2>1, <2>4
<1>3. CASE /\ step[latest] = "pruned" /\ said[latest] = <<"applied", "kept">>
           /\ inbox[latest] = "keep"
  <2>1. Last(latest) = "kept"
    BY <1>3 DEF Last
  <2> QED BY <1>1, <1>3, <2>1 DEF Directory
<1>4. CASE /\ step[latest] = "reverted"
           /\ said[latest] \in {<<"reverted">>, <<"applied", "reverted">>}
  <2>1. Last(latest) = "reverted"
    <3>1. CASE said[latest] = <<"reverted">>
      BY <3>1 DEF Last
    <3>2. CASE said[latest] = <<"applied", "reverted">>
      BY <3>2 DEF Last
    <3> QED BY <1>4, <3>1, <3>2
  <2> QED BY <1>1, <1>4, <2>1 DEF Directory
<1>5. CASE /\ step[latest] \in {"drop", "failed"}
           /\ said[latest] \in {<<"revert-failed">>, <<"applied", "revert-failed">>}
  <2>1. Last(latest) = "revert-failed"
    <3>1. CASE said[latest] = <<"revert-failed">>
      BY <3>1 DEF Last
    <3>2. CASE said[latest] = <<"applied", "revert-failed">>
      BY <3>2 DEF Last
    <3> QED BY <1>5, <3>1, <3>2
  <2>2. said[latest] \notin {<<>>, <<"error">>}
    BY <1>5
  <2>3. Unsure(latest, Wanted(latest))
    BY <1>1, <1>5, <2>2 DEF Directory
  <2> QED BY <2>1, <2>3
<1> QED BY <1>1, <1>2, <1>3, <1>4, <1>5 DEF Control

\* What the GUI is told when a run ends is so: after an error not a byte is
\* different, nothing but the user's keep makes a change last unless the run
\* ended with the alarm, kept, reverted and revert-failed say which of the two
\* states the files are in, and keyd runs what was kept.  This is for one run at
\* a time, which no lock in the code sees to, and for a disk on which an error
\* of rename or unlink means that nothing was changed.
THEOREM EndingsHold ==
  ASSUME ~Concurrent, ~UnsyncedIO
  PROVE  Spec => []EndingsAreTrue
<1>1. SafetyInv => ErrorWroteNothing
  BY Endings DEF ErrorWroteNothing, Exited, Last, Unsure
<1>2. SafetyInv => OnlyKeepStays
  BY Endings DEF OnlyKeepStays, Exited, Last, Unsure
<1>3. SafetyInv => VerdictIsTrue
  BY Endings DEF VerdictIsTrue, Exited, Last, Unsure
<1>4. SafetyInv => KeptIsLoaded
  BY Endings DEF KeptIsLoaded, Exited, Last, Unsure
<1>5. SafetyInv => EndingsAreTrue
  BY <1>1, <1>2, <1>3, <1>4 DEF EndingsAreTrue
<1> QED BY <1>5, SafetyHolds, PTL

\* Without the assumption on the disk, still for one run at a time: kept and
\* reverted remain true, and error and revert-failed leave the files as the run
\* found them or with the change, never anything else.
THEOREM AnyDiskHolds ==
  ASSUME ~Concurrent
  PROVE  Spec => []EndingsOnAnyDisk
<1>1. SafetyInv => EndingsOnAnyDisk
  BY Endings DEF EndingsOnAnyDisk, Exited, Last, Unsure
<1> QED BY <1>1, SafetyHolds, PTL

-----------------------------------------------------------------------------
(* The steps of one run leave the others where they are.                   *)

\* A step of main.rs or of the transaction moves no other run.
LEMMA StepOnly ==
  ASSUME ControlInv, NEW s \in Runs, Step(s)
  PROVE  Only(s) /\ at[s] # "idle" /\ at'[s] # "idle" /\ req' = req
<1>1. TypeOK
  BY DEF ControlInv
<1>2. CASE Transact(s) \/ UndoTxn(s) \/ DropTxn(s)
  <2>1. TxnWork(s) /\ UNCHANGED toolVars /\ at[s] # "idle"
    BY <1>2 DEF Transact, UndoTxn, DropTxn, In
  <2> QED BY <1>1, <2>1, FrameWork DEF toolVars
<1>3. CASE Accept(s)
  BY <1>1, <1>3 DEF Accept, BeginApply, BeginDelete, Goto, Move, In, pipeVars, Only, TypeOK,
                    TxnTypeOK
<1>4. CASE \/ Refuse(s) \/ RefuseSensitive(s) \/ TxnFailed(s) \/ Reload(s)
           \/ ReloadFails(s) \/ WindowKeep(s) \/ WindowRevert(s) \/ PruneKept(s)
           \/ SayKept(s) \/ SayReverted(s) \/ SayRevertFailed(s)
  <2>1. Only(s) /\ at'[s] # "idle"
    BY <1>1, <1>4, OnlyTool
  <2>2. req' = req /\ at[s] # "idle"
    BY <1>4 DEF Refuse, RefuseSensitive, TxnFailed, Reload, ReloadFails, WindowKeep,
                WindowRevert, PruneKept, SayKept, SayReverted, SayRevertFailed, In, toolVars
  <2> QED BY <2>1, <2>2
<1> QED BY <1>2, <1>3, <1>4 DEF Step

-----------------------------------------------------------------------------
(* The backups there are: finitely many, each of a run that has begun and  *)
(* of the config it asked for, and while a run may still need its own, no  *)
(* other of that run.  No assumption on how runs overlap or on the disk.   *)

\* Pruning leaves Retain backups of the config, none older than one it takes.
LEMMA SurplusLeaves ==
  ASSUME IsFiniteSet(baks), NEW n, NEW doomed, Surplus(n, doomed), NEW d \in doomed
  PROVE  \E c \in {b \in baks : b.name = n} \ doomed : d.stamp <= c.stamp
<1> DEFINE mine == {b \in baks : b.name = n}
<1>1. IsFiniteSet(mine)
  BY FS_Subset
<1>2. doomed \subseteq mine /\ \A e \in doomed, b \in mine \ doomed : e.stamp <= b.stamp
  BY DEF Surplus
<1>3. Cardinality(doomed) =
        (IF Cardinality(mine) > Retain THEN Cardinality(mine) - Retain ELSE 0)
  BY DEF Surplus
<1>4. IsFiniteSet(doomed)
  BY <1>1, <1>2, FS_Subset
<1>5. Cardinality(mine) \in Nat /\ Cardinality(doomed) \in Nat
  BY <1>1, <1>4, FS_CardinalityType
<1>6. Cardinality(doomed) # 0
  BY <1>4, FS_EmptySet
<1> HIDE DEF mine
<1>7. Cardinality(doomed) # Cardinality(mine)
  BY <1>3, <1>5, <1>6, TxnAssumption
<1>8. PICK c \in mine : c \notin doomed
  BY <1>2, <1>7
<1>9. d.stamp <= c.stamp
  BY <1>2, <1>8
<1> QED BY <1>8, <1>9 DEF mine

\* The transaction adds backups of its own run only, one at a time.
LEMMA WorkAdds ==
  ASSUME ControlInv, NEW r \in Runs, TxnWork(r), IsFiniteSet(baks)
  PROVE  /\ IsFiniteSet(baks')
         /\ \A b \in baks' : b \in baks \/ (b.run = r /\ b.name = req[r].name)
         /\ stamp' = stamp /\ base' = base /\ latest' = latest
<1>1. CASE ReadPrior(r) \/ WriteTmp(r) \/ CheckTmp(r) \/ RenameTmp(r) \/ ReadDoomed(r)
           \/ RevertEntry(r) \/ RevertEntryFails(r) \/ RevertDone(r)
  BY <1>1 DEF ReadPrior, WriteTmp, CheckTmp, RenameTmp, ReadDoomed, RevertEntry,
              RevertEntryFails, RevertDone, dirVars, histVars
<1>2. CASE WriteBackup(r) \/ BackupDoomed(r)
  <2>1. baks' \in {baks, baks \union {Bak(r, prior[r])}, baks \union {Bak(r, Torn)}}
    BY <1>2 DEF WriteBackup, BackupDoomed, BakDebris
  <2>2. IsFiniteSet(baks')
    BY <2>1, FS_AddElement
  <2>3. \A v : Bak(r, v).run = r /\ Bak(r, v).name = req[r].name
    BY <1>2, OpTyped DEF Bak, WriteBackup, BackupDoomed, At
  <2>4. \A b \in baks' : b \in baks \/ (b.run = r /\ b.name = req[r].name)
    BY <2>1, <2>3
  <2> QED BY <1>2, <2>2, <2>4 DEF WriteBackup, BackupDoomed, histVars
<1>3. CASE UnlinkDoomed(r)
  <2>1. baks' \subseteq baks
    BY <1>3 DEF UnlinkDoomed
  <2> QED BY <1>3, <2>1, FS_Subset DEF UnlinkDoomed, histVars
<1> QED BY <1>1, <1>2, <1>3 DEF TxnWork

LEMMA BackupsOther ==
  ASSUME NEW r \in Runs, Only(r), stamp' = stamp, \A b \in baks' : b \in baks \/ b.run = r,
         NEW s \in Runs, s # r, Backups(s)
  PROVE  Backups(s)'
BY DEF Only, Backups, OwnBak

LEMMA BackupsWork ==
  ASSUME ControlInv, NEW r \in Runs, Backups(r), TxnWork(r), UNCHANGED toolVars
  PROVE  Backups(r)'
<1>1. TypeOK /\ Control(r) /\ req' = req
  BY DEF ControlInv, toolVars
<1>2. CASE ReadPrior(r) \/ WriteTmp(r) \/ CheckTmp(r) \/ ReadDoomed(r)
  <2>1. /\ step[r] \in {"read", "tmp", "check", "dread"} /\ baks' = baks
        /\ step'[r] \in {"tmp", "check", "backup", "abort", "dbackup", "failed"}
    BY <1>1, <1>2 DEF ReadPrior, WriteTmp, CheckTmp, ReadDoomed, At, Goto, dirVars, TypeOK,
                      TxnTypeOK
  <2> QED BY <2>1 DEF Backups
<1>3. CASE WriteBackup(r) \/ BackupDoomed(r)
  <2>1. step[r] \in {"backup", "dbackup"} /\ UNCHANGED <<prior, stamp>>
    BY <1>3 DEF WriteBackup, BackupDoomed, At
  <2>2. Bak(r, prior[r]) = OwnBak(r) /\ OwnBak(r)' = OwnBak(r)
    BY <1>1, <2>1, OpTyped DEF Bak, OwnBak
  <2>3. \/ step'[r] \in {"abort", "failed"}
        \/ /\ step'[r] \in {"rename", "unlink"}
           /\ baks' \in {baks, baks \union {Bak(r, prior[r])}}
    BY <1>1, <1>3 DEF WriteBackup, BackupDoomed, Goto, TypeOK, TxnTypeOK
  <2> HIDE DEF OwnBak
  <2> QED BY <2>1, <2>2, <2>3 DEF Backups
<1>4. CASE RenameTmp(r) \/ UnlinkDoomed(r)
  <2>1. step[r] \in {"rename", "unlink"} /\ UNCHANGED <<prior, stamp>> /\ baks' \subseteq baks
    BY <1>4 DEF RenameTmp, UnlinkDoomed, At
  <2>2. Len(todo[r]) = 1
    <3>1. todo[r] = <<Op(r)>>
      BY <2>1, OpTyped
    <3> QED BY <3>1
  <2>3. step'[r] \in {"open", "abort", "failed"} /\ OwnBak(r)' = OwnBak(r)
    BY <1>1, <1>4, <2>1, <2>2 DEF RenameTmp, UnlinkDoomed, Goto, TypeOK, TxnTypeOK, OwnBak
  <2> HIDE DEF OwnBak
  <2> QED BY <2>1, <2>3 DEF Backups
<1>5. CASE RevertEntry(r)
  <2>1. step[r] = "revert" /\ step' = step
    BY <1>1, <1>5 DEF RevertEntry, Undoing, Control
  <2> QED BY <2>1 DEF Backups
<1>6. CASE RevertEntryFails(r)
  <2>1. step[r] = "revert"
    BY <1>1, <1>6 DEF RevertEntryFails, Undoing, Control
  <2>2. step'[r] = "stuck"
    BY <1>1, <1>6, <2>1 DEF RevertEntryFails, Goto, AfterError, TypeOK, TxnTypeOK
  <2> QED BY <2>2 DEF Backups
<1>7. CASE RevertDone(r)
  <2>1. step[r] \in {"abort", "revert", "drop", "unwind"} /\ step'[r] = AfterAll[step[r]]
    BY <1>1, <1>7 DEF RevertDone, Undoing, Goto, TypeOK, TxnTypeOK
  <2>2. step'[r] \in {"failed", "reverted", "unwound"}
    BY <2>1 DEF AfterAll
  <2> QED BY <2>2 DEF Backups
<1> QED BY <1>2, <1>3, <1>4, <1>5, <1>6, <1>7 DEF TxnWork

LEMMA BackupsSteps ==
  ASSUME ControlInv, NEW r \in Runs, Backups(r),
         \/ Refuse(r) \/ RefuseSensitive(r) \/ Accept(r) \/ TxnFailed(r) \/ Reload(r)
         \/ ReloadFails(r) \/ WindowKeep(r) \/ WindowRevert(r) \/ PruneKept(r)
         \/ SayKept(r) \/ SayReverted(r) \/ SayRevertFailed(r)
  PROVE  Backups(r)' /\ baks' \subseteq baks /\ UNCHANGED <<req, stamp>>
<1>1. TypeOK
  BY DEF ControlInv
<1>2. req' = req /\ baks' \subseteq baks
  BY DEF Refuse, RefuseSensitive, Accept, BeginApply, BeginDelete, TxnFailed, Reload,
         ReloadFails, Revert, WindowKeep, Keep, WindowRevert, PruneKept, Prune, SayKept,
         SayReverted, SayRevertFailed, DropRest, txnVars, dirVars, toolVars
<1>3. CASE Accept(r)
  <2>1. /\ step[r] = "idle" /\ step'[r] \in {"read", "dread"} /\ baks' = baks
        /\ stamp' = [stamp EXCEPT ![r] = stamp[r]]
    BY <1>1, <1>3 DEF Accept, BeginApply, BeginDelete, At, Goto, dirVars, TypeOK, TxnTypeOK
  <2>2. stamp' = stamp
    BY <1>1, <2>1 DEF TypeOK, TxnTypeOK
  <2> QED BY <1>2, <2>1, <2>2 DEF Backups
<1>4. CASE ~Accept(r)
  <2>1. UNCHANGED <<stamp, prior>>
    BY <1>4 DEF Refuse, RefuseSensitive, TxnFailed, Reload, ReloadFails, Revert, WindowKeep,
                Keep, WindowRevert, PruneKept, Prune, SayKept, SayReverted, SayRevertFailed,
                DropRest, txnVars, runVars, toolVars
  <2>2. OwnBak(r)' = OwnBak(r)
    BY <1>2, <2>1 DEF OwnBak
  <2>3. \/ step' = step
        \/ step[r] = "open" /\ step'[r] \in {"kept", "revert"}
        \/ step'[r] \in {"pruned", "drop"}
    BY <1>1, <1>4 DEF Refuse, RefuseSensitive, TxnFailed, Reload, ReloadFails, Revert,
         WindowKeep, Keep, WindowRevert, PruneKept, Prune, SayKept, SayReverted,
         SayRevertFailed, DropRest, At, Goto, txnVars, runVars, TypeOK, TxnTypeOK
  <2> HIDE DEF OwnBak
  <2> QED BY <1>2, <2>1, <2>2, <2>3 DEF Backups
<1> QED BY <1>3, <1>4

LEMMA StockStep ==
  ASSUME ControlInv, Stock, NEW r \in Runs, Step(r)
  PROVE  Stock'
<1>1. Only(r) /\ at[r] # "idle" /\ at'[r] # "idle" /\ req' = req
  BY StepOnly
<1>2. /\ Backups(r)' /\ stamp' = stamp /\ IsFiniteSet(baks')
      /\ \A b \in baks' : b \in baks \/ (b.run = r /\ b.name = req[r].name)
  <2>1. Backups(r) /\ IsFiniteSet(baks)
    BY DEF Stock
  <2>2. CASE Transact(r) \/ UndoTxn(r) \/ DropTxn(r)
    <3>1. TxnWork(r) /\ UNCHANGED toolVars
      BY <2>2 DEF Transact, UndoTxn, DropTxn
    <3> QED BY <2>1, <3>1, BackupsWork, WorkAdds
  <2>3. CASE \/ Refuse(r) \/ RefuseSensitive(r) \/ Accept(r) \/ TxnFailed(r) \/ Reload(r)
             \/ ReloadFails(r) \/ WindowKeep(r) \/ WindowRevert(r) \/ PruneKept(r)
             \/ SayKept(r) \/ SayReverted(r) \/ SayRevertFailed(r)
    <3>1. Backups(r)' /\ baks' \subseteq baks /\ stamp' = stamp
      BY <2>1, <2>3, BackupsSteps
    <3> QED BY <2>1, <3>1, FS_Subset
  <2> QED BY <2>2, <2>3 DEF Step
<1>3. \A s \in Runs : Backups(s)'
  BY <1>1, <1>2, BackupsOther DEF Stock
<1>4. ASSUME NEW b \in baks'
      PROVE  b.run \in Runs /\ at'[b.run] # "idle" /\ b.name = req'[b.run].name
  BY <1>1, <1>2 DEF Stock, Only
<1> QED BY <1>2, <1>3, <1>4 DEF Stock

LEMMA StockStart ==
  ASSUME ControlInv, Stock, NEW r \in Runs, NEW q \in Requests, Start(r, q)
  PROVE  Stock'
<1>1. TypeOK /\ Control(r) /\ at[r] = "idle" /\ step[r] = "idle"
  BY DEF ControlInv, Start, In, Control
<1>2. UNCHANGED <<baks, step, prior>>
  BY DEF Start, dirVars, runVars
<1>3. \A s \in Runs \ {r} : at'[s] = at[s] /\ req'[s] = req[s] /\ stamp'[s] = stamp[s]
  BY <1>1 DEF Start, Move, TypeOK, TxnTypeOK
<1>4. \A s \in Runs : Backups(s)'
  BY <1>1, <1>2, <1>3 DEF Stock, Backups, OwnBak
<1>5. \A b \in baks : b.run \in Runs \ {r}
  BY <1>1 DEF Stock
<1> QED BY <1>2, <1>3, <1>4, <1>5 DEF Stock

LEMMA StockNext ==
  ASSUME ControlInv, Stock, [Next]_vars
  PROVE  Stock'
<1>1. CASE \E s \in Runs : Step(s)
  BY <1>1, StockStep
<1>2. CASE \E s \in Runs : \E q \in Requests : Start(s, q)
  BY <1>2, StockStart
<1>3. CASE \/ \E r \in Runs :
                \/ Kill(r)
                \/ \E l \in {"keep", "other"} : SendLine(r, l)
                \/ HangUp(r)
                \/ Expire(r)
           \/ KeydRestart
           \/ Tick /\ UNCHANGED toolVars
           \/ UNCHANGED vars
  <2>1. UNCHANGED <<at, req, step, prior, stamp, baks>>
    BY <1>3 DEF Kill, SendLine, HangUp, Expire, KeydRestart, Tick, vars, txnVars, dirVars,
                runVars, toolVars
  <2> QED BY <2>1 DEF Stock, Backups, OwnBak
<1> QED BY <1>1, <1>2, <1>3 DEF Next

\* A prune takes no backup of a run that has its config for itself: it is the
\* only one of that name.
LEMMA PruneSpares ==
  ASSUME ControlInv, Stock, NEW r \in Runs, Alone(r), PruneKept(r), NEW b \in baks,
         b.name = req[r].name
  PROVE  b \in baks'
<1> DEFINE n == req[r].name
           mine == {c \in baks : c.name = n}
<1>1. step[r] = "kept"
  BY DEF PruneKept, Prune, At
<1>2. \A c \in mine : c = OwnBak(r)
  <2> SUFFICES ASSUME NEW c \in mine PROVE c = OwnBak(r)
    OBVIOUS
  <2>1. c.run = r
    BY DEF Stock, Alone
  <2> QED BY <1>1, <2>1 DEF Stock, Backups
<1>3. PICK doomed \in SUBSET baks : Surplus(n, doomed) /\ baks \ doomed \subseteq baks'
  BY DEF PruneKept, Prune
<1>4. ASSUME b \in doomed PROVE FALSE
  <2>1. PICK c \in mine \ doomed : b.stamp <= c.stamp
    BY <1>3, <1>4, SurplusLeaves DEF Stock
  <2> HIDE DEF mine
  <2>2. b \in mine
    BY DEF mine
  <2> QED BY <1>2, <1>4, <2>1, <2>2
<1> QED BY <1>3, <1>4

-----------------------------------------------------------------------------
(* Runs side by side: what is true of the file of a run that has it for    *)
(* itself.  No assumption on how runs overlap or on what the disk syncs.   *)

\* A step of run s's transaction touches the one config that run asked for,
\* and of the backups only those of that config.
LEMMA WorkTouches ==
  ASSUME ControlInv, NEW s \in Runs, TxnWork(s), NEW n \in Names, n # req[s].name
  PROVE  live'[n] = live[n] /\ \A b \in baks : b.name = n => b \in baks'
<1>1. TypeOK /\ Control(s)
  BY DEF ControlInv
<1>2. CASE ReadPrior(s) \/ WriteTmp(s) \/ CheckTmp(s) \/ ReadDoomed(s) \/ RevertDone(s)
  BY <1>2 DEF ReadPrior, WriteTmp, CheckTmp, ReadDoomed, RevertDone, dirVars
<1>3. CASE WriteBackup(s) \/ BackupDoomed(s)
  BY <1>3 DEF WriteBackup, BackupDoomed, BakDebris
<1>4. CASE RenameTmp(s)
  <2>1. File(s) = req[s].name
    BY <1>4, OpTyped DEF RenameTmp, At
  <2> QED BY <1>1, <1>4, <2>1 DEF RenameTmp, TypeOK, TxnTypeOK
<1>5. CASE UnlinkDoomed(s)
  <2>1. File(s) = req[s].name
    BY <1>5, OpTyped DEF UnlinkDoomed, At
  <2>2. Bak(s, prior[s]).name = req[s].name
    BY <2>1 DEF Bak
  <2>3. baks' \in {baks, baks \ {Bak(s, prior[s])}}
    BY <1>5 DEF UnlinkDoomed
  <2>4. live' \in {live, [live EXCEPT ![req[s].name] = Absent]}
    BY <1>5, <2>1 DEF UnlinkDoomed
  <2>5. \A b \in baks : b.name = n => b \in baks'
    BY <2>2, <2>3
  <2> QED BY <1>1, <2>4, <2>5 DEF TypeOK, TxnTypeOK
<1>6. CASE RevertEntry(s) \/ RevertEntryFails(s)
  <2>1. applied[s] = <<Own(s)>>
    BY <1>1, <1>6 DEF RevertEntry, RevertEntryFails, Undoing, Control
  <2>2. Head(applied[s]).name = req[s].name
    BY <2>1 DEF Own
  <2>3. live' = live \/ live' = [live EXCEPT ![req[s].name] = Head(applied[s]).prior]
    BY <1>6, <2>2 DEF RevertEntry, RevertEntryFails
  <2>4. baks' = baks
    BY <1>6 DEF RevertEntry, RevertEntryFails
  <2> QED BY <1>1, <2>3, <2>4 DEF TypeOK, TxnTypeOK
<1> QED BY <1>2, <1>3, <1>4, <1>5, <1>6 DEF TxnWork

LEMMA StepTouches ==
  ASSUME ControlInv, NEW s \in Runs, Step(s), NEW n \in Names, n # req[s].name
  PROVE  live'[n] = live[n] /\ \A b \in baks : b.name = n => b \in baks'
<1>1. CASE Transact(s) \/ UndoTxn(s) \/ DropTxn(s)
  BY <1>1, WorkTouches DEF Transact, UndoTxn, DropTxn
<1>2. CASE PruneKept(s)
  BY <1>2 DEF PruneKept, Prune, Surplus
<1>3. CASE \/ Refuse(s) \/ RefuseSensitive(s) \/ Accept(s) \/ TxnFailed(s) \/ Reload(s)
           \/ ReloadFails(s) \/ WindowKeep(s) \/ WindowRevert(s)
           \/ SayKept(s) \/ SayReverted(s) \/ SayRevertFailed(s)
  BY <1>3 DEF Refuse, RefuseSensitive, Accept, BeginApply, BeginDelete, TxnFailed, Reload,
              ReloadFails, WindowKeep, WindowRevert, SayKept, SayReverted, SayRevertFailed,
              Keep, Revert, DropRest, txnVars, dirVars
<1> QED BY <1>1, <1>2, <1>3 DEF Step

\* A run that has a config for itself had it for itself before.
LEMMA AloneBefore ==
  ASSUME ControlInv, NEW s \in Runs, Step(s), NEW r \in Runs, Alone(r)'
  PROVE  Alone(r)
<1>1. \A q \in Runs : req'[q] = req[q] /\ (at[q] # "idle" => at'[q] # "idle")
  BY StepOnly DEF Only
<1> QED BY <1>1 DEF Alone

LEMMA OldBytesSame ==
  ASSUME NEW r \in Runs, OldBytes(r), req'[r] = req[r], prior'[r] = prior[r],
         live'[req[r].name] = live[req[r].name],
         \A b \in baks : b.name = req[r].name => b \in baks',
         LostDelete(r) => LostDelete(r)'
  PROVE  OldBytes(r)'
<1>1. Op(r)' = Op(r)
  BY DEF Op
<1>2. BackedUp(r) => BackedUp(r)'
  BY DEF BackedUp
<1> HIDE DEF LostDelete, Op, BackedUp
<1> QED BY <1>1, <1>2 DEF OldBytes

LEMMA MineSame ==
  ASSUME NEW r \in Runs, Mine(r), req'[r] = req[r], prior'[r] = prior[r],
         step'[r] = step[r], applied'[r] = applied[r],
         live'[req[r].name] = live[req[r].name],
         \A b \in baks : b.name = req[r].name => b \in baks',
         LostDelete(r) => LostDelete(r)'
  PROVE  Mine(r)'
<1>1. Op(r)' = Op(r)
  BY DEF Op
<1>2. BackedUp(r) => BackedUp(r)'
  BY DEF BackedUp
<1>3. OldBytes(r) => OldBytes(r)'
  BY OldBytesSame
<1> HIDE DEF Op, BackedUp, OldBytes
<1> QED BY <1>1, <1>2, <1>3 DEF Mine

LEMMA MineOther ==
  ASSUME ControlInv, NEW s \in Runs, Step(s), NEW r \in Runs, r # s,
         at[r] # "idle", Alone(r), Mine(r)
  PROVE  Mine(r)'
<1>1. Control(r) /\ req[r] \in Requests
  BY DEF ControlInv, Control
<1>2. req[r].name \in Names /\ req[r].name # req[s].name
  BY <1>1, ToolAssumption, StepOnly DEF RequestType, Alone
<1>3. /\ live'[req[r].name] = live[req[r].name]
      /\ \A b \in baks : b.name = req[r].name => b \in baks'
  BY <1>2, StepTouches
<1>4. /\ req'[r] = req[r] /\ step'[r] = step[r] /\ prior'[r] = prior[r]
      /\ applied'[r] = applied[r] /\ said'[r] = said[r]
  BY StepOnly DEF Only
<1>5. LostDelete(r) => LostDelete(r)'
  BY <1>4 DEF LostDelete
<1> QED BY <1>3, <1>4, <1>5, MineSame

LEMMA MineReadPrior ==
  ASSUME ControlInv, NEW r \in Runs, Mine(r), UNCHANGED toolVars,
         ReadPrior(r) \/ ReadDoomed(r)
  PROVE  Mine(r)'
<1>1. TypeOK /\ step[r] \in {"read", "dread"}
  BY DEF ControlInv, ReadPrior, ReadDoomed, At
<1>2. File(r) = req[r].name /\ req' = req /\ live' = live
  BY <1>1, OpTyped DEF ReadPrior, ReadDoomed, toolVars, dirVars
<1>3. prior[r] = Absent
  BY <1>1 DEF Mine
<1>4. \/ step'[r] \in {"tmp", "dbackup"} /\ prior'[r] = live[req[r].name]
      \/ step'[r] \in {"abort", "failed"} /\ prior'[r] = Absent
  BY <1>1, <1>2, <1>3 DEF ReadPrior, ReadDoomed, Goto, TypeOK, TxnTypeOK
<1> QED BY <1>2, <1>4 DEF Mine

LEMMA MineBackup ==
  ASSUME ControlInv, NEW r \in Runs, Mine(r), UNCHANGED toolVars,
         WriteTmp(r) \/ CheckTmp(r) \/ WriteBackup(r) \/ BackupDoomed(r)
  PROVE  Mine(r)'
<1>1. TypeOK /\ step[r] \in {"tmp", "check", "backup", "dbackup"}
  BY DEF ControlInv, WriteTmp, CheckTmp, WriteBackup, BackupDoomed, At
<1>2. File(r) = req[r].name /\ req' = req /\ live' = live /\ prior' = prior
  BY <1>1, OpTyped DEF WriteTmp, CheckTmp, WriteBackup, BackupDoomed, toolVars
<1>3. live[req[r].name] = prior[r]
  BY <1>1 DEF Mine
<1>4. \/ step'[r] \in {"check", "backup", "abort", "failed"}
      \/ step'[r] = "rename" /\ prior[r] = Absent
      \/ step'[r] \in {"rename", "unlink"} /\ Bak(r, prior[r]) \in baks'
  BY <1>1 DEF WriteTmp, CheckTmp, WriteBackup, BackupDoomed, Goto, TypeOK, TxnTypeOK
<1>5. Bak(r, prior[r]).name = req[r].name /\ Bak(r, prior[r]).bytes = prior[r]
  BY <1>2 DEF Bak
<1>6. Bak(r, prior[r]) \in baks' => BackedUp(r)'
  BY <1>2, <1>5 DEF BackedUp
<1>7. OldBytes(r)'
  BY <1>2, <1>3 DEF OldBytes
<1> HIDE DEF BackedUp, OldBytes
<1> QED BY <1>2, <1>3, <1>4, <1>6, <1>7 DEF Mine

LEMMA MineInstall ==
  ASSUME ControlInv, NEW r \in Runs, Mine(r), UNCHANGED toolVars,
         RenameTmp(r) \/ UnlinkDoomed(r)
  PROVE  Mine(r)'
<1>1. TypeOK /\ Control(r) /\ step[r] \in {"rename", "unlink"}
  BY DEF ControlInv, RenameTmp, UnlinkDoomed, At
<1>2. /\ File(r) = req[r].name /\ File(r) \in Names /\ todo[r] = <<Op(r)>>
      /\ req' = req /\ prior' = prior /\ said' = said
  BY <1>1, OpTyped DEF RenameTmp, UnlinkDoomed, toolVars
<1>3. Head(todo[r]).content = Op(r).content /\ Len(todo[r]) = 1
  BY <1>2
<1>4. UnlinkDoomed(r) => Op(r).content = Absent /\ req[r].verb = "delete" /\ said[r] = <<>>
  BY <1>1 DEF Control, Op, UnlinkDoomed, At, TypeOK, Places
<1>5. /\ live[req[r].name] = prior[r]
      /\ prior[r] # Absent => BackedUp(r)
      /\ Op(r)' = Op(r)
  BY <1>1, <1>2 DEF Mine, Op
<1>6. \/ step'[r] \in {"abort", "failed"} /\ live' = live
      \/ /\ step'[r] = "open" /\ baks' = baks
         /\ live' = [live EXCEPT ![req[r].name] = Op(r).content]
      \/ /\ step'[r] = "abort" /\ baks' = baks
         /\ live' = [live EXCEPT ![req[r].name] = Op(r).content]
      \/ /\ UnlinkDoomed(r) /\ UnsyncedIO /\ step'[r] = "failed"
         /\ live' = [live EXCEPT ![req[r].name] = Op(r).content]
  BY <1>1, <1>2, <1>3, <1>4 DEF RenameTmp, UnlinkDoomed, Unsync, Goto, TypeOK, TxnTypeOK
<1>7. CASE step'[r] \in {"abort", "failed"} /\ live' = live
  <2>1. OldBytes(r)'
    BY <1>2, <1>5, <1>7 DEF OldBytes
  <2> QED BY <1>7, <2>1 DEF Mine
<1>8. CASE live' = [live EXCEPT ![req[r].name] = Op(r).content]
  <2>1. live'[req[r].name] = Op(r).content
    BY <1>1, <1>2, <1>8 DEF TypeOK, TxnTypeOK
  <2>2. baks' = baks /\ prior[r] # Absent => BackedUp(r)'
    BY <1>2, <1>5 DEF BackedUp
  <2>3. CASE step'[r] \in {"open", "abort"} /\ baks' = baks
    <3>1. prior[r] # Absent => OldBytes(r)'
      BY <1>2, <1>5, <2>1, <2>2, <2>3 DEF OldBytes
    <3> HIDE DEF OldBytes, BackedUp, Op
    <3> QED BY <1>2, <1>5, <2>1, <2>2, <2>3, <3>1 DEF Mine
  <2>4. CASE UnlinkDoomed(r) /\ UnsyncedIO /\ step'[r] = "failed"
    <3>1. LostDelete(r)'
      BY <1>2, <1>4, <2>4 DEF LostDelete
    <3>2. OldBytes(r)'
      BY <1>2, <1>5, <2>1, <2>4, <3>1 DEF OldBytes
    <3> HIDE DEF OldBytes
    <3> QED BY <2>4, <3>2 DEF Mine
  <2>5. CASE step'[r] \in {"abort", "failed"} /\ live' = live
    BY <1>7, <2>5
  <2> QED BY <1>6, <2>3, <2>4, <2>5
<1> QED BY <1>6, <1>7, <1>8

LEMMA MineUndo ==
  ASSUME ControlInv, NEW r \in Runs, Mine(r), UNCHANGED toolVars,
         RevertEntry(r) \/ RevertEntryFails(r) \/ RevertDone(r)
  PROVE  Mine(r)'
<1>1. /\ TypeOK /\ Control(r) /\ req' = req /\ prior' = prior /\ said' = said
      /\ baks' = baks
  BY DEF ControlInv, RevertEntry, RevertEntryFails, RevertDone, toolVars, dirVars
<1>2. at[r] # "idle" => req[r].name \in Names
  BY <1>1, ToolAssumption DEF Control, RequestType
<1>3. Op(r)' = Op(r) /\ BackedUp(r)' = BackedUp(r)
  BY <1>1 DEF Op, BackedUp
<1>4. CASE RevertEntry(r)
  <2>1. step[r] = "revert" /\ applied[r] = <<Own(r)>> /\ step' = step
    BY <1>1, <1>4 DEF RevertEntry, Undoing, Control
  <2>2. Head(applied[r]) = Own(r) /\ Own(r).name = req[r].name /\ Own(r).prior = prior[r]
    BY <2>1 DEF Own
  <2>3. req[r].name \in Names
    BY <1>1, <1>2, <2>1 DEF Control
  <2>4. live'[req[r].name] = prior[r] /\ applied'[r] = <<>>
    BY <1>1, <1>4, <2>1, <2>2, <2>3 DEF RevertEntry, TypeOK, TxnTypeOK
  <2>5. prior[r] # Absent => BackedUp(r)
    BY <2>1 DEF Mine
  <2> HIDE DEF BackedUp
  <2> QED BY <1>1, <1>3, <2>1, <2>4, <2>5 DEF Mine
<1>5. CASE RevertEntryFails(r)
  <2>1. step[r] = "revert" /\ applied[r] = <<Own(r)>> /\ applied[r] # <<>>
    BY <1>1, <1>5 DEF RevertEntryFails, Undoing, Control
  <2>2. Head(applied[r]) = Own(r) /\ Own(r).name = req[r].name /\ Own(r).prior = prior[r]
    BY <2>1 DEF Own
  <2>3. req[r].name \in Names
    BY <1>1, <1>2, <2>1 DEF Control
  <2>4. step'[r] = "stuck"
    BY <1>1, <1>5, <2>1 DEF RevertEntryFails, Goto, AfterError, TypeOK, TxnTypeOK
  <2>5. live' = live \/ live' = [live EXCEPT ![req[r].name] = prior[r]]
    BY <1>5, <2>2 DEF RevertEntryFails
  <2>6. live'[req[r].name] \in {live[req[r].name], prior[r]}
    BY <1>1, <2>3, <2>5 DEF TypeOK, TxnTypeOK
  <2>7. live[req[r].name] = Op(r).content /\ (prior[r] # Absent => BackedUp(r))
    BY <2>1 DEF Mine
  <2>8. prior[r] # Absent => OldBytes(r)'
    <3> HIDE DEF BackedUp, Op, LostDelete
    <3> QED BY <1>1, <1>3, <2>6, <2>7 DEF OldBytes
  <2> QED BY <1>1, <2>4, <2>8 DEF Mine
<1>6. CASE RevertDone(r)
  <2>1. /\ step[r] \in {"abort", "revert", "drop"} /\ applied[r] = <<>> /\ live' = live
    BY <1>1, <1>6 DEF RevertDone, Undoing, dirVars, Control, TypeOK, Places
  <2>2. step'[r] = AfterAll[step[r]]
    BY <1>1, <1>6 DEF RevertDone, Goto, TypeOK, TxnTypeOK
  <2>3. \/ step[r] = "revert" /\ step'[r] = "reverted"
        \/ step[r] \in {"abort", "drop"} /\ step'[r] = "failed"
    BY <2>1, <2>2 DEF AfterAll
  <2>4. step[r] \in {"abort", "drop"} /\ prior[r] # Absent => OldBytes(r)'
    <3>1. step[r] \in {"abort", "drop"} => ~LostDelete(r)
      BY DEF LostDelete
    <3>2. step[r] \in {"abort", "drop"} /\ prior[r] # Absent => OldBytes(r)
      BY DEF Mine
    <3> QED BY <1>1, <2>1, <3>1, <3>2, OldBytesSame
  <2> HIDE DEF OldBytes
  <2> QED BY <1>1, <2>1, <2>3, <2>4 DEF Mine
<1> QED BY <1>4, <1>5, <1>6

LEMMA MineTool ==
  ASSUME ControlInv, Stock, NEW r \in Runs, Alone(r), Mine(r),
         \/ Refuse(r) \/ RefuseSensitive(r) \/ Accept(r) \/ TxnFailed(r) \/ Reload(r)
         \/ ReloadFails(r) \/ WindowKeep(r) \/ WindowRevert(r) \/ PruneKept(r)
         \/ SayKept(r) \/ SayReverted(r) \/ SayRevertFailed(r)
  PROVE  Mine(r)'
<1>1. TypeOK /\ Control(r)
  BY DEF ControlInv
<1>2. UNCHANGED <<req, live, prior>>
  BY DEF Refuse, RefuseSensitive, Accept, BeginApply, BeginDelete, TxnFailed, Reload,
         ReloadFails, Revert, WindowKeep, Keep, WindowRevert, PruneKept, Prune, SayKept,
         SayReverted, SayRevertFailed, DropRest, txnVars, dirVars, runVars, toolVars
<1>3. \A b \in baks : b.name = req[r].name => b \in baks'
  <2>1. CASE PruneKept(r)
    BY <2>1, PruneSpares
  <2>2. CASE ~PruneKept(r)
    BY <2>2 DEF Refuse, RefuseSensitive, Accept, BeginApply, BeginDelete, TxnFailed, Reload,
                ReloadFails, Revert, WindowKeep, Keep, WindowRevert, SayKept, SayReverted,
                SayRevertFailed, DropRest, txnVars, dirVars
  <2> QED BY <2>1, <2>2
<1>4. Op(r)' = Op(r) /\ (BackedUp(r) => BackedUp(r)')
  BY <1>2, <1>3 DEF Op, BackedUp
<1>5. CASE \/ Refuse(r) \/ RefuseSensitive(r) \/ TxnFailed(r) \/ Reload(r)
           \/ SayKept(r) \/ SayReverted(r)
  <2>1. UNCHANGED <<step, applied>>
    BY <1>5 DEF Refuse, RefuseSensitive, TxnFailed, Reload, SayKept, SayReverted, txnVars,
                runVars
  <2>2. LostDelete(r) => LostDelete(r)'
    <3>1. CASE TxnFailed(r)
      <4>1. said[r] = <<>>
        BY <1>1, <3>1 DEF TxnFailed, In, Control
      <4>2. said'[r] = <<"error">>
        BY <1>1, <3>1, <4>1, SayFirst DEF TxnFailed, Lines
      <4> QED BY <1>2, <2>1, <4>2 DEF LostDelete
    <3>2. CASE ~TxnFailed(r)
      <4>1. step[r] # "failed"
        BY <1>1, <1>5, <3>2 DEF Refuse, RefuseSensitive, Reload, SayKept, SayReverted, In,
                                Control
      <4> QED BY <4>1 DEF LostDelete
    <3> QED BY <3>1, <3>2
  <2> QED BY <1>2, <1>3, <2>1, <2>2, MineSame
<1>6. CASE Accept(r)
  <2>1. step[r] = "idle" /\ step'[r] \in {"read", "dread"}
    BY <1>1, <1>6 DEF Accept, BeginApply, BeginDelete, At, Goto, TypeOK, TxnTypeOK
  <2> QED BY <1>2, <2>1 DEF Mine
<1>7. CASE SayRevertFailed(r)
  <2>1. step[r] = "stuck" /\ step'[r] = "drop"
    BY <1>1, <1>7 DEF SayRevertFailed, DropRest, At, Goto, TypeOK, TxnTypeOK
  <2>2. prior[r] # Absent => OldBytes(r)
    BY <2>1 DEF Mine
  <2>3. ~LostDelete(r)
    BY <2>1 DEF LostDelete
  <2>4. prior[r] # Absent => OldBytes(r)'
    BY <1>2, <1>3, <2>2, <2>3, OldBytesSame
  <2> HIDE DEF OldBytes
  <2> QED BY <1>2, <2>1, <2>4 DEF Mine
<1>8. CASE ReloadFails(r) \/ WindowRevert(r)
  <2>1. step[r] = "open" /\ step'[r] = "revert" /\ applied' = applied
    BY <1>1, <1>8 DEF ReloadFails, WindowRevert, Revert, At, Goto, TypeOK, TxnTypeOK
  <2>2. applied[r] = <<Own(r)>> /\ <<Own(r)>> # <<>>
    BY <1>1, <2>1 DEF Control
  <2> HIDE DEF Op, BackedUp
  <2> QED BY <1>2, <1>4, <2>1, <2>2 DEF Mine
<1>9. CASE WindowKeep(r) \/ PruneKept(r)
  <2>1. step[r] \in {"open", "kept"} /\ step'[r] \in {"kept", "pruned"}
    BY <1>1, <1>9 DEF WindowKeep, Keep, PruneKept, Prune, At, Goto, TypeOK, TxnTypeOK
  <2> HIDE DEF Op, BackedUp
  <2> QED BY <1>2, <1>4, <2>1 DEF Mine
<1> QED BY <1>5, <1>6, <1>7, <1>8, <1>9

LEMMA SideStep ==
  ASSUME ControlInv, Stock, Side, NEW s \in Runs, Step(s)
  PROVE  Side'
<1>0. ASSUME NEW r \in Runs, at'[r] = "idle" PROVE prior'[r] = Absent
  <2>1. at[r] = "idle" /\ prior'[r] = prior[r]
    BY <1>0, StepOnly DEF Only
  <2> QED BY <2>1 DEF Side
<1> SUFFICES ASSUME NEW r \in Runs, Alone(r)', at'[r] # "idle" PROVE Mine(r)'
  BY <1>0 DEF Side
<1>1. at[r] # "idle" /\ Alone(r)
  BY AloneBefore, StepOnly DEF Only
<1>2. Mine(r)
  BY <1>1 DEF Side
<1>3. CASE r # s
  BY <1>1, <1>2, <1>3, MineOther
<1>4. CASE r = s
  BY <1>1, <1>2, <1>4, MineReadPrior, MineBackup, MineInstall, MineUndo, MineTool
  DEF Step, Transact, UndoTxn, DropTxn, TxnWork
<1> QED BY <1>3, <1>4

LEMMA SideStart ==
  ASSUME ControlInv, Side, NEW s \in Runs, NEW q \in Requests, Start(s, q)
  PROVE  Side'
<1>0. ASSUME NEW r \in Runs, at'[r] = "idle" PROVE prior'[r] = Absent
  BY <1>0 DEF Side, ControlInv, TypeOK, Start, Move, runVars
<1> SUFFICES ASSUME NEW r \in Runs, Alone(r)', at'[r] # "idle" PROVE Mine(r)'
  BY <1>0 DEF Side
<1>1. TypeOK /\ Control(s) /\ at[s] = "idle"
  BY DEF ControlInv, Start, In
<1>2. UNCHANGED <<step, live, prior, applied, baks, said>>
  BY DEF Start, dirVars, runVars
<1>3. \A p \in Runs \ {s} : at'[p] = at[p] /\ req'[p] = req[p]
  BY <1>1 DEF Start, Move, TypeOK
<1>4. CASE r = s
  <2>1. step[r] = "idle" /\ prior[r] = Absent
    BY <1>1, <1>4 DEF Control, Side
  <2> QED BY <1>2, <2>1 DEF Mine
<1>5. CASE r # s
  <2>1. at[r] # "idle" /\ Alone(r)
    BY <1>1, <1>3, <1>5 DEF Alone
  <2>2. Mine(r)
    BY <2>1 DEF Side
  <2>3. LostDelete(r) => LostDelete(r)'
    BY <1>2, <1>3, <1>5 DEF LostDelete
  <2> QED BY <1>2, <1>3, <1>5, <2>2, <2>3, MineSame
<1> QED BY <1>4, <1>5

LEMMA SideNext ==
  ASSUME ControlInv, Stock, Side, [Next]_vars
  PROVE  Side'
<1>1. CASE \E s \in Runs : Step(s)
  BY <1>1, SideStep
<1>2. CASE \E s \in Runs : \E q \in Requests : Start(s, q)
  BY <1>2, SideStart
<1>3. CASE \/ \E r \in Runs :
                \/ Kill(r)
                \/ \E l \in {"keep", "other"} : SendLine(r, l)
                \/ HangUp(r)
                \/ Expire(r)
           \/ KeydRestart
           \/ Tick /\ UNCHANGED toolVars
           \/ UNCHANGED vars
  <2>1. UNCHANGED <<at, req, said, step, live, prior, applied, baks>>
    BY <1>3 DEF Kill, SendLine, HangUp, Expire, KeydRestart, Tick, vars, txnVars, dirVars,
                runVars, toolVars
  <2> SUFFICES ASSUME NEW r \in Runs, Alone(r)', at'[r] # "idle" PROVE Mine(r)'
    BY <2>1 DEF Side
  <2>2. at[r] # "idle" /\ Alone(r)
    BY <2>1 DEF Alone
  <2>3. Mine(r)
    BY <2>2 DEF Side
  <2>4. LostDelete(r) => LostDelete(r)'
    BY <2>1 DEF LostDelete
  <2> QED BY <2>1, <2>3, <2>4, MineSame
<1> QED BY <1>1, <1>2, <1>3 DEF Next

LEMMA SideParallel ==
  ASSUME ControlInv, Side
  PROVE  ParallelRuns
<1> SUFFICES ASSUME NEW r \in Runs, at[r] # "idle", Alone(r)
             PROVE  /\ Exited(r, "reverted") => live[req[r].name] = prior[r]
                    /\ Exited(r, "kept") => live[req[r].name] = Op(r).content
                    /\ at[r] = "window" /\ prior[r] # Absent =>
                         \E b \in baks : b.name = req[r].name /\ b.bytes = prior[r]
  BY DEF ParallelRuns, Op
<1>1. Control(r) /\ Mine(r)
  BY DEF ControlInv, Side
<1>2. at[r] = "exit" =>
        \/ Last(r) = "error"
        \/ Last(r) = "kept" /\ step[r] = "pruned"
        \/ Last(r) = "reverted" /\ step[r] = "reverted"
        \/ Last(r) = "revert-failed"
  <2> SUFFICES ASSUME at[r] = "exit"
               PROVE  \/ Last(r) = "error"
                      \/ Last(r) = "kept" /\ step[r] = "pruned"
                      \/ Last(r) = "reverted" /\ step[r] = "reverted"
                      \/ Last(r) = "revert-failed"
    OBVIOUS
  <2>1. CASE said[r] = <<"error">>
    BY <2>1 DEF Last
  <2>2. CASE step[r] = "pruned" /\ said[r] = <<"applied", "kept">>
    BY <2>2 DEF Last
  <2>3. CASE step[r] = "reverted" /\ said[r] = <<"reverted">>
    BY <2>3 DEF Last
  <2>4. CASE step[r] = "reverted" /\ said[r] = <<"applied", "reverted">>
    BY <2>4 DEF Last
  <2>5. CASE said[r] = <<"revert-failed">>
    BY <2>5 DEF Last
  <2>6. CASE said[r] = <<"applied", "revert-failed">>
    BY <2>6 DEF Last
  <2> QED BY <1>1, <2>1, <2>2, <2>3, <2>4, <2>5, <2>6 DEF Control
<1>3. at[r] = "window" => step[r] = "open"
  BY <1>1 DEF Control
<1> QED BY <1>1, <1>2, <1>3 DEF Exited, Last, Mine, BackedUp

\* A run in the middle of its work or at its end: what Mine says of the old bytes.
LEMMA SideOldBytes ==
  ASSUME ControlInv, Side
  PROVE  OldBytesStay
<1> SUFFICES ASSUME NEW r \in Runs, at[r] # "idle", Alone(r), prior[r] # Absent
             PROVE  OldBytes(r)
  BY DEF OldBytesStay
<1>1. Control(r) /\ Mine(r) /\ TypeOK
  BY DEF ControlInv, Side
<1>2. step[r] \in {"idle", "read", "tmp", "check", "backup", "rename", "dread", "dbackup",
                   "unlink", "open", "abort", "failed", "revert", "reverted", "stuck",
                   "kept", "pruned", "drop"}
  BY <1>1 DEF Control, TypeOK, Places
<1>3. CASE step[r] \in {"abort", "stuck", "drop", "failed"}
  BY <1>1, <1>3 DEF Mine
<1>4. CASE step[r] \notin {"abort", "stuck", "drop", "failed"}
  <2>1. \/ live[req[r].name] = prior[r]
        \/ live[req[r].name] = Op(r).content /\ BackedUp(r)
    <3> HIDE DEF Op, BackedUp
    <3> QED BY <1>1, <1>2, <1>4 DEF Mine
  <2> HIDE DEF Op, BackedUp, LostDelete
  <2> QED BY <2>1 DEF OldBytes
<1> QED BY <1>3, <1>4

\* Side by side with Stock and ControlInv is inductive.
LEMMA SideHolds == Spec => [](ControlInv /\ Stock /\ Side)
<1>1. Init => Stock /\ Side
  BY FS_EmptySet DEF Init, TxnInit, Stock, Backups, Side
<1>2. ControlInv /\ Stock /\ [Next]_vars => Stock'
  BY StockNext
<1>3. ControlInv /\ Stock /\ Side /\ [Next]_vars => Side'
  BY SideNext
<1> QED BY <1>1, <1>2, <1>3, ControlHolds, PTL DEF Spec

\* A run that has a config for itself tells the truth about it, and keeps the
\* replaced file in a backup while its window is open, whatever runs overlap
\* with it, are killed, or meet a disk that fails.
THEOREM ParallelHolds == Spec => []ParallelRuns
<1>1. ControlInv /\ Side => ParallelRuns
  BY SideParallel
<1> QED BY <1>1, SideHolds, PTL

\* No run loses the bytes it found, whatever overlaps with it on other configs,
\* fails, hides that it went through, or is killed, for any retention: they are
\* in the file or in a backup, a delete that was reported as an error excepted.
THEOREM OldBytesHold == Spec => []OldBytesStay
<1>1. ControlInv /\ Side => OldBytesStay
  BY SideOldBytes
<1> QED BY <1>1, SideHolds, PTL

-----------------------------------------------------------------------------
(* The backups: what a run replaced stays on the disk.                     *)

\* The steps of a transaction that leave all backups alone.
LEMMA BackupsQuiet ==
  ASSUME ControlInv, NEW r \in Runs, Backups(r), Saved(r), UNCHANGED toolVars,
         \/ ReadPrior(r) \/ WriteTmp(r) \/ CheckTmp(r) \/ RenameTmp(r) \/ ReadDoomed(r)
         \/ RevertEntry(r) \/ RevertEntryFails(r) \/ RevertDone(r)
  PROVE  Backups(r)' /\ Saved(r)'
<1>1. TypeOK /\ Control(r)
  BY DEF ControlInv
<1>2. UNCHANGED <<req, said, baks, stamp, base>>
  BY DEF ReadPrior, WriteTmp, CheckTmp, RenameTmp, ReadDoomed, RevertEntry,
         RevertEntryFails, RevertDone, toolVars, dirVars, histVars
<1>3. CASE ReadPrior(r) \/ WriteTmp(r) \/ CheckTmp(r) \/ ReadDoomed(r)
  <2>1. /\ step[r] \in {"read", "tmp", "check", "dread"}
        /\ \/ step'[r] \in {"tmp", "check", "backup", "abort", "dbackup"}
           \/ step'[r] = "failed"
    BY <1>1, <1>3 DEF ReadPrior, WriteTmp, CheckTmp, ReadDoomed, At, Goto, TypeOK, TxnTypeOK
  <2>2. said[r] = <<>>
    BY <1>1, <2>1 DEF Control, TypeOK, Places
  <2> QED BY <1>2, <2>1, <2>2 DEF Backups, Saved
<1>4. CASE RenameTmp(r)
  <2>1. step[r] = "rename" /\ step'[r] \in {"open", "abort"} /\ prior' = prior
    <3>1. step[r] = "rename" /\ prior' = prior
      BY <1>4 DEF RenameTmp, At
    <3>2. Len(todo[r]) = 1
      <4>1. todo[r] = <<Op(r)>>
        BY <3>1, OpTyped
      <4> QED BY <4>1
    <3> QED BY <1>1, <1>4, <3>1, <3>2 DEF RenameTmp, Goto, TypeOK, TxnTypeOK
  <2> QED BY <1>2, <2>1 DEF Backups, Saved, OwnBak
<1>5. CASE RevertEntry(r)
  <2>1. step' = step /\ prior' = prior
    BY <1>5 DEF RevertEntry
  <2> QED BY <1>2, <2>1 DEF Backups, Saved, OwnBak, TiedPrune
<1>6. CASE RevertEntryFails(r)
  <2>1. step[r] = "revert"
    BY <1>1, <1>6 DEF RevertEntryFails, Undoing, Control
  <2>2. step'[r] = "stuck" /\ prior' = prior
    BY <1>1, <1>6, <2>1 DEF RevertEntryFails, Goto, AfterError, TypeOK, TxnTypeOK
  <2> QED BY <1>2, <2>1, <2>2 DEF Backups, Saved, OwnBak
<1>7. CASE RevertDone(r)
  <2>1. step[r] \in {"abort", "revert", "drop"}
    BY <1>1, <1>7 DEF RevertDone, Undoing, Control, TypeOK, Places
  <2>2. step'[r] = AfterAll[step[r]] /\ prior' = prior
    BY <1>1, <1>7 DEF RevertDone, Goto, TypeOK, TxnTypeOK
  <2>3. \/ step[r] = "abort" /\ step'[r] = "failed"
        \/ step[r] = "revert" /\ step'[r] = "reverted"
        \/ step[r] = "drop" /\ step'[r] = "failed"
    BY <2>1, <2>2 DEF AfterAll
  <2>4. step[r] = "abort" => said[r] = <<>>
    BY <1>1 DEF Control, TypeOK, Places
  <2> QED BY <1>2, <2>2, <2>3, <2>4 DEF Backups, Saved, OwnBak
<1> QED BY <1>3, <1>4, <1>5, <1>6, <1>7

\* Those that write the backup, or take it back with a delete that failed.
LEMMA BackupsMade ==
  ASSUME ControlInv, NEW r \in Runs, Directory(r), Backups(r), Saved(r), UNCHANGED toolVars,
         WriteBackup(r) \/ BackupDoomed(r) \/ UnlinkDoomed(r)
  PROVE  Backups(r)' /\ Saved(r)'
<1>1. TypeOK /\ Control(r) /\ step[r] \in {"backup", "dbackup", "unlink"}
  BY DEF ControlInv, WriteBackup, BackupDoomed, UnlinkDoomed, At
<1>2. UNCHANGED <<req, said, stamp, base, prior>>
  BY DEF WriteBackup, BackupDoomed, UnlinkDoomed, toolVars, histVars
<1>3. said[r] = <<>>
  BY <1>1 DEF Control, TypeOK, Places
<1>4. prior[r] = base[req[r].name]
  BY <1>1 DEF Directory
<1>5. Bak(r, prior[r]) = OwnBak(r) /\ OwnBak(r).run = r
  BY <1>1, OpTyped DEF Bak, OwnBak
<1>6. OwnBak(r)' = OwnBak(r)
  BY <1>2 DEF OwnBak
<1>7. CASE step'[r] \in {"abort", "failed"}
  BY <1>2, <1>3, <1>7 DEF Backups, Saved
<1>8. CASE step'[r] \notin {"abort", "failed"}
  <2>1. \/ /\ step[r] = "backup" /\ step'[r] = "rename"
           /\ prior[r] = Absent /\ baks' = baks
        \/ /\ step[r] \in {"backup", "dbackup"} /\ step'[r] \in {"rename", "unlink"}
           /\ baks' = baks \union {Bak(r, prior[r])}
        \/ step[r] = "unlink" /\ step'[r] = "open" /\ baks' = baks
    BY <1>1, <1>8 DEF WriteBackup, BackupDoomed, UnlinkDoomed, At, Goto, TypeOK, TxnTypeOK
  <2> HIDE DEF OwnBak
  <2>2. \A b \in baks' : b.run = r => b = OwnBak(r)
    BY <1>5, <2>1 DEF Backups
  <2>3. prior[r] # Absent => OwnBak(r) \in baks'
    BY <1>5, <2>1 DEF Saved
  <2>4. step'[r] \in {"rename", "unlink", "open"}
    BY <2>1
  <2> QED BY <1>2, <1>4, <1>6, <2>2, <2>3, <2>4 DEF Backups, Saved
<1> QED BY <1>7, <1>8

\* prune_backups: the fresh backup goes only when another is as new.
LEMMA BackupsPrune ==
  ASSUME ControlInv, IsFiniteSet(baks), NEW r \in Runs, Backups(r), Saved(r), PruneKept(r)
  PROVE  /\ Backups(r)' /\ Saved(r)'
         /\ IsFiniteSet(baks') /\ baks' \subseteq baks
         /\ UNCHANGED <<stamp, base, latest>>
<1>1. TypeOK /\ step[r] = "kept" /\ step'[r] = "pruned"
  BY DEF ControlInv, PruneKept, Prune, At, Goto, TypeOK, TxnTypeOK
<1>2. UNCHANGED <<req, said, stamp, base, prior, latest>>
  BY DEF PruneKept, Prune, toolVars, histVars
<1> DEFINE n == req[r].name
<1>3. PICK doomed \in SUBSET baks :
        Surplus(n, doomed) /\ baks \ doomed \subseteq baks' /\ baks' \subseteq baks
  BY DEF PruneKept, Prune
<1>4. IsFiniteSet(baks')
  BY <1>3, FS_Subset
<1>5. prior[r] = base[n] /\ (prior[r] # Absent => OwnBak(r) \in baks)
  BY <1>1 DEF Saved
<1>6. OwnBak(r)' = OwnBak(r) /\ OwnBak(r).stamp = stamp[r]
  BY <1>2 DEF OwnBak
<1>7. ASSUME prior[r] # Absent, OwnBak(r) \notin baks'
      PROVE  TiedPrune(r)'
  <2>1. OwnBak(r) \in doomed
    BY <1>3, <1>5, <1>7
  <2>2. PICK c \in {b \in baks : b.name = n} \ doomed : OwnBak(r).stamp <= c.stamp
    BY <1>3, <2>1, SurplusLeaves
  <2>3. c \in baks' /\ c \in baks
    BY <1>3, <2>2
  <2>4. c.run # r
    BY <1>1, <2>1, <2>2, <2>3 DEF Backups
  <2>5. stamp[r] \in Nat /\ c.stamp \in Nat
    BY <1>1, <2>3, TxnAssumption DEF TypeOK, TxnTypeOK, Backup
  <2>6. c.stamp >= stamp'[r]
    BY <1>2, <1>6, <2>2, <2>5
  <2> QED BY <1>1, <2>3, <2>4, <2>6 DEF TiedPrune
<1> HIDE DEF n
<1>8. Backups(r)'
  BY <1>1 DEF Backups
<1>9. Saved(r)'
  BY <1>1, <1>2, <1>5, <1>6, <1>7 DEF Saved, n
<1> QED BY <1>2, <1>3, <1>4, <1>8, <1>9

LEMMA BackupsTool ==
  ASSUME ControlInv, NEW r \in Runs, Directory(r), Backups(r), Saved(r),
         \/ Refuse(r) \/ RefuseSensitive(r) \/ TxnFailed(r) \/ Reload(r)
         \/ ReloadFails(r) \/ WindowKeep(r) \/ WindowRevert(r)
         \/ SayKept(r) \/ SayReverted(r) \/ SayRevertFailed(r)
  PROVE  Backups(r)' /\ Saved(r)' /\ UNCHANGED <<baks, stamp, base, latest>>
<1>1. TypeOK /\ Control(r)
  BY DEF ControlInv
<1>2. UNCHANGED <<req, baks, stamp, base, prior, latest>>
  BY DEF Refuse, RefuseSensitive, TxnFailed, Reload, ReloadFails, Revert, WindowKeep, Keep,
         WindowRevert, SayKept, SayReverted, SayRevertFailed, DropRest, txnVars, dirVars,
         runVars, histVars, toolVars
<1>3. CASE Refuse(r) \/ RefuseSensitive(r) \/ Reload(r) \/ SayKept(r) \/ SayReverted(r)
  <2>1. step[r] \in {"idle", "open", "pruned", "reverted"} /\ step' = step
    BY <1>1, <1>3 DEF Refuse, RefuseSensitive, Reload, SayKept, SayReverted, txnVars, runVars,
                      In, Control
  <2> QED BY <1>2, <2>1 DEF Backups, Saved, OwnBak, TiedPrune
<1>4. CASE TxnFailed(r)
  <2>1. step[r] = "failed" /\ step' = step /\ said[r] = <<>>
    BY <1>1, <1>4 DEF TxnFailed, txnVars, runVars, In, Control
  <2>2. said'[r] = <<"error">>
    BY <1>1, <1>4, <2>1, SayFirst DEF TxnFailed, Lines
  <2> QED BY <1>2, <2>1, <2>2 DEF Backups, Saved
<1>5. CASE ReloadFails(r) \/ WindowRevert(r) \/ WindowKeep(r)
  <2>1. step[r] = "open" /\ step'[r] \in {"revert", "kept"}
    BY <1>1, <1>5 DEF ReloadFails, WindowRevert, Revert, WindowKeep, Keep, At, Goto, TypeOK,
                      TxnTypeOK
  <2> QED BY <1>2, <2>1 DEF Backups, Saved, OwnBak
<1>6. CASE SayRevertFailed(r)
  <2>1. step[r] = "stuck" /\ step'[r] = "drop"
    BY <1>1, <1>6 DEF SayRevertFailed, DropRest, At, Goto, TypeOK, TxnTypeOK
  <2> QED BY <1>2, <2>1 DEF Backups, Saved, OwnBak
<1> QED BY <1>2, <1>3, <1>4, <1>5, <1>6

LEMMA BackupFrame ==
  ASSUME BackupInv, NEW r \in Runs, Only(r), stamp' = stamp, IsFiniteSet(baks'),
         \A b \in baks' : b \in baks \/ b.run = r,
         r = latest, latest' = latest, Backups(r)', Saved(r)'
  PROVE  BackupInv'
BY BackupsOther DEF BackupInv

LEMMA BackupTransact ==
  ASSUME ControlInv, Solo, BackupInv, NEW r \in Runs, Transact(r) \/ UndoTxn(r) \/ DropTxn(r)
  PROVE  BackupInv'
<1>1. TypeOK /\ Control(r) /\ alive[r] /\ at[r] \in {"txn", "undo", "exit"}
      /\ TxnWork(r) /\ UNCHANGED toolVars
  BY DEF ControlInv, Transact, UndoTxn, DropTxn, In
<1>2. Only(r)
  BY <1>1, FrameWork
<1>3. /\ IsFiniteSet(baks')
      /\ \A b \in baks' : b \in baks \/ b.run = r
      /\ stamp' = stamp /\ base' = base /\ latest' = latest
  BY <1>1, WorkAdds DEF BackupInv
<1>4. CASE r = latest
  <2>1. Directory(r) /\ Backups(r) /\ Saved(r)
    BY <1>4, TxnAssumption DEF Solo, BackupInv
  <2>2. Backups(r)' /\ Saved(r)'
    BY <1>1, <2>1, BackupsQuiet, BackupsMade DEF TxnWork
  <2> QED BY <1>2, <1>3, <1>4, <2>2, BackupFrame
<1>5. CASE r # latest
  <2>1. at[r] = "exit" /\ step[r] = "drop"
    BY <1>1, <1>5 DEF Solo, Running, Transact, UndoTxn, DropTxn, In
  <2>2. applied[r] = <<>>
    BY <1>1, <2>1 DEF Control
  <2>3. RevertDone(r)
    BY <1>1, <2>1, <2>2 DEF TxnWork, ReadPrior, WriteTmp, CheckTmp, WriteBackup, RenameTmp,
                            ReadDoomed, BackupDoomed, UnlinkDoomed, RevertEntry,
                            RevertEntryFails, At
  <2>4. baks' = baks /\ step'[r] = "failed"
    BY <1>1, <2>1, <2>3 DEF RevertDone, dirVars, Goto, AfterAll, TypeOK, TxnTypeOK
  <2>5. Backups(r)'
    BY <2>4 DEF Backups
  <2>6. \A s \in Runs : Backups(s)'
    BY <1>2, <1>3, <2>5, BackupsOther DEF BackupInv
  <2>7. ASSUME latest # NoRun PROVE Saved(latest)'
    <3>1. latest \in Runs \ {r} /\ Saved(latest)
      BY <1>1, <1>5, <2>7 DEF BackupInv, TypeOK, TxnTypeOK
    <3>2. UNCHANGED <<req, said>>
      BY <1>1 DEF toolVars
    <3> QED BY <1>2, <1>3, <2>4, <3>1, <3>2 DEF Saved, OwnBak, TiedPrune, Only
  <2> QED BY <1>3, <2>6, <2>7 DEF BackupInv
<1> QED BY <1>4, <1>5

LEMMA BackupTool ==
  ASSUME ControlInv, Solo, BackupInv, NEW r \in Runs,
         \/ Refuse(r) \/ RefuseSensitive(r) \/ TxnFailed(r) \/ Reload(r)
         \/ ReloadFails(r) \/ WindowKeep(r) \/ WindowRevert(r) \/ PruneKept(r)
         \/ SayKept(r) \/ SayReverted(r) \/ SayRevertFailed(r)
  PROVE  BackupInv'
<1>1. TypeOK /\ r = latest /\ Directory(r) /\ Backups(r) /\ Saved(r) /\ IsFiniteSet(baks)
  <2>1. TypeOK /\ Running(r)
    BY DEF ControlInv, Running, In, Refuse, RefuseSensitive, TxnFailed, Reload, ReloadFails,
           WindowKeep, WindowRevert, PruneKept, SayKept, SayReverted, SayRevertFailed
  <2> QED BY <2>1, SoloRun, TxnAssumption DEF BackupInv
<1>2. Only(r)
  BY <1>1, OnlyTool
<1>3. /\ Backups(r)' /\ Saved(r)'
      /\ IsFiniteSet(baks') /\ baks' \subseteq baks
      /\ UNCHANGED <<stamp, latest>>
  BY <1>1, BackupsPrune, BackupsTool
<1> QED BY <1>1, <1>2, <1>3, BackupFrame

LEMMA BackupBegin ==
  ASSUME ControlInv, BackupInv, NEW r \in Runs,
         Accept(r) \/ \E q \in Requests : Start(r, q)
  PROVE  BackupInv'
<1>1. TypeOK /\ Control(r) /\ at[r] \in {"idle", "payload"} /\ step[r] = "idle"
  BY DEF ControlInv, Accept, Start, In, Control
<1>2. baks' = baks /\ latest' = r
  BY DEF Accept, BeginApply, BeginDelete, Start, dirVars
<1>3. step'[r] \in {"idle", "read", "dread"}
  BY <1>1 DEF Accept, BeginApply, BeginDelete, Start, runVars, Goto, TypeOK, TxnTypeOK
<1>4. \A s \in Runs \ {r} : /\ req'[s] = req[s] /\ stamp'[s] = stamp[s]
                            /\ step'[s] = step[s] /\ prior'[s] = prior[s]
  BY <1>1 DEF Accept, BeginApply, BeginDelete, Start, runVars, Goto, TypeOK, TxnTypeOK
<1>5. \A s \in Runs : Backups(s)'
  BY <1>1, <1>2, <1>3, <1>4 DEF BackupInv, Backups, OwnBak
<1>6. Saved(r)'
  BY <1>3 DEF Saved
<1> QED BY <1>2, <1>5, <1>6 DEF BackupInv

LEMMA BackupNext ==
  ASSUME SafetyInv, BackupInv, [Next]_vars
  PROVE  BackupInv'
<1>1. CASE \E r \in Runs : Step(r)
  BY <1>1, BackupTransact, BackupTool, BackupBegin DEF Step, SafetyInv
<1>2. CASE \E r \in Runs : \E q \in Requests : Start(r, q)
  BY <1>2, BackupBegin DEF SafetyInv
<1>3. CASE \/ \E r \in Runs :
                \/ Kill(r)
                \/ \E l \in {"keep", "other"} : SendLine(r, l)
                \/ HangUp(r)
                \/ Expire(r)
           \/ KeydRestart
           \/ Tick /\ UNCHANGED toolVars
           \/ UNCHANGED vars
  <2>1. UNCHANGED <<req, said, step, prior, stamp, baks, base, latest>>
    BY <1>3 DEF Kill, SendLine, HangUp, Expire, KeydRestart, Tick, vars, txnVars, dirVars,
                runVars, histVars, toolVars
  <2> QED BY <2>1 DEF BackupInv, Backups, Saved, OwnBak, TiedPrune
<1> QED BY <1>1, <1>2, <1>3 DEF Next

LEMMA BackupRecovers ==
  ASSUME ~UnsyncedIO, SafetyInv, BackupInv
  PROVE  Recoverable
<1> SUFFICES ASSUME latest # NoRun, NEW n \in Names, base[n] \notin {live[n], Absent}
             PROVE  \/ \E b \in baks : b.name = n /\ b.bytes = base[n]
                    \/ TiedPrune(latest)
  BY DEF Recoverable
<1>1. /\ latest \in Runs /\ TypeOK /\ Control(latest) /\ Directory(latest)
      /\ Saved(latest)
  BY DEF SafetyInv, ControlInv, Solo, BackupInv, TypeOK, TxnTypeOK
<1> DEFINE r == latest
<1>2. live # base
  OBVIOUS
<1>3. /\ live = Wanted(r)
      /\ \/ step[r] \in {"open", "revert", "stuck", "drop", "kept", "pruned"}
         \/ step[r] = "failed" /\ said[r] \notin {<<>>, <<"error">>}
  <2>1. step[r] \in {"idle", "read", "tmp", "check", "backup", "rename", "dread", "dbackup",
                     "unlink", "open", "abort", "failed", "revert", "reverted", "stuck",
                     "kept", "pruned", "drop"}
    BY <1>1 DEF Control, TypeOK, Places
  <2> HIDE DEF Wanted
  <2> QED BY <1>1, <1>2, <2>1 DEF Directory, Unsure
<1>4. n = req[r].name
  BY <1>1, <1>3 DEF Wanted, TypeOK, TxnTypeOK
<1>5. prior[r] = base[n] /\ (OwnBak(r) \in baks \/ TiedPrune(r))
  BY <1>1, <1>3, <1>4 DEF Saved
<1>6. OwnBak(r).name = n /\ OwnBak(r).bytes = prior[r]
  BY <1>4 DEF OwnBak
<1> QED BY <1>5, <1>6

\* One run at a time, on a disk that syncs what it renamed: whatever fails and
\* whenever the tool is killed, a config that is not what the run found has its
\* old bytes in a backup, save for a prune between equal stamps.
THEOREM RecoverableHolds ==
  ASSUME ~Concurrent, ~UnsyncedIO
  PROVE  Spec => []Recoverable
<1>1. Init => BackupInv
  BY FS_EmptySet DEF Init, TxnInit, BackupInv, Backups
<1>2. SafetyInv /\ BackupInv /\ [Next]_vars => BackupInv'
  BY BackupNext
<1>3. SafetyInv /\ BackupInv => Recoverable
  BY BackupRecovers
<1> QED BY <1>1, <1>2, <1>3, SafetyHolds, PTL DEF Spec

-----------------------------------------------------------------------------
(* The GUI's view of a run: the tool implements RunProtocol, whose steps   *)
(* ApplyUi is built on.                                                    *)

LEMMA SeenInit == Init => Seen!Init
BY DEF Init, TxnInit, Seen!Init, SeenPhase, LastLine

LEMMA SeenSame ==
  ASSUME UNCHANGED <<at, alive, said, inbox>>
  PROVE  UNCHANGED Seen!protocolVars
BY DEF Seen!protocolVars, SeenPhase, LastLine

\* A step of run r is seen as a step of run r: to where it is then, with the
\* line it has said then.
LEMMA SeenGo ==
  ASSUME NEW r \in Runs, NEW p,
         \A s \in Runs \ {r} : at'[s] = at[s] /\ said'[s] = said[s] /\ alive'[s] = alive[s],
         SeenPhase(r)' = p
  PROVE  Seen!Enter(r, p)
<1>1. \A s \in Runs \ {r} : SeenPhase(s)' = SeenPhase(s)
  BY DEF SeenPhase
<1> QED BY <1>1 DEF Seen!Enter

LEMMA SeenSay ==
  ASSUME NEW r \in Runs, NEW l,
         \A s \in Runs \ {r} : said'[s] = said[s],
         LastLine(r)' = l
  PROVE  Seen!Says(r, l)
BY DEF Seen!Says, LastLine

\* A run that goes from one place to another and writes nothing.
LEMMA SeenQuiet ==
  ASSUME TypeOK, NEW r \in Runs, alive[r],
         NEW p \in {"payload", "txn", "window", "undo", "kept"},
         NEW q \in {"txn", "undo", "kept"},
         at[r] = p, Move(r, q), UNCHANGED <<alive, said, inbox>>
  PROVE  UNCHANGED Seen!protocolVars
<1>1. at'[r] = q /\ \A s \in Runs \ {r} : at'[s] = at[s]
  BY DEF TypeOK, Move
<1>2. \A s \in Runs : SeenPhase(s)' = SeenPhase(s)
  BY <1>1 DEF SeenPhase
<1> QED BY <1>2 DEF Seen!protocolVars, LastLine

\* A run that ends with line l.
LEMMA SeenEnd ==
  ASSUME TypeOK, NEW r \in Runs, NEW l \in Lines, Move(r, "exit"), Say(r, l),
         said[r] = <<>> \/ said[r] = <<"applied">>, UNCHANGED <<alive, inbox>>
  PROVE  /\ Seen!Enter(r, "ended")
         /\ Seen!Says(r, l)
         /\ [s \in Runs |-> inbox[s] = "keep"]' = [s \in Runs |-> inbox[s] = "keep"]
<1>1. at'[r] = "exit" /\ \A s \in Runs \ {r} : at'[s] = at[s] /\ said'[s] = said[s]
  BY DEF TypeOK, Move, Say
<1>2. SeenPhase(r)' = "ended"
  BY <1>1 DEF SeenPhase
<1>3. LastLine(r)' = l
  <2>1. CASE said[r] = <<>>
    <3>1. said'[r] = <<l>>
      BY <2>1, SayFirst
    <3> QED BY <3>1 DEF LastLine
  <2>2. CASE said[r] = <<"applied">>
    <3>1. said'[r] = <<"applied", l>>
      BY <2>2, SaySecond DEF Lines
    <3> QED BY <3>1 DEF LastLine
  <2> QED BY <2>1, <2>2
<1> QED BY <1>1, <1>2, <1>3, SeenGo, SeenSay

\* Where a run in a given place is seen.
LEMMA SeenAt ==
  ASSUME ControlInv, NEW r \in Runs, alive[r]
  PROVE  /\ at[r] = "idle" => SeenPhase(r) = "none"
         /\ at[r] \in {"payload", "txn"} => SeenPhase(r) = "begun"
         /\ at[r] = "undo" => SeenPhase(r) \in {"begun", "window"}
         /\ at[r] \in {"window", "kept"} => SeenPhase(r) = "window"
<1>1. Control(r)
  BY DEF ControlInv
<1>2. <<"applied">> # <<>>
  OBVIOUS
<1> QED BY <1>1, <1>2 DEF Control, SeenPhase

LEMMA SeenStart ==
  ASSUME ControlInv, NEW r \in Runs, NEW q \in Requests, Start(r, q)
  PROVE  Seen!Begin(r)
<1>1. TypeOK /\ Control(r) /\ alive[r] /\ at[r] = "idle" /\ said[r] = <<>>
  BY DEF ControlInv, Control, Start, In
<1>2. UNCHANGED <<alive, said, inbox>> /\ at'[r] = "payload"
      /\ \A s \in Runs \ {r} : at'[s] = at[s]
  BY <1>1 DEF Start, Move, TypeOK, pipeVars
<1>3. SeenPhase(r) = "none" /\ SeenPhase(r)' = "begun"
  BY <1>1, <1>2 DEF SeenPhase
<1> QED BY <1>2, <1>3, SeenGo DEF Seen!Begin, LastLine

\* A line that ends the run: which ends are seen as which.
LEMMA SeenRefused ==
  ASSUME ControlInv, NEW r \in Runs, Refuse(r) \/ RefuseSensitive(r) \/ TxnFailed(r)
  PROVE  Seen!Refused(r)
<1>1. /\ TypeOK /\ alive[r] /\ at[r] \in {"payload", "txn"} /\ said[r] = <<>>
      /\ Move(r, "exit") /\ Say(r, "error")
  BY DEF ControlInv, Control, Refuse, RefuseSensitive, TxnFailed, In
<1>2. UNCHANGED <<alive, inbox>>
  BY DEF Refuse, RefuseSensitive, TxnFailed, txnVars, pipeVars
<1>3. SeenPhase(r) = "begun"
  BY <1>1, SeenAt
<1> QED BY <1>1, <1>2, <1>3, SeenEnd DEF Seen!Refused, Lines

LEMMA SeenReload ==
  ASSUME ControlInv, NEW r \in Runs, Reload(r)
  PROVE  Seen!Applied(r)
<1>1. /\ TypeOK /\ alive[r] /\ at[r] = "txn" /\ said[r] = <<>>
      /\ Move(r, "window") /\ Say(r, "applied")
  BY DEF ControlInv, Control, Reload, In
<1>2. UNCHANGED <<alive, inbox>>
  BY DEF Reload, txnVars, pipeVars
<1>3. at'[r] = "window" /\ \A s \in Runs \ {r} : at'[s] = at[s] /\ said'[s] = said[s]
  BY <1>1 DEF TypeOK, Move, Say
<1>4. said'[r] = <<"applied">>
  BY <1>1, SayFirst DEF Lines
<1>5. SeenPhase(r)' = "window" /\ LastLine(r)' = "applied"
  BY <1>1, <1>2, <1>3, <1>4 DEF SeenPhase, LastLine
<1>6. SeenPhase(r) = "begun"
  BY <1>1, SeenAt
<1> QED BY <1>2, <1>3, <1>5, <1>6, SeenGo, SeenSay DEF Seen!Applied

LEMMA SeenSayKept ==
  ASSUME ControlInv, NEW r \in Runs, SayKept(r)
  PROVE  Seen!Kept(r)
<1>1. /\ TypeOK /\ alive[r] /\ at[r] = "kept" /\ said[r] = <<"applied">>
      /\ Move(r, "exit") /\ Say(r, "kept") /\ inbox[r] = "keep"
  BY DEF ControlInv, Control, SayKept, In
<1>2. UNCHANGED <<alive, inbox>>
  BY DEF SayKept, txnVars, pipeVars
<1>3. SeenPhase(r) = "window"
  BY <1>1, SeenAt
<1> QED BY <1>1, <1>2, <1>3, SeenEnd DEF Seen!Kept, Lines

LEMMA SeenUndone ==
  ASSUME ControlInv, NEW r \in Runs, SayReverted(r) \/ SayRevertFailed(r)
  PROVE  \E l \in {"reverted", "revert-failed"} : Seen!Undone(r, l)
<1>1. /\ TypeOK /\ alive[r] /\ at[r] = "undo" /\ said[r] \in {<<>>, <<"applied">>}
      /\ Move(r, "exit")
  BY DEF ControlInv, Control, SayReverted, SayRevertFailed, In
<1>2. UNCHANGED <<alive, inbox>>
  BY DEF SayReverted, SayRevertFailed, DropRest, txnVars, pipeVars
<1>3. PICK l \in {"reverted", "revert-failed"} : Say(r, l)
  BY DEF SayReverted, SayRevertFailed
<1>4. SeenPhase(r) \in {"begun", "window"}
  BY <1>1, SeenAt
<1> QED BY <1>1, <1>2, <1>3, <1>4, SeenEnd DEF Seen!Undone, Lines

LEMMA SeenKill ==
  ASSUME ControlInv, NEW r \in Runs, Kill(r)
  PROVE  Seen!Dies(r)
<1>1. TypeOK /\ Control(r) /\ alive[r] /\ at[r] \notin {"idle", "exit"}
  BY DEF ControlInv, Kill, Running
<1>2. UNCHANGED <<at, said, inbox>> /\ ~alive'[r]
      /\ \A s \in Runs \ {r} : alive'[s] = alive[s]
  BY <1>1 DEF Kill, toolVars, pipeVars, TypeOK, TxnTypeOK
<1>3. SeenPhase(r) \in {"begun", "window"}
  BY <1>1 DEF SeenPhase
<1>4. SeenPhase(r)' = "ended"
  BY <1>1, <1>2 DEF SeenPhase
<1> QED BY <1>2, <1>3, <1>4, SeenGo DEF Seen!Dies, LastLine

LEMMA SeenSendLine ==
  ASSUME ControlInv, NEW r \in Runs, NEW l \in {"keep", "other"}, SendLine(r, l)
  PROVE  Seen!SendKeep(r) \/ UNCHANGED Seen!protocolVars
<1>1. TypeOK /\ Control(r) /\ alive[r] /\ at[r] \notin {"idle", "exit"}
      /\ inbox[r] = "none" /\ inbox' = [inbox EXCEPT ![r] = l]
  BY DEF ControlInv, SendLine, Running
<1>2. UNCHANGED <<at, alive, said>>
  BY DEF SendLine, txnVars
<1>3. \A s \in Runs : SeenPhase(s)' = SeenPhase(s)
  BY <1>2 DEF SeenPhase
<1>4. SeenPhase(r) # "ended"
  BY <1>1 DEF SeenPhase
<1>5. \A s \in Runs : LastLine(s)' = LastLine(s)
  BY <1>2 DEF LastLine
<1>6. CASE l = "keep"
  <2>1. [s \in Runs |-> inbox[s] = "keep"]'
          = [[s \in Runs |-> inbox[s] = "keep"] EXCEPT ![r] = TRUE]
    BY <1>1, <1>6 DEF TypeOK
  <2> QED BY <1>3, <1>4, <1>5, <2>1 DEF Seen!SendKeep
<1>7. CASE l = "other"
  <2>1. \A s \in Runs : (inbox'[s] = "keep") = (inbox[s] = "keep")
    BY <1>1, <1>7 DEF TypeOK
  <2> QED BY <1>3, <1>5, <2>1 DEF Seen!protocolVars
<1> QED BY <1>6, <1>7

\* The steps nobody outside sees: work on the files, a decision of the window,
\* the end of the pipe, time and keyd.
LEMMA SeenInside ==
  ASSUME ControlInv, NEW r \in Runs,
         Accept(r) \/ ReloadFails(r) \/ WindowKeep(r) \/ WindowRevert(r)
  PROVE  UNCHANGED Seen!protocolVars
<1>1. TypeOK /\ alive[r] /\ UNCHANGED <<alive, said, inbox>>
  BY DEF ControlInv, Accept, BeginApply, BeginDelete, ReloadFails, WindowKeep, Keep,
         WindowRevert, Revert, In, pipeVars
<1>2. \E p \in {"payload", "txn", "window"}, q \in {"txn", "undo", "kept"} :
        at[r] = p /\ Move(r, q)
  BY DEF Accept, ReloadFails, WindowKeep, WindowRevert, In
<1> QED BY <1>1, <1>2, SeenQuiet

LEMMA SeenWork ==
  ASSUME NEW r \in Runs,
         Transact(r) \/ UndoTxn(r) \/ DropTxn(r) \/ PruneKept(r)
  PROVE  UNCHANGED Seen!protocolVars
<1>1. UNCHANGED <<at, said, inbox>>
  BY DEF Transact, UndoTxn, DropTxn, PruneKept, toolVars, pipeVars
<1>2. UNCHANGED alive
  BY DEF Transact, UndoTxn, DropTxn, PruneKept, Prune, TxnWork, ReadPrior, WriteTmp,
         CheckTmp, WriteBackup, RenameTmp, ReadDoomed, BackupDoomed, UnlinkDoomed,
         RevertEntry, RevertEntryFails, RevertDone
<1> QED BY <1>1, <1>2, SeenSame

LEMMA SeenOutside ==
  ASSUME \/ \E r \in Runs : HangUp(r) \/ Expire(r)
         \/ KeydRestart
         \/ Tick /\ UNCHANGED toolVars
         \/ UNCHANGED vars
  PROVE  UNCHANGED Seen!protocolVars
<1>1. UNCHANGED <<at, alive, said, inbox>>
  BY DEF HangUp, Expire, KeydRestart, Tick, vars, toolVars, pipeVars, txnVars
<1> QED BY <1>1, SeenSame

LEMMA SeenStep ==
  ASSUME ControlInv, NEW r \in Runs, Step(r)
  PROVE  [Seen!Next]_(Seen!protocolVars)
BY SeenRefused, SeenReload, SeenSayKept, SeenUndone, SeenInside, SeenWork
DEF Step, Seen!Next

LEMMA SeenNext ==
  ASSUME ControlInv, [Next]_vars
  PROVE  [Seen!Next]_(Seen!protocolVars)
<1>1. ASSUME NEW r \in Runs, Step(r)
      PROVE  [Seen!Next]_(Seen!protocolVars)
  BY <1>1, SeenStep
<1>2. ASSUME NEW r \in Runs, NEW q \in Requests, Start(r, q)
      PROVE  [Seen!Next]_(Seen!protocolVars)
  BY <1>2, SeenStart DEF Seen!Next
<1>3. ASSUME NEW r \in Runs, Kill(r)
      PROVE  [Seen!Next]_(Seen!protocolVars)
  BY <1>3, SeenKill DEF Seen!Next
<1>4. ASSUME NEW r \in Runs, NEW l \in {"keep", "other"}, SendLine(r, l)
      PROVE  [Seen!Next]_(Seen!protocolVars)
  BY <1>4, SeenSendLine DEF Seen!Next
<1> QED BY <1>1, <1>2, <1>3, <1>4, SeenOutside DEF Next

\* The GUI may rely on RunProtocol: with any number of runs at once, any I/O
\* failure and a kill at any moment, a run says `applied' at most once and
\* before its verdict, `error' only when it has not, and `kept' only when its
\* pipe holds a keep.
THEOREM ProtocolHolds == Spec => KeepsProtocol
<1>1. Init => Seen!Init
  BY SeenInit
<1>2. ControlInv /\ [Next]_vars => [Seen!Next]_(Seen!protocolVars)
  BY SeenNext
<1> QED BY <1>1, <1>2, ControlHolds, PTL DEF Spec, KeepsProtocol, Seen!Spec

-----------------------------------------------------------------------------
(* The promise to the user: the tool implements DeadMan, one run at a time *)
(* and on a disk that syncs what it renamed.                               *)

\* What DeadMan sees of the latest run, by where its transaction is.
Reading ==
  latest # NoRun =>
    /\ step[latest] \in {"idle", "read", "tmp", "check", "backup", "rename", "dread",
                         "dbackup", "unlink", "abort"} => Outcome = "quiet"
    /\ step[latest] = "failed" /\ said[latest] \in {<<>>, <<"error">>}
         => Outcome = "quiet"
    /\ step[latest] = "failed" /\ said[latest] \notin {<<>>, <<"error">>}
         => Outcome = "alarm"
    /\ step[latest] = "open" => Outcome = (IF alive[latest] THEN "open" ELSE "alarm")
    /\ step[latest] = "revert" /\ applied[latest] = <<>> => Outcome = "restored"
    /\ step[latest] = "revert" /\ applied[latest] # <<>>
         => Outcome = (IF alive[latest] THEN "open" ELSE "alarm")
    /\ step[latest] \in {"stuck", "drop"} => Outcome = "alarm"
    /\ step[latest] = "reverted" => Outcome = "restored"
    /\ step[latest] \in {"kept", "pruned"} => Outcome = "kept"

LEMMA ReadingHolds == ControlInv => Reading
<1> SUFFICES ASSUME ControlInv, latest # NoRun PROVE Reading
  BY DEF Reading
<1>1. Control(latest)
  BY DEF ControlInv, TypeOK, TxnTypeOK
<1>2. step[latest] = "open" => applied[latest] # <<>>
  BY <1>1 DEF Control
<1> QED BY <1>2 DEF Reading, Outcome, Phase

LEMMA ReadingNext == ControlInv' => Reading'
BY ReadingHolds, PTL

LEMMA PromiseInit == Init => Promise!Init
BY DEF Init, TxnInit, Promise!Init, Outcome, Announced

\* A step that leaves alone what DeadMan sees.
LEMMA PromiseSame ==
  ASSUME UNCHANGED <<live, base, latest, step, said, applied, alive>>
  PROVE  UNCHANGED Promise!vars
BY DEF Promise!vars, Outcome, Announced, Phase, LastLine

LEMMA PromiseStart ==
  ASSUME ControlInv, ~Concurrent, Solo, NEW r \in Runs, NEW q \in Requests, Start(r, q)
  PROVE  Promise!Begin
<1>1. TypeOK /\ Control(r) /\ step[r] = "idle" /\ said[r] = <<>>
  BY DEF ControlInv, Control, Start, In
<1>2. /\ UNCHANGED <<live, step, said, applied, alive>>
      /\ latest' = r
      /\ base' = live
  BY DEF Start, dirVars, runVars
<1>3. Outcome' = "quiet" /\ Announced' = "nothing"
  BY <1>1, <1>2, TxnAssumption DEF Outcome, Announced, Phase, LastLine
<1>4. Outcome # "open"
  <2>1. CASE latest = NoRun
    BY <2>1 DEF Outcome
  <2>2. CASE latest # NoRun /\ ~alive[latest]
    <3>1. Phase(latest) # "open"
      BY <2>2 DEF Phase
    <3> QED BY <2>2, <3>1 DEF Outcome
  <2>3. CASE latest # NoRun /\ alive[latest]
    <3>1. latest \in Runs /\ Control(latest) /\ at[latest] = "exit"
      BY <1>1, <2>3 DEF ControlInv, Solo, Start, Running, TypeOK, TxnTypeOK
    <3>2. step[latest] \in {"idle", "failed", "pruned", "reverted", "drop"}
      BY <3>1 DEF Control
    <3>3. Phase(latest) # "open"
      BY <3>2 DEF Phase
    <3> QED BY <2>3, <3>3 DEF Outcome
  <2> QED BY <2>1, <2>2, <2>3
<1> QED BY <1>2, <1>3, <1>4 DEF Promise!Begin

LEMMA PromiseAccept ==
  ASSUME ControlInv, ControlInv', Solo, NEW r \in Runs, Accept(r)
  PROVE  UNCHANGED Promise!vars
<1>1. TypeOK /\ Control(r) /\ Running(r) /\ step[r] = "idle"
  BY DEF ControlInv, Control, Accept, In, Running
<1>2. r = latest /\ live = base
  BY <1>1, SoloRun DEF Directory
<1>3. UNCHANGED <<live, said>> /\ latest' = r /\ base' = live
  BY DEF Accept, BeginApply, BeginDelete, dirVars
<1>4. step'[r] \in {"read", "dread"}
  BY <1>1 DEF Accept, BeginApply, BeginDelete, Goto, TypeOK, TxnTypeOK
<1>5. Outcome = "quiet" /\ Outcome' = "quiet"
  BY <1>1, <1>2, <1>3, <1>4, ReadingHolds, ReadingNext, TxnAssumption DEF Reading
<1>6. Announced' = Announced
  BY <1>2, <1>3 DEF Announced, LastLine
<1> QED BY <1>2, <1>3, <1>5, <1>6 DEF Promise!vars

LEMMA PromiseKill ==
  ASSUME ControlInv, ControlInv', Solo, NEW r \in Runs, Kill(r)
  PROVE  [Promise!Next]_(Promise!vars)
<1>1. TypeOK /\ Running(r) /\ r = latest /\ r # NoRun
  BY SoloRun, TxnAssumption DEF ControlInv, Kill
<1>2. UNCHANGED <<live, base, latest, step, said, applied>> /\ alive[r] /\ ~alive'[r]
  BY <1>1 DEF Kill, Running, dirVars, runVars, histVars, toolVars, TypeOK, TxnTypeOK
<1>3. Announced' = Announced
  BY <1>2 DEF Announced, LastLine
<1>4. \/ Outcome' = Outcome
      \/ Outcome = "open" /\ Outcome' = "alarm"
  <2>1. Phase(r)' = Phase(r) \/ (Phase(r) = "open" /\ Phase(r)' = "alarm")
    BY <1>2 DEF Phase
  <2> QED BY <1>1, <1>2, <2>1 DEF Outcome, Phase
<1> QED BY <1>2, <1>3, <1>4 DEF Promise!Next, Promise!Alarm, Promise!vars

\* A transaction that is not the latest run's: only a Drop with nothing left.
LEMMA PromiseOther ==
  ASSUME TypeOK, NEW r \in Runs, r # latest, Only(r), UNCHANGED <<live, base, latest, alive>>
  PROVE  UNCHANGED Promise!vars
<1>1. latest # NoRun =>
        /\ latest \in Runs \ {r}
        /\ step'[latest] = step[latest]
        /\ said'[latest] = said[latest]
        /\ applied'[latest] = applied[latest]
  BY DEF Only, TypeOK, TxnTypeOK
<1>2. Outcome' = Outcome
  <2>1. latest # NoRun => Phase(latest)' = Phase(latest)
    BY <1>1 DEF Phase
  <2> QED BY <2>1 DEF Outcome, Phase
<1>3. Announced' = Announced
  BY <1>1 DEF Announced, LastLine
<1> QED BY <1>2, <1>3 DEF Promise!vars

\* Work on the files that ends before the one change.
LEMMA PromiseQuiet ==
  ASSUME ControlInv, ControlInv', NEW r \in Runs, r = latest, UNCHANGED toolVars,
         ReadPrior(r) \/ WriteTmp(r) \/ CheckTmp(r) \/ WriteBackup(r)
         \/ ReadDoomed(r) \/ BackupDoomed(r)
  PROVE  Outcome = "quiet" /\ Outcome' = "quiet" /\ live' = live
<1>1. TypeOK /\ Control(r) /\ r # NoRun
  BY TxnAssumption DEF ControlInv
<1>2. step[r] \in {"read", "tmp", "check", "backup", "dread", "dbackup"}
  BY DEF ReadPrior, WriteTmp, CheckTmp, WriteBackup, ReadDoomed, BackupDoomed, At
<1>3. said[r] = <<>> /\ said' = said
  BY <1>1, <1>2 DEF Control, TypeOK, Places, toolVars
<1>4. UNCHANGED <<live, latest>>
  BY DEF ReadPrior, WriteTmp, CheckTmp, WriteBackup, ReadDoomed, BackupDoomed, dirVars,
         histVars
<1>5. step'[r] \in {"tmp", "check", "backup", "rename", "abort", "dbackup", "unlink",
                    "failed"}
  BY <1>1 DEF ReadPrior, WriteTmp, CheckTmp, WriteBackup, ReadDoomed, BackupDoomed, Goto,
              TypeOK, TxnTypeOK
<1>6. Outcome = "quiet"
  BY <1>1, <1>2, ReadingHolds DEF Reading
<1>7. Outcome' = "quiet"
  BY <1>1, <1>3, <1>4, <1>5, ReadingNext DEF Reading
<1> QED BY <1>4, <1>6, <1>7

\* The rename or the unlink.
LEMMA PromiseInstall ==
  ASSUME ControlInv, ControlInv', ~UnsyncedIO, NEW r \in Runs, r = latest,
         UNCHANGED toolVars, RenameTmp(r) \/ UnlinkDoomed(r)
  PROVE  /\ Outcome = "quiet" /\ said[r] = <<>>
         /\ \/ Outcome' = "quiet" /\ live' = live
            \/ /\ Outcome' = "open"
               /\ \E n \in Names, v \in Values : live' = [live EXCEPT ![n] = v]
<1>1. TypeOK /\ Control(r) /\ r # NoRun /\ alive[r]
  BY TxnAssumption DEF ControlInv, RenameTmp, UnlinkDoomed, At
<1>2. step[r] \in {"rename", "unlink"}
  BY DEF RenameTmp, UnlinkDoomed, At
<1>3. said[r] = <<>> /\ said' = said
  BY <1>1, <1>2 DEF Control, TypeOK, Places, toolVars
<1>4. UNCHANGED <<latest, alive>>
  BY DEF RenameTmp, UnlinkDoomed, histVars
<1>5. /\ File(r) \in Names /\ Head(todo[r]).content \in Values
      /\ Len(todo[r]) = 1 /\ Absent \in Values
  <2>1. todo[r] = <<Op(r)>> /\ File(r) \in Names /\ Head(todo[r]).content \in Values
    BY <1>2, OpTyped
  <2>2. Len(todo[r]) = 1
    BY <2>1
  <2> QED BY <2>1, <2>2 DEF Values
<1>6. \/ step'[r] \in {"abort", "failed"} /\ live' = live
      \/ /\ step'[r] = "open"
         /\ \E n \in Names, v \in Values : live' = [live EXCEPT ![n] = v]
  BY <1>1, <1>5 DEF RenameTmp, UnlinkDoomed, Unsync, Goto, TypeOK, TxnTypeOK
<1>7. Outcome = "quiet"
  BY <1>1, <1>2, ReadingHolds DEF Reading
<1>8. /\ step'[r] \in {"abort", "failed"} => Outcome' = "quiet"
      /\ step'[r] = "open" => Outcome' = "open"
  BY <1>1, <1>3, <1>4, ReadingNext DEF Reading
<1> QED BY <1>3, <1>6, <1>7, <1>8

\* The undo.
LEMMA PromiseUndo ==
  ASSUME ControlInv, ControlInv', ~UnsyncedIO, NEW r \in Runs, r = latest,
         Directory(r), UNCHANGED toolVars,
         RevertEntry(r) \/ RevertEntryFails(r) \/ RevertDone(r)
  PROVE  \/ Outcome' = Outcome /\ live' = live
         \/ Outcome = "open" /\ Outcome' = "restored" /\ live' = base
         \/ Outcome = "open" /\ Outcome' = "alarm" /\ live' = live
<1>1. TypeOK /\ Control(r) /\ r # NoRun /\ alive[r] /\ UNCHANGED <<latest, alive, base, said>>
  BY TxnAssumption DEF ControlInv, RevertEntry, RevertEntryFails, RevertDone, Undoing,
                       histVars, toolVars
<1>2. CASE RevertEntry(r)
  <2>1. step[r] = "revert" /\ applied[r] = <<Own(r)>> /\ applied[r] # <<>>
    BY <1>1, <1>2 DEF RevertEntry, Undoing, Control
  <2>2. step'[r] = "revert" /\ applied'[r] = <<>>
    BY <1>1, <1>2, <2>1 DEF RevertEntry, TypeOK, TxnTypeOK
  <2>3. live' = base
    BY <1>1, <1>2, <2>2, SoloRevertEntry DEF Directory
  <2>4. Outcome = "open" /\ Outcome' = "restored"
    BY <1>1, <2>1, <2>2, ReadingHolds, ReadingNext DEF Reading
  <2> QED BY <2>3, <2>4
<1>3. CASE RevertEntryFails(r)
  <2>1. step[r] = "revert" /\ applied[r] # <<>> /\ live' = live
    BY <1>1, <1>3 DEF RevertEntryFails, Undoing, Control, Unsync
  <2>2. step'[r] = "stuck"
    BY <1>1, <1>3, <2>1 DEF RevertEntryFails, Goto, AfterError, TypeOK, TxnTypeOK
  <2>3. Outcome = "open" /\ Outcome' = "alarm"
    BY <1>1, <2>1, <2>2, ReadingHolds, ReadingNext DEF Reading
  <2> QED BY <2>1, <2>3
<1>4. CASE RevertDone(r)
  <2>1. /\ live' = live /\ applied' = applied /\ applied[r] = <<>>
        /\ step[r] \in {"abort", "revert", "drop"}
    BY <1>1, <1>4 DEF RevertDone, Undoing, Control, TypeOK, Places, dirVars
  <2>2. step'[r] = IF step[r] = "revert" THEN "reverted" ELSE "failed"
    BY <1>1, <1>4, <2>1 DEF RevertDone, Goto, AfterAll, TypeOK, TxnTypeOK
  <2>3. /\ step[r] = "abort" => said[r] = <<>>
        /\ step[r] = "drop" => said[r] \notin {<<>>, <<"error">>}
    <3>1. step[r] = "abort" => said[r] = <<>>
      BY <1>1 DEF Control, TypeOK, Places
    <3>2. step[r] = "drop"
            => said[r] \in {<<"revert-failed">>, <<"applied", "revert-failed">>}
      BY <1>1 DEF Control, TypeOK, Places
    <3> QED BY <3>1, <3>2
  <2>4. Outcome' = Outcome
    BY <1>1, <2>1, <2>2, <2>3, ReadingHolds, ReadingNext DEF Reading
  <2> QED BY <2>1, <2>4
<1> QED BY <1>2, <1>3, <1>4

LEMMA PromiseWork ==
  ASSUME ControlInv, ControlInv', ~UnsyncedIO, Solo, NEW r \in Runs,
         Transact(r) \/ UndoTxn(r) \/ DropTxn(r)
  PROVE  [Promise!Next]_(Promise!vars)
<1>1. TypeOK /\ Control(r) /\ alive[r] /\ TxnWork(r) /\ UNCHANGED toolVars
  BY DEF ControlInv, Transact, UndoTxn, DropTxn, In
<1>2. UNCHANGED <<alive, latest, base>>
  BY <1>1 DEF TxnWork, ReadPrior, WriteTmp, CheckTmp, WriteBackup, RenameTmp, ReadDoomed,
              BackupDoomed, UnlinkDoomed, RevertEntry, RevertEntryFails, RevertDone, histVars
<1>3. Announced' = Announced
  BY <1>1, <1>2 DEF Announced, LastLine, toolVars
<1>4. CASE r = latest
  <2>1. Directory(r) /\ r # NoRun
    BY <1>4, TxnAssumption DEF Solo
  <2>2. CASE RevertEntry(r) \/ RevertEntryFails(r) \/ RevertDone(r)
    <3>1. \/ Outcome' = Outcome /\ live' = live
          \/ Outcome = "open" /\ Outcome' = "restored" /\ live' = base
          \/ Outcome = "open" /\ Outcome' = "alarm" /\ live' = live
      BY <1>1, <1>4, <2>1, <2>2, PromiseUndo
    <3> QED BY <1>2, <1>3, <3>1
            DEF Promise!Next, Promise!Restore, Promise!Alarm, Promise!vars
  <2>3. CASE RenameTmp(r) \/ UnlinkDoomed(r)
    <3>1. /\ Outcome = "quiet" /\ said[r] = <<>>
          /\ \/ Outcome' = "quiet" /\ live' = live
             \/ /\ Outcome' = "open"
                /\ \E n \in Names, v \in Values : live' = [live EXCEPT ![n] = v]
      BY <1>1, <1>4, <2>3, PromiseInstall
    <3>2. Announced = "nothing"
      BY <1>4, <2>1, <3>1 DEF Announced, LastLine
    <3> QED BY <1>2, <1>3, <3>1, <3>2 DEF Promise!Next, Promise!Install, Promise!vars
  <2>4. CASE ReadPrior(r) \/ WriteTmp(r) \/ CheckTmp(r) \/ WriteBackup(r)
             \/ ReadDoomed(r) \/ BackupDoomed(r)
    BY <1>1, <1>2, <1>3, <1>4, <2>4, PromiseQuiet DEF Promise!vars
  <2> QED BY <1>1, <2>2, <2>3, <2>4 DEF TxnWork
<1>5. CASE r # latest
  <2>1. step[r] = "drop" /\ applied[r] = <<>>
    BY <1>1, <1>5 DEF Solo, Running, Transact, UndoTxn, DropTxn, In, Control
  <2>2. RevertDone(r)
    BY <1>1, <2>1 DEF TxnWork, ReadPrior, WriteTmp, CheckTmp, WriteBackup, RenameTmp,
                      ReadDoomed, BackupDoomed, UnlinkDoomed, RevertEntry,
                      RevertEntryFails, At
  <2>3. live' = live
    BY <2>2 DEF RevertDone, dirVars
  <2>4. Only(r)
    BY <1>1, FrameWork
  <2> QED BY <1>1, <1>2, <1>5, <2>3, <2>4, PromiseOther
<1> QED BY <1>4, <1>5

\* The steps of main.rs: a decision, or the line that says what became of it.
LEMMA PromiseTool ==
  ASSUME ControlInv, ControlInv', Solo, NEW r \in Runs,
         \/ Refuse(r) \/ RefuseSensitive(r) \/ TxnFailed(r) \/ Reload(r)
         \/ ReloadFails(r) \/ WindowKeep(r) \/ WindowRevert(r) \/ PruneKept(r)
         \/ SayKept(r) \/ SayReverted(r) \/ SayRevertFailed(r)
  PROVE  [Promise!Next]_(Promise!vars)
<1>1. /\ TypeOK /\ Control(r) /\ r = latest /\ r # NoRun /\ alive[r]
      /\ UNCHANGED <<live, alive, latest, base>>
  <2>1. TypeOK /\ Control(r) /\ Running(r)
    BY DEF ControlInv, Running, In, Refuse, RefuseSensitive, TxnFailed, Reload, ReloadFails,
           WindowKeep, WindowRevert, PruneKept, SayKept, SayReverted, SayRevertFailed
  <2>2. UNCHANGED <<live, alive, latest, base>>
    BY DEF Refuse, RefuseSensitive, TxnFailed, Reload, ReloadFails, Revert, WindowKeep, Keep,
           WindowRevert, PruneKept, Prune, SayKept, SayReverted, SayRevertFailed, DropRest,
           txnVars, dirVars, histVars
  <2> QED BY <2>1, <2>2, SoloRun, TxnAssumption DEF Running
<1>2. said'[r] = said[r] => Announced' = Announced
  BY <1>1 DEF Announced, LastLine
<1>3. /\ said[r] = <<>> => Announced = "nothing"
      /\ said[r] = <<"applied">> => Announced = "applied"
  BY <1>1 DEF Announced, LastLine
<1>4. ASSUME NEW l \in Lines, Say(r, l), said[r] = <<>> \/ said[r] = <<"applied">>
      PROVE  Announced' = l
  <2>1. CASE said[r] = <<>>
    BY <1>1, <1>4, <2>1, SayFirst DEF Announced, LastLine
  <2>2. CASE said[r] = <<"applied">>
    <3>1. said'[r] = <<"applied", l>>
      BY <1>1, <1>4, <2>2, SaySecond DEF Lines
    <3>2. LastLine(r)' = l
      BY <3>1 DEF LastLine
    <3> QED BY <1>1, <3>2 DEF Announced, LastLine
  <2> QED BY <1>4, <2>1, <2>2
<1> USE DEF Promise!Next, Promise!Announce, Promise!vars
<1>5. CASE Refuse(r) \/ RefuseSensitive(r) \/ TxnFailed(r)
  <2>1. said[r] = <<>> /\ step[r] \in {"idle", "failed"} /\ step' = step /\ Say(r, "error")
    BY <1>1, <1>5 DEF Refuse, RefuseSensitive, TxnFailed, In, Control, txnVars, runVars
  <2>2. said'[r] = <<"error">>
    BY <1>1, <2>1, SayFirst DEF Lines
  <2>3. Outcome = "quiet" /\ Outcome' = "quiet"
    BY <1>1, <2>1, <2>2, ReadingHolds, ReadingNext DEF Reading
  <2> QED BY <1>1, <1>3, <1>4, <2>1, <2>3 DEF Lines
<1>6. CASE Reload(r)
  <2>1. said[r] = <<>> /\ step[r] = "open" /\ step' = step /\ Say(r, "applied")
    BY <1>1, <1>6 DEF Reload, In, Control, txnVars, runVars
  <2>2. Outcome = "open" /\ Outcome' = "open"
    BY <1>1, <2>1, ReadingHolds, ReadingNext DEF Reading
  <2> QED BY <1>1, <1>3, <1>4, <2>1, <2>2 DEF Lines
<1>7. CASE ReloadFails(r) \/ WindowRevert(r)
  <2>1. /\ said' = said /\ step[r] = "open" /\ step'[r] = "revert"
        /\ applied[r] = <<Own(r)>> /\ applied' = applied
    BY <1>1, <1>7 DEF ReloadFails, WindowRevert, Revert, At, Goto, Control, TypeOK, TxnTypeOK
  <2>2. applied[r] # <<>>
    BY <2>1
  <2>3. Outcome = "open" /\ Outcome' = "open"
    BY <1>1, <2>1, <2>2, ReadingHolds, ReadingNext DEF Reading
  <2> QED BY <1>1, <1>2, <2>1, <2>3
<1>8. CASE WindowKeep(r)
  <2>1. said' = said /\ said[r] = <<"applied">> /\ step[r] = "open" /\ step'[r] = "kept"
    BY <1>1, <1>8 DEF WindowKeep, Keep, In, At, Goto, Control, TypeOK, TxnTypeOK
  <2>2. Outcome = "open" /\ Outcome' = "kept"
    BY <1>1, <2>1, ReadingHolds, ReadingNext DEF Reading
  <2> QED BY <1>1, <1>2, <1>3, <2>1, <2>2 DEF Promise!Confirm
<1>9. CASE PruneKept(r)
  <2>1. said' = said /\ step[r] = "kept" /\ step'[r] = "pruned"
    BY <1>1, <1>9 DEF PruneKept, Prune, At, Goto, toolVars, TypeOK, TxnTypeOK
  <2>2. Outcome = "kept" /\ Outcome' = "kept"
    BY <1>1, <2>1, ReadingHolds, ReadingNext DEF Reading
  <2> QED BY <1>1, <1>2, <2>1, <2>2
<1>10. CASE SayKept(r)
  <2>1. said[r] = <<"applied">> /\ step[r] = "pruned" /\ step' = step /\ Say(r, "kept")
    BY <1>1, <1>10 DEF SayKept, In, Control, txnVars, runVars
  <2>2. Outcome = "kept" /\ Outcome' = "kept"
    BY <1>1, <2>1, ReadingHolds, ReadingNext DEF Reading
  <2> QED BY <1>1, <1>3, <1>4, <2>1, <2>2 DEF Lines
<1>11. CASE SayReverted(r)
  <2>1. /\ said[r] \in {<<>>, <<"applied">>} /\ step[r] = "reverted" /\ step' = step
        /\ Say(r, "reverted")
    BY <1>1, <1>11 DEF SayReverted, In, Control, txnVars, runVars
  <2>2. Outcome = "restored" /\ Outcome' = "restored"
    BY <1>1, <2>1, ReadingHolds, ReadingNext DEF Reading
  <2> QED BY <1>1, <1>3, <1>4, <2>1, <2>2 DEF Lines
<1>12. CASE SayRevertFailed(r)
  <2>1. /\ said[r] \in {<<>>, <<"applied">>} /\ step[r] = "stuck" /\ step'[r] = "drop"
        /\ Say(r, "revert-failed")
    BY <1>1, <1>12 DEF SayRevertFailed, DropRest, At, In, Goto, Control, TypeOK, TxnTypeOK
  <2>2. Outcome = "alarm" /\ Outcome' = "alarm"
    BY <1>1, <2>1, ReadingHolds, ReadingNext DEF Reading
  <2> QED BY <1>1, <1>3, <1>4, <2>1, <2>2 DEF Lines
<1> QED BY <1>5, <1>6, <1>7, <1>8, <1>9, <1>10, <1>11, <1>12

LEMMA PromiseOutside ==
  ASSUME \/ \E r \in Runs :
              \/ \E l \in {"keep", "other"} : SendLine(r, l)
              \/ HangUp(r)
              \/ Expire(r)
         \/ KeydRestart
         \/ Tick /\ UNCHANGED toolVars
         \/ UNCHANGED vars
  PROVE  UNCHANGED Promise!vars
<1>1. UNCHANGED <<live, base, latest, step, said, applied, alive>>
  BY DEF SendLine, HangUp, Expire, KeydRestart, Tick, vars, txnVars, dirVars, runVars,
         histVars, toolVars
<1> QED BY <1>1, PromiseSame

LEMMA PromiseNext ==
  ASSUME ~Concurrent, ~UnsyncedIO, ControlInv, ControlInv', Solo, [Next]_vars
  PROVE  [Promise!Next]_(Promise!vars)
<1>1. ASSUME NEW r \in Runs, Step(r)
      PROVE  [Promise!Next]_(Promise!vars)
  BY <1>1, PromiseAccept, PromiseTool, PromiseWork DEF Step
<1>2. ASSUME NEW r \in Runs, NEW q \in Requests, Start(r, q)
      PROVE  [Promise!Next]_(Promise!vars)
  BY <1>2, PromiseStart DEF Promise!Next
<1>3. ASSUME NEW r \in Runs, Kill(r)
      PROVE  [Promise!Next]_(Promise!vars)
  BY <1>3, PromiseKill
<1> QED BY <1>1, <1>2, <1>3, PromiseOutside DEF Next

\* The promise is kept for any number of runs, one after the other: a change
\* stays only if it was confirmed, the files come back if it was not, the line
\* the run ends with says which, and only a revert that failed or a kill with
\* the change live leaves the files as the run made them.
THEOREM PromiseHolds ==
  ASSUME ~Concurrent, ~UnsyncedIO
  PROVE  Spec => KeepsPromise
<1>1. Init => Promise!Init
  BY PromiseInit
<1>2. SafetyInv /\ SafetyInv' /\ [Next]_vars => [Promise!Next]_(Promise!vars)
  BY PromiseNext DEF SafetyInv
<1> QED BY <1>1, <1>2, SafetyHolds, PTL DEF Spec, KeepsPromise, Promise!Spec

-----------------------------------------------------------------------------
(* The transactions of txn.rs for any caller (WriteSet): write-sets of any *)
(* length, any number of runs, failures and kills.                         *)

-----------------------------------------------------------------------------
(* Types, and the write-set a transaction has before it at each step.      *)

LEMMA Items ==
  ASSUME NEW S, NEW s \in Seq(S)
  PROVE  /\ Len(s) \in Nat /\ DOMAIN s = 1..Len(s)
         /\ \A i \in 1..Len(s) : s[i] \in S
OBVIOUS

\* The write at hand.
LEMMA AtHand ==
  ASSUME ShapeInv, NEW r \in Runs,
         step[r] \in {"read", "tmp", "check", "backup", "rename", "dread", "dbackup", "unlink"}
  PROVE  /\ todo[r] \in Seq(Write) /\ todo[r] # <<>> /\ Len(todo[r]) \in Nat \ {0}
         /\ Head(todo[r]) = todo[r][1]
         /\ File(r) \in Names /\ Head(todo[r]).content \in Values
         /\ Tail(todo[r]) \in Seq(Write)
         /\ Len(Tail(todo[r])) = Len(todo[r]) - 1
         /\ \A i \in 1..Len(Tail(todo[r])) : Tail(todo[r])[i] = todo[r][i + 1]
<1>1. TxnTypeOK /\ Shape(r)
  BY DEF ShapeInv
<1>2. todo[r] \in Seq(Write)
  BY <1>1 DEF TxnTypeOK
<1>3. todo[r] # <<>>
  BY <1>1, <1>2 DEF Shape
<1> DEFINE t == todo[r]
<1>4. /\ t \in Seq(Write) /\ t # <<>>
  BY <1>2, <1>3
<1>5. /\ Head(t) \in Write /\ Head(t) = t[1] /\ Tail(t) \in Seq(Write)
      /\ Len(t) \in Nat \ {0}
      /\ Len(Tail(t)) = Len(t) - 1
      /\ \A i \in 1..Len(Tail(t)) : Tail(t)[i] = t[i + 1]
  <2> HIDE DEF t
  <2> QED BY <1>4
<1> QED BY <1>4, <1>5 DEF File, Write

\* Only run r moves.
MovesAlone(r) ==
  \A s \in Runs \ {r} :
    /\ step'[s] = step[s]
    /\ todo'[s] = todo[s]
    /\ prior'[s] = prior[s]
    /\ applied'[s] = applied[s]
    /\ alive'[s] = alive[s]

LEMMA WorkOnly ==
  ASSUME TxnTypeOK, NEW r \in Runs, TxnWork(r)
  PROVE  MovesAlone(r) /\ alive' = alive /\ stamp' = stamp /\ base' = base /\ latest' = latest
                 /\ clock' = clock
<1> USE DEF MovesAlone, TxnTypeOK, Goto, dirVars, histVars
<1>1. CASE ReadPrior(r)        BY <1>1 DEF ReadPrior
<1>2. CASE WriteTmp(r)         BY <1>2 DEF WriteTmp
<1>3. CASE CheckTmp(r)         BY <1>3 DEF CheckTmp
<1>4. CASE WriteBackup(r)      BY <1>4 DEF WriteBackup
<1>5. CASE RenameTmp(r)        BY <1>5 DEF RenameTmp
<1>6. CASE ReadDoomed(r)       BY <1>6 DEF ReadDoomed
<1>7. CASE BackupDoomed(r)     BY <1>7 DEF BackupDoomed
<1>8. CASE UnlinkDoomed(r)     BY <1>8 DEF UnlinkDoomed
<1>9. CASE RevertEntry(r)      BY <1>9 DEF RevertEntry
<1>10. CASE RevertEntryFails(r) BY <1>10 DEF RevertEntryFails
<1>11. CASE RevertDone(r)      BY <1>11 DEF RevertDone
<1> QED BY <1>1, <1>2, <1>3, <1>4, <1>5, <1>6, <1>7, <1>8, <1>9, <1>10, <1>11
        DEF TxnWork

LEMMA HoldOnly ==
  ASSUME TxnTypeOK, NEW r \in Runs,
         Keep(r) \/ CallPrune(r) \/ Revert(r) \/ Unwind(r) \/ DropRest(r)
  PROVE  /\ MovesAlone(r) /\ UNCHANGED <<live, temps, clock, alive, todo, prior, stamp, base, latest>>
BY DEF MovesAlone, TxnTypeOK, Goto, dirVars, histVars, Keep, CallPrune, Prune, Revert, Unwind, DropRest

LEMMA ShapeOther ==
  ASSUME ShapeInv, NEW r \in Runs, MovesAlone(r), TxnTypeOK', Shape(r)'
  PROVE  ShapeInv'
<1> SUFFICES ASSUME NEW s \in Runs \ {r} PROVE Shape(s)'
  BY DEF ShapeInv
<1>1. Shape(s)
  BY DEF ShapeInv
<1> QED BY <1>1 DEF Shape, MovesAlone

LEMMA FaultsTyped ==
  ASSUME TxnTypeOK, NoFault \/ Fault \/ Unsync
  PROVE  faults' \in 0..MaxFaults /\ faults' >= faults
BY TxnAssumption DEF TxnTypeOK, NoFault, Fault, Unsync

LEMMA ShapeInit == TxnInit => ShapeInv
<1> SUFFICES ASSUME TxnInit PROVE ShapeInv
  OBVIOUS
<1>1. TxnTypeOK
  BY TxnAssumption DEF TxnInit, TxnTypeOK, Steps, Values
<1>2. ASSUME NEW r \in Runs PROVE Shape(r)
  BY DEF TxnInit, Shape
<1> QED BY <1>1, <1>2 DEF ShapeInv

LEMMA ShapeBeginApply ==
  ASSUME ShapeInv, NEW r \in Runs, NEW ops \in WriteSets, BeginApply(r, ops, clock)
  PROVE  ShapeInv'
<1>1. TxnTypeOK /\ Shape(r)
  BY DEF ShapeInv
<1>2. ops \in Seq([name : Names, content : Contents]) /\ ops # <<>>
  BY WriteSetAssumption
<1>3. /\ ops \in Seq(Write)
      /\ \A i \in DOMAIN ops : ops[i].content \in Contents
  <2>1. /\ \A i \in 1..Len(ops) : ops[i] \in [name : Names, content : Contents]
        /\ DOMAIN ops = 1..Len(ops) /\ Len(ops) \in Nat
    BY <1>2, Items
  <2>2. \A i \in 1..Len(ops) : ops[i] \in Write
    BY <2>1 DEF Write, Values
  <2>3. ops = [i \in 1..Len(ops) |-> ops[i]]
    BY <1>2
  <2> HIDE DEF Write
  <2> QED BY <2>1, <2>2, <2>3
<1>4. todo' \in [Runs -> Seq(Write)] /\ todo'[r] = ops
  BY <1>1, <1>3 DEF BeginApply, TxnTypeOK
<1>5. step' \in [Runs -> Steps] /\ step'[r] = "read"
  BY <1>1, GotoTyped DEF BeginApply, Steps
<1>6. UNCHANGED <<live, temps, baks, clock, faults, alive, prior, applied>> /\ base' = live
      /\ latest' = r /\ stamp' = [stamp EXCEPT ![r] = clock]
  BY DEF BeginApply, dirVars
<1>7. TxnTypeOK'
  BY <1>1, <1>4, <1>5, <1>6 DEF TxnTypeOK
<1>8. MovesAlone(r)
  BY <1>1 DEF BeginApply, Goto, MovesAlone, TxnTypeOK
<1>9. Shape(r)'
  BY <1>2, <1>3, <1>4, <1>5 DEF Shape
<1> QED BY <1>7, <1>8, <1>9, ShapeOther

LEMMA ShapeBeginDelete ==
  ASSUME ShapeInv, NEW r \in Runs, NEW n \in Names, BeginDelete(r, n, clock)
  PROVE  ShapeInv'
<1>1. TxnTypeOK /\ Shape(r) /\ step[r] = "idle"
  BY DEF ShapeInv, BeginDelete, At
<1> DEFINE w == [name |-> n, content |-> Absent]
<1>2. w \in Write /\ w.content = Absent
  BY DEF Write, Values
<1>3. todo' = [todo EXCEPT ![r] = <<w>>]
  BY DEF BeginDelete
<1> HIDE DEF w
<1>4. <<w>> \in Seq(Write) /\ Len(<<w>>) = 1 /\ Head(<<w>>) = w
  BY <1>2
<1>5. todo' \in [Runs -> Seq(Write)] /\ todo'[r] = <<w>>
  BY <1>1, <1>3, <1>4 DEF TxnTypeOK
<1>6. step' \in [Runs -> Steps] /\ step'[r] = "dread"
  BY <1>1, GotoTyped DEF BeginDelete, Steps
<1>7. UNCHANGED <<live, temps, baks, clock, faults, alive, prior, applied>> /\ base' = live
      /\ latest' = r /\ stamp' = [stamp EXCEPT ![r] = clock]
  BY DEF BeginDelete, dirVars
<1>8. TxnTypeOK'
  BY <1>1, <1>5, <1>6, <1>7 DEF TxnTypeOK
<1>9. MovesAlone(r)
  BY <1>1 DEF BeginDelete, Goto, MovesAlone, TxnTypeOK
<1>10. Shape(r)'
  BY <1>1, <1>2, <1>4, <1>5, <1>6, <1>7 DEF Shape
<1> QED BY <1>8, <1>9, <1>10, ShapeOther

LEMMA ShapeReadPrior ==
  ASSUME ShapeInv, NEW r \in Runs, ReadPrior(r)
  PROVE  TxnTypeOK' /\ Shape(r)'
<1>1. TxnTypeOK /\ Shape(r) /\ step[r] = "read"
  BY DEF ShapeInv, ReadPrior, At
<1>2. File(r) \in Names
  BY <1>1, AtHand
<1>3. step' \in [Runs -> Steps] /\ step'[r] \in {"tmp", "abort"}
  BY <1>1 DEF ReadPrior, Goto, TxnTypeOK, Steps
<1>4. faults' \in 0..MaxFaults
  BY <1>1, FaultsTyped DEF ReadPrior
<1>5. TxnTypeOK'
  BY <1>1, <1>2, <1>3, <1>4 DEF ReadPrior, dirVars, histVars, TxnTypeOK
<1> QED BY <1>1, <1>3, <1>5 DEF ReadPrior, Shape

LEMMA ShapeWriteTmp ==
  ASSUME ShapeInv, NEW r \in Runs, WriteTmp(r)
  PROVE  TxnTypeOK' /\ Shape(r)'
<1>1. TxnTypeOK /\ Shape(r) /\ step[r] = "tmp"
  BY DEF ShapeInv, WriteTmp, At
<1>2. Tmp(r) \in Runs \X {"tmp", "rev"} \X Names
  BY <1>1, AtHand DEF Tmp
<1>3. step' \in [Runs -> Steps] /\ step'[r] \in {"check", "abort"}
  BY <1>1 DEF WriteTmp, Goto, TxnTypeOK, Steps
<1>4. faults' \in 0..MaxFaults
  BY <1>1, FaultsTyped DEF WriteTmp
<1>5. TxnTypeOK'
  BY <1>1, <1>2, <1>3, <1>4 DEF WriteTmp, dirVars, histVars, TxnTypeOK
<1> QED BY <1>1, <1>3, <1>5 DEF WriteTmp, Shape

LEMMA ShapeCheckTmp ==
  ASSUME ShapeInv, NEW r \in Runs, CheckTmp(r)
  PROVE  TxnTypeOK' /\ Shape(r)'
<1>1. TxnTypeOK /\ Shape(r) /\ step[r] = "check"
  BY DEF ShapeInv, CheckTmp, At
<1>2. /\ step' \in [Runs -> Steps]
      /\ \/ step'[r] = "abort"
         \/ step'[r] = "backup" /\ Head(todo[r]).content \in Valid
  BY <1>1 DEF CheckTmp, Goto, TxnTypeOK, Steps
<1>3. faults' \in 0..MaxFaults
  BY <1>1, FaultsTyped DEF CheckTmp
<1>4. TxnTypeOK'
  BY <1>1, <1>2, <1>3 DEF CheckTmp, dirVars, histVars, TxnTypeOK
<1> QED BY <1>1, <1>2, <1>4 DEF CheckTmp, Shape

LEMMA BakShaped ==
  ASSUME ShapeInv, NEW r \in Runs, step[r] \in {"backup", "dbackup"}, prior[r] # Absent
  PROVE  Bak(r, prior[r]) \in Backup /\ BakDebris(r) \subseteq SUBSET Backup
<1>1. TxnTypeOK /\ File(r) \in Names
  BY AtHand DEF ShapeInv
<1>2. Bak(r, prior[r]) \in Backup /\ Bak(r, Torn) \in Backup
  BY <1>1 DEF TxnTypeOK, Bak, Backup, Values
<1> QED BY <1>1, <1>2 DEF BakDebris, TxnTypeOK

LEMMA ShapeWriteBackup ==
  ASSUME ShapeInv, NEW r \in Runs, WriteBackup(r)
  PROVE  TxnTypeOK' /\ Shape(r)'
<1>1. TxnTypeOK /\ Shape(r) /\ step[r] = "backup"
  BY DEF ShapeInv, WriteBackup, At
<1>2. baks' \subseteq Backup
  BY <1>1, BakShaped DEF WriteBackup, TxnTypeOK
<1>3. temps' \subseteq Runs \X {"tmp", "rev"} \X Names
  BY <1>1 DEF WriteBackup, TxnTypeOK
<1>4. step' \in [Runs -> Steps] /\ step'[r] \in {"rename", "abort"}
  BY <1>1 DEF WriteBackup, Goto, TxnTypeOK, Steps
<1>5. faults' \in 0..MaxFaults
  BY <1>1, FaultsTyped DEF WriteBackup
<1>6. TxnTypeOK'
  BY <1>1, <1>2, <1>3, <1>4, <1>5 DEF WriteBackup, histVars, TxnTypeOK
<1> QED BY <1>1, <1>4, <1>6 DEF WriteBackup, Shape

LEMMA ShapeRenameTmp ==
  ASSUME ShapeInv, NEW r \in Runs, RenameTmp(r)
  PROVE  TxnTypeOK' /\ Shape(r)'
<1>1. TxnTypeOK /\ Shape(r) /\ step[r] = "rename"
  BY DEF ShapeInv, RenameTmp, At
<1>2. /\ File(r) \in Names /\ Head(todo[r]).content \in Values
      /\ Tail(todo[r]) \in Seq(Write)
      /\ Len(Tail(todo[r])) = Len(todo[r]) - 1
      /\ Len(todo[r]) \in Nat \ {0}
      /\ \A i \in 1..Len(Tail(todo[r])) : Tail(todo[r])[i] = todo[r][i + 1]
  BY <1>1, AtHand
<1>3. live' \in [Names -> Values]
  BY <1>1, <1>2 DEF RenameTmp, TxnTypeOK
<1>4. applied' \in [Runs -> Seq(Undo)]
  <2>1. [name |-> File(r), prior |-> prior[r]] \in Undo
    BY <1>1, <1>2 DEF Undo, TxnTypeOK
  <2>2. <<[name |-> File(r), prior |-> prior[r]]>> \o applied[r] \in Seq(Undo)
    BY <1>1, <2>1 DEF TxnTypeOK
  <2> QED BY <1>1, <2>2 DEF RenameTmp, TxnTypeOK
<1>5. todo' \in [Runs -> Seq(Write)]
  BY <1>1, <1>2 DEF RenameTmp, TxnTypeOK
<1>6. /\ step' \in [Runs -> Steps]
      /\ \/ step'[r] \in {"open", "abort"}
         \/ step'[r] = "read" /\ Len(todo[r]) # 1 /\ todo'[r] = Tail(todo[r])
  BY <1>1 DEF RenameTmp, Goto, TxnTypeOK, Steps
<1>7. faults' \in 0..MaxFaults
  BY <1>1, FaultsTyped DEF RenameTmp
<1>8. temps' \subseteq Runs \X {"tmp", "rev"} \X Names
  BY <1>1 DEF RenameTmp, TxnTypeOK
<1>9. TxnTypeOK'
  BY <1>1, <1>3, <1>4, <1>5, <1>6, <1>7, <1>8 DEF RenameTmp, histVars, TxnTypeOK
<1>10. CASE step'[r] = "read" /\ Len(todo[r]) # 1 /\ todo'[r] = Tail(todo[r])
  <2> DEFINE t == Tail(todo[r])
  <2>1. /\ t \in Seq(Write) /\ Len(t) \in Nat \ {0}
        /\ \A i \in 1..Len(t) : t[i] = todo[r][i + 1]
    BY <1>2, <1>10
  <2>2. \A i \in 1..Len(t) : i + 1 \in DOMAIN todo[r]
    <3>1. todo[r] \in Seq(Write)
      BY <1>1, AtHand
    <3> QED BY <1>2, <3>1
  <2>3. \A i \in DOMAIN todo[r] : todo[r][i].content \in Contents
    BY <1>1 DEF Shape
  <2> HIDE DEF t
  <2>4. t # <<>> /\ DOMAIN t = 1..Len(t)
    BY <2>1
  <2>5. \A i \in DOMAIN t : t[i].content \in Contents
    BY <2>1, <2>2, <2>3, <2>4
  <2>6. todo'[r] = t
    BY <1>10 DEF t
  <2> QED BY <1>9, <1>10, <2>4, <2>5, <2>6 DEF Shape
<1>11. CASE step'[r] \in {"open", "abort"}
  BY <1>9, <1>11 DEF Shape
<1> QED BY <1>6, <1>9, <1>10, <1>11

LEMMA ShapeReadDoomed ==
  ASSUME ShapeInv, NEW r \in Runs, ReadDoomed(r)
  PROVE  TxnTypeOK' /\ Shape(r)'
<1>1. TxnTypeOK /\ Shape(r) /\ step[r] = "dread"
  BY DEF ShapeInv, ReadDoomed, At
<1>2. File(r) \in Names
  BY <1>1, AtHand
<1>3. prior' \in [Runs -> Values]
  BY <1>1, <1>2 DEF ReadDoomed, TxnTypeOK
<1>4. /\ step' \in [Runs -> Steps]
      /\ \/ step'[r] = "failed"
         \/ step'[r] = "dbackup" /\ prior'[r] # Absent
  BY <1>1 DEF ReadDoomed, Goto, TxnTypeOK, Steps
<1>5. faults' \in 0..MaxFaults
  BY <1>1, FaultsTyped DEF ReadDoomed
<1>6. TxnTypeOK'
  BY <1>1, <1>3, <1>4, <1>5 DEF ReadDoomed, dirVars, histVars, TxnTypeOK
<1> QED BY <1>1, <1>4, <1>6 DEF ReadDoomed, Shape

LEMMA ShapeBackupDoomed ==
  ASSUME ShapeInv, NEW r \in Runs, BackupDoomed(r)
  PROVE  TxnTypeOK' /\ Shape(r)'
<1>1. TxnTypeOK /\ Shape(r) /\ step[r] = "dbackup"
  BY DEF ShapeInv, BackupDoomed, At
<1>2. baks' \subseteq Backup
  BY <1>1, BakShaped DEF BackupDoomed, TxnTypeOK, Shape
<1>3. step' \in [Runs -> Steps] /\ step'[r] \in {"unlink", "failed"}
  BY <1>1 DEF BackupDoomed, Goto, TxnTypeOK, Steps
<1>4. faults' \in 0..MaxFaults
  BY <1>1, FaultsTyped DEF BackupDoomed
<1>5. TxnTypeOK'
  BY <1>1, <1>2, <1>3, <1>4 DEF BackupDoomed, histVars, TxnTypeOK
<1> QED BY <1>1, <1>3, <1>5 DEF BackupDoomed, Shape

LEMMA ShapeUnlinkDoomed ==
  ASSUME ShapeInv, NEW r \in Runs, UnlinkDoomed(r)
  PROVE  TxnTypeOK' /\ Shape(r)'
<1>1. TxnTypeOK /\ Shape(r) /\ step[r] = "unlink"
  BY DEF ShapeInv, UnlinkDoomed, At
<1>2. File(r) \in Names /\ Tail(todo[r]) \in Seq(Write)
  BY <1>1, AtHand
<1>3. live' \in [Names -> Values]
  BY <1>1, <1>2 DEF UnlinkDoomed, TxnTypeOK, Values
<1>4. applied' \in [Runs -> Seq(Undo)]
  <2>1. <<[name |-> File(r), prior |-> prior[r]]>> \in Seq(Undo)
    BY <1>1, <1>2 DEF Undo, TxnTypeOK
  <2> QED BY <1>1, <2>1 DEF UnlinkDoomed, TxnTypeOK
<1>5. todo' \in [Runs -> Seq(Write)]
  BY <1>1, <1>2 DEF UnlinkDoomed, TxnTypeOK
<1>6. step' \in [Runs -> Steps] /\ step'[r] \in {"open", "failed"}
  BY <1>1 DEF UnlinkDoomed, Goto, TxnTypeOK, Steps
<1>7. faults' \in 0..MaxFaults
  BY <1>1, FaultsTyped DEF UnlinkDoomed
<1>8. baks' \subseteq Backup
  BY <1>1 DEF UnlinkDoomed, TxnTypeOK
<1>9. TxnTypeOK'
  BY <1>1, <1>3, <1>4, <1>5, <1>6, <1>7, <1>8 DEF UnlinkDoomed, histVars, TxnTypeOK
<1> QED BY <1>6, <1>9 DEF Shape

\* An undo entry names a file and what it held.
LEMMA Entry ==
  ASSUME TxnTypeOK, NEW r \in Runs, applied[r] # <<>>
  PROVE  /\ Head(applied[r]).name \in Names /\ Head(applied[r]).prior \in Values
         /\ Head(applied[r]) = applied[r][1] /\ Head(applied[r]) \in Undo
         /\ Tail(applied[r]) \in Seq(Undo)
         /\ applied[r] \in Seq(Undo) /\ Len(applied[r]) \in Nat \ {0}
         /\ Len(Tail(applied[r])) = Len(applied[r]) - 1
         /\ \A i \in 1..Len(Tail(applied[r])) : Tail(applied[r])[i] = applied[r][i + 1]
<1> DEFINE a == applied[r]
<1>1. a \in Seq(Undo) /\ a # <<>>
  BY DEF TxnTypeOK
<1>2. /\ Head(a) \in Undo /\ Head(a) = a[1] /\ Tail(a) \in Seq(Undo)
      /\ Len(a) \in Nat \ {0} /\ Len(Tail(a)) = Len(a) - 1
      /\ \A i \in 1..Len(Tail(a)) : Tail(a)[i] = a[i + 1]
  <2> HIDE DEF a
  <2> QED BY <1>1
<1> QED BY <1>1, <1>2 DEF Undo

LEMMA ShapeRevertEntry ==
  ASSUME ShapeInv, NEW r \in Runs, RevertEntry(r)
  PROVE  TxnTypeOK' /\ Shape(r)'
<1>1. TxnTypeOK /\ Shape(r) /\ applied[r] # <<>> /\ step[r] \in {"abort", "revert", "drop", "unwind"}
  BY DEF ShapeInv, RevertEntry, Undoing
<1>2. live' \in [Names -> Values]
  BY <1>1, Entry DEF RevertEntry, TxnTypeOK
<1>3. applied' \in [Runs -> Seq(Undo)]
  BY <1>1, Entry DEF RevertEntry, TxnTypeOK
<1>4. TxnTypeOK'
  BY <1>1, <1>2, <1>3 DEF RevertEntry, NoFault, histVars, TxnTypeOK
<1> QED BY <1>1, <1>4 DEF RevertEntry, Shape

LEMMA ShapeRevertEntryFails ==
  ASSUME ShapeInv, NEW r \in Runs, RevertEntryFails(r)
  PROVE  TxnTypeOK' /\ Shape(r)' /\ step'[r] = AfterError[step[r]]
<1>1. TxnTypeOK /\ Shape(r) /\ applied[r] # <<>> /\ step[r] \in {"abort", "revert", "drop", "unwind"}
  BY DEF ShapeInv, RevertEntryFails, Undoing
<1>2. live' \in [Names -> Values]
  BY <1>1, Entry DEF RevertEntryFails, TxnTypeOK
<1>3. applied' \in [Runs -> Seq(Undo)]
  BY <1>1, Entry DEF RevertEntryFails, TxnTypeOK
<1>4. /\ step' \in [Runs -> Steps] /\ step'[r] = AfterError[step[r]]
      /\ step'[r] \in {"stuck", "drop", "failed", "unwound"}
  BY <1>1 DEF RevertEntryFails, Goto, AfterError, TxnTypeOK, Steps
<1>5. temps' \subseteq Runs \X {"tmp", "rev"} \X Names
  <2>1. <<r, "rev", Head(applied[r]).name>> \in Runs \X {"tmp", "rev"} \X Names
    BY <1>1, Entry
  <2>2. temps' \subseteq temps \union {<<r, "rev", Head(applied[r]).name>>}
    BY DEF RevertEntryFails
  <2> QED BY <1>1, <2>1, <2>2 DEF TxnTypeOK
<1>6. faults' \in 0..MaxFaults
  BY <1>1, FaultsTyped DEF RevertEntryFails
<1>7. TxnTypeOK'
  BY <1>1, <1>2, <1>3, <1>4, <1>5, <1>6 DEF RevertEntryFails, histVars, TxnTypeOK
<1> QED BY <1>4, <1>7 DEF Shape

LEMMA ShapeRevertDone ==
  ASSUME ShapeInv, NEW r \in Runs, RevertDone(r)
  PROVE  TxnTypeOK' /\ Shape(r)' /\ step'[r] = AfterAll[step[r]]
<1>1. TxnTypeOK /\ step[r] \in {"abort", "revert", "drop", "unwind"}
  BY DEF ShapeInv, RevertDone, Undoing
<1>2. /\ step' \in [Runs -> Steps] /\ step'[r] = AfterAll[step[r]]
      /\ step'[r] \in {"reverted", "failed", "unwound"}
  BY <1>1 DEF RevertDone, Goto, AfterAll, TxnTypeOK, Steps
<1>3. TxnTypeOK'
  BY <1>1, <1>2 DEF RevertDone, dirVars, histVars, TxnTypeOK
<1> QED BY <1>2, <1>3 DEF Shape

LEMMA ShapeWork ==
  ASSUME ShapeInv, NEW r \in Runs, TxnWork(r)
  PROVE  ShapeInv'
<1>1. TxnTypeOK' /\ Shape(r)'
  BY ShapeReadPrior, ShapeWriteTmp, ShapeCheckTmp, ShapeWriteBackup, ShapeRenameTmp,
     ShapeReadDoomed, ShapeBackupDoomed, ShapeUnlinkDoomed, ShapeRevertEntry,
     ShapeRevertEntryFails, ShapeRevertDone
  DEF TxnWork
<1>2. MovesAlone(r)
  BY WorkOnly DEF ShapeInv
<1> QED BY <1>1, <1>2, ShapeOther

LEMMA ShapeHold ==
  ASSUME ShapeInv, NEW r \in Runs,
         Keep(r) \/ CallPrune(r) \/ Revert(r) \/ Unwind(r) \/ DropRest(r)
  PROVE  ShapeInv'
<1>1. TxnTypeOK
  BY DEF ShapeInv
<1>2. step' \in [Runs -> Steps] /\ step'[r] \in {"kept", "pruned", "revert", "unwind", "drop"}
  BY <1>1 DEF Keep, CallPrune, Prune, Revert, Unwind, DropRest, Goto, TxnTypeOK, Steps
<1>3. applied' \in [Runs -> Seq(Undo)]
  <2>1. applied' = applied \/ applied' = [applied EXCEPT ![r] = <<>>]
    BY DEF Keep, CallPrune, Prune, Revert, Unwind, DropRest
  <2>2. <<>> \in Seq(Undo)
    OBVIOUS
  <2> QED BY <1>1, <2>1, <2>2 DEF TxnTypeOK
<1>4. baks' \subseteq baks /\ faults' \in 0..MaxFaults
  BY <1>1, TxnAssumption, FaultsTyped
  DEF Keep, CallPrune, Prune, Revert, Unwind, DropRest, dirVars, TxnTypeOK
<1>5. TxnTypeOK'
  BY <1>1, <1>2, <1>3, <1>4, HoldOnly DEF TxnTypeOK
<1>6. Shape(r)'
  BY <1>2 DEF Shape
<1> QED BY <1>1, <1>5, <1>6, HoldOnly, ShapeOther

LEMMA ShapeRest ==
  ASSUME ShapeInv, (\E r \in Runs : Killed(r)) \/ Tick \/ UNCHANGED txnVars
  PROVE  ShapeInv'
<1>1. TxnTypeOK'
  <2>1. UNCHANGED <<live, temps, baks, faults, step, todo, prior, applied, stamp, base, latest>>
    BY DEF Killed, Tick, txnVars, dirVars, runVars, histVars
  <2>2. clock' \in 0..MaxClock
    BY TxnAssumption DEF ShapeInv, Killed, Tick, txnVars, TxnTypeOK
  <2>3. alive' \in [Runs -> BOOLEAN]
    BY DEF ShapeInv, Killed, Tick, txnVars, TxnTypeOK
  <2> QED BY <2>1, <2>2, <2>3 DEF ShapeInv, TxnTypeOK
<1>2. UNCHANGED <<step, todo, prior, applied>>
  BY DEF Killed, Tick, txnVars, runVars
<1> QED BY <1>1, <1>2 DEF ShapeInv, Shape

LEMMA ShapeNext ==
  ASSUME ShapeInv, [CallerNext]_txnVars
  PROVE  ShapeInv'
BY ShapeBeginApply, ShapeBeginDelete, ShapeWork, ShapeHold, ShapeRest
DEF CallerNext, CallApply, CallDelete

\* Any write-set, any overlap of runs, any failure: the transaction keeps its
\* types, and so never takes the head of a list that is empty.
THEOREM ShapeHolds == CallerSpec => []ShapeInv
BY ShapeInit, ShapeNext, PTL DEF CallerSpec

-----------------------------------------------------------------------------
(* What prune may take.                                                    *)

Finite == IsFiniteSet(baks)

LEMMA FiniteNext ==
  ASSUME Finite, [CallerNext]_txnVars
  PROVE  Finite'
<1> USE DEF Finite
<1>1. CASE UNCHANGED txnVars \/ Tick \/ \E r \in Runs : CallApply(r) \/ CallDelete(r)
             \/ ReadPrior(r) \/ WriteTmp(r) \/ CheckTmp(r) \/ RenameTmp(r) \/ ReadDoomed(r)
             \/ RevertEntry(r) \/ RevertEntryFails(r) \/ RevertDone(r)
             \/ Keep(r) \/ Revert(r) \/ Unwind(r) \/ DropRest(r) \/ Killed(r)
  <2>1. baks' = baks
    BY <1>1 DEF txnVars, Tick, CallApply, CallDelete, BeginApply, BeginDelete, ReadPrior,
                WriteTmp, CheckTmp, RenameTmp, ReadDoomed, RevertEntry, RevertEntryFails,
                RevertDone, Keep, Revert, Unwind, DropRest, Killed, dirVars
  <2> QED BY <2>1
<1>2. CASE \E r \in Runs : WriteBackup(r) \/ BackupDoomed(r)
  <2>1. PICK r \in Runs : WriteBackup(r) \/ BackupDoomed(r)
    BY <1>2
  <2>2. baks' \in {baks, baks \union {Bak(r, prior[r])}, baks \union {Bak(r, Torn)}}
    BY <2>1 DEF WriteBackup, BackupDoomed, BakDebris
  <2> QED BY <2>2, FS_AddElement
<1>3. CASE \E r \in Runs : UnlinkDoomed(r) \/ CallPrune(r)
  <2>1. baks' \subseteq baks
    BY <1>3 DEF UnlinkDoomed, CallPrune, Prune
  <2> QED BY <2>1, FS_Subset
<1> QED BY <1>1, <1>2, <1>3 DEF CallerNext, TxnWork

\* Of the backups of a config with a doomed one, Retain stay that are as new.
LEMMA SurplusKeeps ==
  ASSUME TxnTypeOK, IsFiniteSet(baks), NEW n, NEW doomed, Surplus(n, doomed),
         NEW keep, keep \subseteq baks, baks \ doomed \subseteq keep, NEW d \in doomed
  PROVE  Cardinality({c \in keep : c.name = d.name /\ c.stamp >= d.stamp}) >= Retain
<1> DEFINE mine == {b \in baks : b.name = n}
           rest == mine \ doomed
           newer == {c \in keep : c.name = d.name /\ c.stamp >= d.stamp}
<1>1. IsFiniteSet(mine) /\ IsFiniteSet(newer)
  <2>1. IsFiniteSet(keep)
    BY FS_Subset
  <2> QED BY <2>1, FS_Subset
<1>2. doomed \subseteq mine /\ \A e \in doomed, b \in rest : e.stamp <= b.stamp
  BY DEF Surplus
<1>3. Cardinality(doomed) =
        (IF Cardinality(mine) > Retain THEN Cardinality(mine) - Retain ELSE 0)
  BY DEF Surplus
<1>4. rest \subseteq newer
  <2> SUFFICES ASSUME NEW c \in rest PROVE c \in newer
    OBVIOUS
  <2>1. c \in keep /\ c.name = n /\ d.name = n
    BY <1>2
  <2>2. d.stamp <= c.stamp
    BY <1>2
  <2>3. c.stamp \in Nat /\ d.stamp \in Nat
    BY <1>2, TxnAssumption DEF TxnTypeOK, Backup
  <2> QED BY <2>1, <2>2, <2>3
<1>5. IsFiniteSet(doomed)
  BY <1>1, <1>2, FS_Subset
<1>6. Cardinality(rest) = Cardinality(mine) - Cardinality(doomed)
  <2>1. mine \cap doomed = doomed
    BY <1>2
  <2> QED BY <1>1, <2>1, FS_Difference
<1>7. Cardinality(mine) \in Nat /\ Cardinality(doomed) \in Nat /\ Cardinality(newer) \in Nat
  BY <1>1, <1>5, FS_CardinalityType
<1>8. Cardinality(doomed) # 0
  BY <1>5, FS_EmptySet
<1>9. Cardinality(rest) <= Cardinality(newer)
  BY <1>1, <1>4, FS_Subset
<1> HIDE DEF mine, rest, newer
<1>10. Cardinality(newer) >= Retain
  BY <1>3, <1>6, <1>7, <1>8, <1>9, TxnAssumption
<1> QED BY <1>10 DEF newer

LEMMA PrunedIsSurplus ==
  ASSUME TxnTypeOK, IsFiniteSet(baks), [CallerNext]_txnVars, NEW b \in baks \ baks'
  PROVE  \/ step[b.run] = "unlink"
         \/ Cardinality({c \in baks' : c.name = b.name /\ c.stamp >= b.stamp}) >= Retain
<1>1. PICK r \in Runs : CallPrune(r) \/ UnlinkDoomed(r)
  BY DEF CallerNext, txnVars, Tick, CallApply, CallDelete, BeginApply, BeginDelete, TxnWork,
         ReadPrior, WriteTmp, CheckTmp, WriteBackup, RenameTmp, ReadDoomed, BackupDoomed,
         BakDebris, RevertEntry, RevertEntryFails, RevertDone, Keep, Revert, Unwind,
         DropRest, Killed, dirVars
<1>2. CASE UnlinkDoomed(r)
  <2>1. step[r] = "unlink" /\ baks' \in {baks, baks \ {Bak(r, prior[r])}}
    BY <1>2 DEF UnlinkDoomed, At
  <2>2. b = Bak(r, prior[r])
    BY <2>1
  <2> QED BY <2>1, <2>2 DEF Bak
<1>3. CASE CallPrune(r)
  <2>1. PICK n \in Names, doomed \in SUBSET baks :
          Surplus(n, doomed) /\ baks \ doomed \subseteq baks' /\ baks' \subseteq baks
    BY <1>3 DEF CallPrune, Prune
  <2>2. b \in doomed
    BY <2>1
  <2> QED BY <2>1, <2>2, SurplusKeeps
<1> QED BY <1>1, <1>2, <1>3

\* Prune never reaches into the newest Retain backups of a config, nor into
\* another config's, however many there are and whichever unlinks fail.
THEOREM SurplusHolds == CallerSpec => OnlySurplusPruned
<1>1. TxnInit => Finite
  BY FS_EmptySet DEF TxnInit, Finite
<1>2. Finite /\ [CallerNext]_txnVars => Finite'
  BY FiniteNext
<1>3. ShapeInv /\ Finite /\ [CallerNext]_txnVars => [OnlySurplus]_txnVars
  BY PrunedIsSurplus DEF ShapeInv, OnlySurplus, Finite
<1> QED BY <1>1, <1>2, <1>3, ShapeHolds, PTL DEF CallerSpec, OnlySurplusPruned

-----------------------------------------------------------------------------
(* As long as no I/O fails, nothing is left behind.                        *)

\* The caller's write-sets do not reject a write of a file written before.
RejectsOnce == \A ops \in WriteSets : RejectsFresh(ops)

LEMMA Faultless ==
  ASSUME TxnTypeOK, faults' = 0
  PROVE  /\ ~Fault /\ ~Unsync
         /\ (NoFault => faults = 0)
BY TxnAssumption DEF TxnTypeOK, Fault, Unsync, NoFault

\* Runs other than the one that moves: it writes temp files and backups only
\* under its own pid.
LEMMA CleanOther ==
  ASSUME NEW r \in Runs, NEW s \in Runs \ {r}, MovesAlone(r),
         \A b \in baks' : b \in baks \/ b.run = r,
         \A t \in temps' : t \in temps \/ t[1] = r,
         Unspoilt(s), TempAtHand(s)
  PROVE  Unspoilt(s)' /\ TempAtHand(s)'
<1>1. step'[s] = step[s] /\ todo'[s] = todo[s] /\ alive'[s] = alive[s]
  BY DEF MovesAlone
<1>2. Unspoilt(s)'
  BY <1>1 DEF Unspoilt, File
<1>3. TempAtHand(s)'
  BY <1>1 DEF TempAtHand, Tmp, File
<1> QED BY <1>2, <1>3

LEMMA WorkMakes ==
  ASSUME NEW r \in Runs, TxnWork(r)
  PROVE  /\ \A b \in baks' : b \in baks \/ b.run = r
         /\ \A t \in temps' : t \in temps \/ t[1] = r
<1>1. CASE ReadPrior(r) \/ WriteTmp(r) \/ CheckTmp(r) \/ RenameTmp(r) \/ ReadDoomed(r)
           \/ UnlinkDoomed(r) \/ RevertEntry(r) \/ RevertEntryFails(r) \/ RevertDone(r)
  <2>1. baks' \subseteq baks
    BY <1>1 DEF ReadPrior, WriteTmp, CheckTmp, RenameTmp, ReadDoomed, UnlinkDoomed,
                RevertEntry, RevertEntryFails, RevertDone, dirVars
  <2>2. temps' \subseteq temps \union {Tmp(r), <<r, "rev", Head(applied[r]).name>>}
    BY <1>1 DEF ReadPrior, WriteTmp, CheckTmp, RenameTmp, ReadDoomed, UnlinkDoomed,
                RevertEntry, RevertEntryFails, RevertDone, dirVars
  <2>3. Tmp(r)[1] = r /\ <<r, "rev", Head(applied[r]).name>>[1] = r
    BY DEF Tmp
  <2> QED BY <2>1, <2>2, <2>3
<1>2. CASE WriteBackup(r) \/ BackupDoomed(r)
  <2>1. baks' \in {baks, baks \union {Bak(r, prior[r])}, baks \union {Bak(r, Torn)}}
    BY <1>2 DEF WriteBackup, BackupDoomed, BakDebris
  <2>2. Bak(r, prior[r]).run = r /\ Bak(r, Torn).run = r
    BY DEF Bak
  <2>3. temps' \subseteq temps
    BY <1>2 DEF WriteBackup, BackupDoomed
  <2> QED BY <2>1, <2>2, <2>3
<1> QED BY <1>1, <1>2 DEF TxnWork

LEMMA CleanReads ==
  ASSUME ShapeInv, faults' = 0, NEW r \in Runs, Unspoilt(r), TempAtHand(r),
         ReadPrior(r) \/ ReadDoomed(r)
  PROVE  Unspoilt(r)' /\ TempAtHand(r)'
<1>1. TxnTypeOK /\ ~Fault
  BY Faultless DEF ShapeInv
<1>2. /\ UNCHANGED <<temps, baks, alive, todo>> /\ alive[r]
      /\ \/ step[r] = "read" /\ step'[r] = "tmp"
         \/ step[r] = "dread" /\ step'[r] \in {"dbackup", "failed"}
  BY <1>1 DEF ReadPrior, ReadDoomed, At, Goto, dirVars, TxnTypeOK
<1>3. \A t \in temps : t[1] # r
  BY <1>2 DEF TempAtHand
<1>4. TempAtHand(r)'
  BY <1>2, <1>3 DEF TempAtHand
<1> QED BY <1>2, <1>4 DEF Unspoilt, File

LEMMA CleanWriteTmp ==
  ASSUME ShapeInv, faults' = 0, NEW r \in Runs, Unspoilt(r), TempAtHand(r), WriteTmp(r)
  PROVE  Unspoilt(r)' /\ TempAtHand(r)'
<1>1. TxnTypeOK /\ ~Fault
  BY Faultless DEF ShapeInv
<1>2. /\ UNCHANGED <<baks, alive, todo>> /\ alive[r]
      /\ temps' = temps \union {Tmp(r)}
      /\ step[r] = "tmp" /\ step'[r] = "check"
  BY <1>1 DEF WriteTmp, At, Goto, TxnTypeOK
<1>3. \A t \in temps : t[1] # r
  BY <1>2 DEF TempAtHand
<1>4. TempAtHand(r)'
  BY <1>2, <1>3 DEF TempAtHand, Tmp, File
<1> QED BY <1>2, <1>4 DEF Unspoilt

LEMMA CleanCheckTmp ==
  ASSUME ShapeInv, faults' = 0, NEW r \in Runs, Unspoilt(r), TempAtHand(r), CheckTmp(r)
  PROVE  Unspoilt(r)' /\ TempAtHand(r)'
<1>1. TxnTypeOK /\ ~Fault
  BY Faultless DEF ShapeInv
<1>2. UNCHANGED <<baks, alive, todo>> /\ alive[r] /\ step[r] = "check"
  BY DEF CheckTmp, At
<1>3. \/ step'[r] = "backup" /\ temps' = temps
      \/ step'[r] = "abort" /\ temps' = temps \ {Tmp(r)}
  BY <1>1 DEF CheckTmp, Goto, TxnTypeOK
<1>4. \A t \in temps : t[1] = r => t = Tmp(r)
  BY <1>2 DEF TempAtHand
<1>5. TempAtHand(r)'
  BY <1>2, <1>3, <1>4 DEF TempAtHand, Tmp, File
<1>6. 1 \in DOMAIN todo[r] /\ todo[r][1] = Head(todo[r])
  BY <1>2, AtHand, Items
<1>7. Head(todo[r]).content \notin Valid => \A b \in baks : b.run = r => b.name # File(r)
  BY <1>2, <1>6 DEF Unspoilt, File
<1>8. Unspoilt(r)'
  BY <1>2, <1>3, <1>7 DEF Unspoilt, File
<1> QED BY <1>5, <1>8

LEMMA CleanWriteBackup ==
  ASSUME ShapeInv, faults' = 0, NEW r \in Runs, Unspoilt(r), TempAtHand(r), WriteBackup(r)
  PROVE  Unspoilt(r)' /\ TempAtHand(r)'
<1>1. TxnTypeOK /\ Shape(r) /\ ~Fault
  BY Faultless DEF ShapeInv
<1>2. UNCHANGED <<alive, todo>> /\ alive[r] /\ step[r] = "backup"
  BY DEF WriteBackup, At
<1>3. Head(todo[r]).content \in Valid
  BY <1>1, <1>2 DEF Shape
<1>4. \/ /\ step'[r] = "rename" /\ temps' = temps
         /\ baks' \subseteq baks \union {Bak(r, prior[r])}
      \/ step'[r] = "abort" /\ temps' = temps \ {Tmp(r)} /\ baks' = baks
  BY <1>1 DEF WriteBackup, Goto, TxnTypeOK
<1>5. \A t \in temps : t[1] = r => t = Tmp(r)
  BY <1>2 DEF TempAtHand
<1>6. TempAtHand(r)'
  BY <1>2, <1>4, <1>5 DEF TempAtHand, Tmp, File
<1>7. CASE step'[r] = "abort"
  BY <1>2, <1>3, <1>6, <1>7 DEF Unspoilt
<1>8. CASE step'[r] = "rename" /\ baks' \subseteq baks \union {Bak(r, prior[r])}
  <2>1. /\ DOMAIN todo[r] = 1..Len(todo[r]) /\ Len(todo[r]) \in Nat \ {0}
        /\ Head(todo[r]) = todo[r][1]
    BY <1>2, AtHand, Items
  <2>2. RejectsFresh(todo[r])
    BY <1>2 DEF Unspoilt
  <2>3. \A i \in DOMAIN todo[r] :
          todo[r][i].content \notin Valid => todo[r][1].name # todo[r][i].name
    <3> SUFFICES ASSUME NEW i \in DOMAIN todo[r], todo[r][i].content \notin Valid
                 PROVE  todo[r][1].name # todo[r][i].name
      OBVIOUS
    <3>1. i # 1 /\ 1 \in DOMAIN todo[r] /\ 1 < i
      BY <1>3, <2>1
    <3> QED BY <2>2, <3>1 DEF RejectsFresh
  <2>4. Bak(r, prior[r]).name = todo[r][1].name
    BY <2>1 DEF Bak, File
  <2>5. \A b \in baks', i \in DOMAIN todo[r] :
          b.run = r /\ todo[r][i].content \notin Valid => b.name # todo[r][i].name
    BY <1>2, <1>8, <2>3, <2>4 DEF Unspoilt
  <2> QED BY <1>2, <1>6, <1>8, <2>2, <2>5 DEF Unspoilt
<1> QED BY <1>4, <1>6, <1>7, <1>8

LEMMA CleanRenameTmp ==
  ASSUME ShapeInv, faults' = 0, NEW r \in Runs, Unspoilt(r), TempAtHand(r), RenameTmp(r)
  PROVE  Unspoilt(r)' /\ TempAtHand(r)'
<1>1. TxnTypeOK /\ ~Fault /\ ~Unsync
  BY Faultless DEF ShapeInv
<1>2. /\ UNCHANGED <<alive, baks>> /\ alive[r] /\ step[r] = "rename"
      /\ temps' = temps \ {Tmp(r)} /\ todo'[r] = Tail(todo[r])
      /\ step'[r] \in {"open", "read"}
  BY <1>1 DEF RenameTmp, At, Goto, TxnTypeOK
<1>3. \A t \in temps : t[1] = r => t = Tmp(r)
  BY <1>2 DEF TempAtHand
<1>4. TempAtHand(r)'
  BY <1>2, <1>3 DEF TempAtHand
<1> DEFINE s == todo[r]
           t == Tail(todo[r])
<1>5. /\ Len(s) \in Nat \ {0} /\ DOMAIN s = 1..Len(s)
      /\ Len(t) = Len(s) - 1 /\ DOMAIN t = 1..Len(t)
      /\ \A i \in 1..Len(t) : t[i] = s[i + 1]
  <2>1. s \in Seq(Write) /\ t \in Seq(Write)
    BY <1>2, AtHand
  <2>2. DOMAIN s = 1..Len(s) /\ DOMAIN t = 1..Len(t)
    BY <2>1, Items
  <2> QED BY <1>2, <2>2, AtHand
<1>6. /\ RejectsFresh(s)
      /\ \A b \in baks, i \in DOMAIN s :
           b.run = r /\ s[i].content \notin Valid => b.name # s[i].name
  BY <1>2 DEF Unspoilt
<1>7. t = todo'[r]
  BY <1>2
<1> HIDE DEF s, t
<1>8. \A i \in DOMAIN t : i \in Nat /\ i + 1 \in DOMAIN s /\ t[i] = s[i + 1]
  BY <1>5
<1>9. RejectsFresh(t)
  BY <1>6, <1>8 DEF RejectsFresh
<1>10. \A b \in baks, i \in DOMAIN t :
         b.run = r /\ t[i].content \notin Valid => b.name # t[i].name
  BY <1>6, <1>8
<1>11. Unspoilt(r)'
  BY <1>2, <1>7, <1>9, <1>10 DEF Unspoilt
<1> QED BY <1>4, <1>11

LEMMA CleanRest ==
  ASSUME ShapeInv, faults' = 0, NEW r \in Runs, Unspoilt(r), TempAtHand(r),
         \/ BackupDoomed(r) \/ UnlinkDoomed(r)
         \/ RevertEntry(r) \/ RevertEntryFails(r) \/ RevertDone(r)
         \/ Keep(r) \/ CallPrune(r) \/ Revert(r) \/ Unwind(r) \/ DropRest(r)
  PROVE  Unspoilt(r)' /\ TempAtHand(r)'
<1>1. TxnTypeOK /\ ~Fault /\ ~Unsync
  BY Faultless DEF ShapeInv
<1>2. ~RevertEntryFails(r) /\ ~DropRest(r)
  BY <1>1 DEF RevertEntryFails, DropRest, At, Unspoilt
<1>3. /\ temps' = temps /\ alive' = alive /\ alive[r]
      /\ step[r] \in {"dbackup", "unlink", "open", "kept", "abort", "revert", "unwind"}
  BY <1>1, <1>2 DEF BackupDoomed, UnlinkDoomed, RevertEntry, RevertDone, Keep, CallPrune, Prune,
                    Revert, Unwind, At, Undoing, dirVars, Unspoilt
<1>4. \A t \in temps : t[1] # r
  BY <1>3 DEF TempAtHand
<1>5. TempAtHand(r)'
  BY <1>3, <1>4 DEF TempAtHand
<1>6. CASE RevertEntry(r) \/ RevertDone(r)
  <2>1. UNCHANGED <<baks, todo>>
    BY <1>6 DEF RevertEntry, RevertDone, dirVars
  <2>2. \/ step'[r] = step[r]
        \/ step[r] = "abort" /\ step'[r] = "failed"
        \/ step'[r] \in {"reverted", "unwound"}
    BY <1>1, <1>2, <1>3, <1>6 DEF RevertEntry, RevertDone, Undoing, Goto, AfterAll, TxnTypeOK
  <2> QED BY <1>3, <1>5, <2>1, <2>2 DEF Unspoilt, File
<1>7. CASE \/ BackupDoomed(r) \/ UnlinkDoomed(r)
           \/ Keep(r) \/ CallPrune(r) \/ Revert(r) \/ Unwind(r)
  <2>1. step'[r] \in {"unlink", "open", "kept", "pruned", "revert", "unwind"}
    BY <1>1, <1>7 DEF BackupDoomed, UnlinkDoomed, Keep, CallPrune, Prune, Revert, Unwind, Goto,
                      TxnTypeOK
  <2> QED BY <1>5, <2>1 DEF Unspoilt
<1> QED BY <1>2, <1>6, <1>7

LEMMA CleanBegin ==
  ASSUME RejectsOnce, ShapeInv, NEW r \in Runs, Unspoilt(r), TempAtHand(r),
         CallApply(r) \/ CallDelete(r)
  PROVE  /\ Unspoilt(r)' /\ TempAtHand(r)' /\ MovesAlone(r)
         /\ UNCHANGED <<baks, temps, faults>>
<1>1. TxnTypeOK
  BY DEF ShapeInv
<1>2. UNCHANGED <<baks, temps, alive, faults>> /\ alive[r] /\ step[r] = "idle" /\ MovesAlone(r)
  BY <1>1 DEF CallApply, CallDelete, BeginApply, BeginDelete, At, Goto, MovesAlone, dirVars, TxnTypeOK
<1>3. /\ \A t \in temps : t[1] # r
      /\ \A b \in baks : b.run # r
  BY <1>2 DEF TempAtHand, Unspoilt
<1>4. TempAtHand(r)'
  BY <1>2, <1>3 DEF TempAtHand
<1>5. \/ step'[r] = "dread"
      \/ step'[r] = "read" /\ todo'[r] \in WriteSets
  BY <1>1 DEF CallApply, CallDelete, BeginApply, BeginDelete, Goto, TxnTypeOK
<1>6. Unspoilt(r)'
  BY <1>2, <1>3, <1>5 DEF Unspoilt, RejectsOnce
<1> QED BY <1>2, <1>4, <1>6

LEMMA CleanNext ==
  ASSUME RejectsOnce, ShapeInv, CleanInv, [CallerNext]_txnVars
  PROVE  CleanInv'
<1> SUFFICES ASSUME faults' = 0 PROVE \A s \in Runs : Unspoilt(s)' /\ TempAtHand(s)'
  BY DEF CleanInv
<1>1. TxnTypeOK
  BY DEF ShapeInv
<1>2. CASE UNCHANGED txnVars \/ Tick \/ \E r \in Runs : Killed(r)
  <2>1. UNCHANGED <<baks, temps, faults, step, todo>> /\ \A s \in Runs : alive'[s] => alive[s]
    BY <1>1, <1>2 DEF txnVars, dirVars, runVars, Tick, Killed, TxnTypeOK
  <2>2. \A s \in Runs : Unspoilt(s) /\ TempAtHand(s)
    BY <2>1 DEF CleanInv
  <2>3. \A s \in Runs : Unspoilt(s)'
    BY <2>1, <2>2 DEF Unspoilt, File
  <2>4. \A s \in Runs : TempAtHand(s)'
    BY <2>1, <2>2 DEF TempAtHand, Tmp, File
  <2> QED BY <2>3, <2>4
<1>3. ASSUME NEW r \in Runs, CallApply(r) \/ CallDelete(r)
      PROVE  \A s \in Runs : Unspoilt(s)' /\ TempAtHand(s)'
  <2>1. faults = 0
    BY <1>3 DEF CallApply, CallDelete, BeginApply, BeginDelete
  <2>2. \A s \in Runs : Unspoilt(s) /\ TempAtHand(s)
    BY <2>1 DEF CleanInv
  <2>3. Unspoilt(r)' /\ TempAtHand(r)' /\ MovesAlone(r) /\ UNCHANGED <<baks, temps>>
    BY <1>3, <2>2, CleanBegin
  <2>4. \A s \in Runs \ {r} : Unspoilt(s)' /\ TempAtHand(s)'
    BY <2>2, <2>3, CleanOther
  <2> QED BY <2>3, <2>4
<1>4. ASSUME NEW r \in Runs, TxnWork(r)
      PROVE  \A s \in Runs : Unspoilt(s)' /\ TempAtHand(s)'
  <2>1. faults = 0
    BY <1>1, <1>4, Faultless DEF TxnWork, ReadPrior, WriteTmp, CheckTmp, WriteBackup, RenameTmp,
         ReadDoomed, BackupDoomed, UnlinkDoomed, RevertEntry, RevertEntryFails, RevertDone, NoFault
  <2>2. \A s \in Runs : Unspoilt(s) /\ TempAtHand(s)
    BY <2>1 DEF CleanInv
  <2>3. Unspoilt(r)' /\ TempAtHand(r)'
    BY <1>4, <2>2, CleanReads, CleanWriteTmp, CleanCheckTmp, CleanWriteBackup, CleanRenameTmp,
       CleanRest DEF TxnWork
  <2>4. \A s \in Runs \ {r} : Unspoilt(s)' /\ TempAtHand(s)'
    BY <1>1, <1>4, <2>2, CleanOther, WorkOnly, WorkMakes
  <2> QED BY <2>3, <2>4
<1>5. ASSUME NEW r \in Runs,
             Keep(r) \/ CallPrune(r) \/ Revert(r) \/ Unwind(r) \/ DropRest(r)
      PROVE  \A s \in Runs : Unspoilt(s)' /\ TempAtHand(s)'
  <2>1. faults = 0
    BY <1>1, <1>5, Faultless DEF Keep, CallPrune, Prune, Revert, Unwind, DropRest, NoFault
  <2>2. \A s \in Runs : Unspoilt(s) /\ TempAtHand(s)
    BY <2>1 DEF CleanInv
  <2>3. Unspoilt(r)' /\ TempAtHand(r)'
    BY <1>5, <2>2, CleanRest
  <2>4. MovesAlone(r) /\ temps' = temps /\ baks' \subseteq baks
    BY <1>1, <1>5, HoldOnly DEF Keep, CallPrune, Prune, Revert, Unwind, DropRest, dirVars
  <2>5. \A s \in Runs \ {r} : Unspoilt(s)' /\ TempAtHand(s)'
    BY <2>2, <2>4, CleanOther
  <2> QED BY <2>3, <2>5
<1> QED BY <1>2, <1>3, <1>4, <1>5 DEF CallerNext

LEMMA CleanIsClean ==
  ASSUME ShapeInv, CleanInv
  PROVE  EndsClean
<1>1. TxnTypeOK
  BY DEF ShapeInv
<1> SUFFICES ASSUME faults = 0
             PROVE  /\ \A t \in temps : alive[t[1]] =>
                         step[t[1]] \in {"check", "backup", "rename"}
                    /\ \A r \in Runs : step[r] = "failed" /\ todo[r] # <<>>
                         /\ Head(todo[r]).content \notin Valid
                         => ~ \E b \in baks : b.run = r /\ b.name = File(r)
  BY <1>1 DEF EndsClean, NoDebris
<1>2. \A r \in Runs : Unspoilt(r) /\ TempAtHand(r)
  BY DEF CleanInv
<1>3. \A t \in temps : t[1] \in Runs
  BY <1>1 DEF TxnTypeOK
<1>4. \A t \in temps : alive[t[1]] => step[t[1]] \in {"check", "backup", "rename"}
  BY <1>2, <1>3 DEF TempAtHand
<1>5. \A r \in Runs : step[r] = "failed" /\ todo[r] # <<>>
        /\ Head(todo[r]).content \notin Valid
        => ~ \E b \in baks : b.run = r /\ b.name = File(r)
  BY <1>2 DEF Unspoilt
<1> QED BY <1>4, <1>5

\* A run that was not killed leaves no temp file, and a rejected write no
\* backup, as long as no I/O call failed.  The hypothesis is needed: a set that
\* rejects a write of a file it has written before leaves the backup of the
\* first write, which the undo does not take back.
THEOREM CleanHolds ==
  ASSUME RejectsOnce
  PROVE  CallerSpec => []EndsClean
<1>1. TxnInit => CleanInv
  BY DEF TxnInit, CleanInv, Unspoilt, TempAtHand
<1>2. ShapeInv /\ CleanInv /\ [CallerNext]_txnVars => CleanInv'
  BY CleanNext
<1>3. ShapeInv /\ CleanInv => EndsClean
  BY CleanIsClean
<1> QED BY <1>1, <1>2, <1>3, ShapeHolds, PTL DEF CallerSpec

-----------------------------------------------------------------------------
(* What a transaction that ends without having gone through can cost.      *)

LEMMA CostKeeps ==
  ASSUME TxnTypeOK, NEW f \in Nat, faults <= f, NEW S, NEW T \in SUBSET S,
         IsFiniteSet(S), Cardinality(S) <= faults
  PROVE  IsFiniteSet(T) /\ Cardinality(T) <= f
<1>1. IsFiniteSet(T) /\ Cardinality(T) <= Cardinality(S)
  BY FS_Subset
<1>2. Cardinality(S) \in Nat /\ Cardinality(T) \in Nat /\ faults \in Nat
  BY <1>1, FS_CardinalityType, TxnAssumption DEF TxnTypeOK
<1> QED BY <1>1, <1>2

LEMMA CostOne ==
  ASSUME TxnTypeOK, NEW x, NEW S, NEW T \in SUBSET (S \union {x}),
         IsFiniteSet(S), Cardinality(S) <= faults
  PROVE  IsFiniteSet(T) /\ Cardinality(T) <= faults + 1
<1> DEFINE U == S \union {x}
<1>1. IsFiniteSet(U) /\ Cardinality(U) = IF x \in S THEN Cardinality(S) ELSE Cardinality(S) + 1
  BY FS_AddElement
<1>2. IsFiniteSet(T) /\ Cardinality(T) <= Cardinality(U)
  BY <1>1, FS_Subset
<1>3. /\ Cardinality(S) \in Nat /\ Cardinality(T) \in Nat /\ Cardinality(U) \in Nat
      /\ faults \in Nat
  BY <1>1, <1>2, FS_CardinalityType, TxnAssumption DEF TxnTypeOK
<1> HIDE DEF U
<1> QED BY <1>1, <1>2, <1>3

\* Nothing on disk or in the undo list changes.
LEMMA LostSame ==
  ASSUME NEW r \in Runs, live' = live, base' = base, applied'[r] = applied[r]
  PROVE  Lost(r)' = Lost(r)
BY DEF Lost, Restorable

\* One file changes behind the back of the undo list.
LEMMA LostFile ==
  ASSUME NEW r \in Runs, NEW f \in Names, \A n \in Names \ {f} : live'[n] = live[n],
         base' = base, applied'[r] = applied[r]
  PROVE  Lost(r)' \subseteq Lost(r) \union {f}
<1> SUFFICES ASSUME NEW n \in Names \ {f}, Restorable(n, r) PROVE Restorable(n, r)'
  BY DEF Lost
<1> QED BY DEF Restorable

\* What a file held goes on top of the list as the file changes.
LEMMA LostPushed ==
  ASSUME NEW r \in Runs, NEW f \in Names, TxnTypeOK,
         \A n \in Names \ {f} : live'[n] = live[n], base' = base,
         applied'[r] = <<[name |-> f, prior |-> live[f]]>> \o applied[r]
  PROVE  Lost(r)' \subseteq Lost(r)
<1> SUFFICES ASSUME NEW n \in Names, Restorable(n, r) PROVE Restorable(n, r)'
  BY DEF Lost
<1> DEFINE e == [name |-> f, prior |-> live[f]]
           a == applied[r]
<1>0. e \in Undo /\ a \in Seq(Undo) /\ e.name = f /\ e.prior = live[f]
  BY DEF Undo, TxnTypeOK
<1>1. PICK s : s = <<e>> \o a
  OBVIOUS
<1>2. s = applied'[r]
  BY <1>1
<1>3. PICK k \in Nat : k = Len(a)
  BY <1>0
<1>4. /\ DOMAIN a = 1..k /\ DOMAIN s = 1..(k + 1)
      /\ s[1] = e /\ \A i \in 1..k : s[i + 1] = a[i]
  <2> HIDE DEF e, a
  <2> QED BY <1>0, <1>1, <1>3
<1>5. \A j \in DOMAIN s : j # 1 => j - 1 \in DOMAIN a /\ s[j] = a[j - 1]
  <2> SUFFICES ASSUME NEW j \in 1..(k + 1), j # 1
               PROVE  j - 1 \in 1..k /\ s[j] = a[j - 1]
    BY <1>4
  <2>1. j - 1 \in 1..k /\ (j - 1) + 1 = j
    OBVIOUS
  <2> QED BY <1>4, <2>1
<1>6. \A i \in DOMAIN a : i \in Nat /\ i + 1 \in DOMAIN s /\ s[i + 1] = a[i]
  BY <1>4
<1>7. 1 \in DOMAIN s /\ s[1].name = f
  BY <1>0, <1>4
<1> SUFFICES \/ \E i \in DOMAIN s : /\ s[i] = [name |-> n, prior |-> base[n]]
                                    /\ \A j \in DOMAIN s : s[j].name = n => j <= i
             \/ (\A i \in DOMAIN s : s[i].name # n) /\ live'[n] = base[n]
  BY <1>2 DEF Restorable
<1>8. CASE \E i \in DOMAIN a : /\ a[i] = [name |-> n, prior |-> base[n]]
                              /\ \A j \in DOMAIN a : a[j].name = n => j <= i
  <2>1. PICK i \in DOMAIN a : /\ a[i] = [name |-> n, prior |-> base[n]]
                             /\ \A j \in DOMAIN a : a[j].name = n => j <= i
    BY <1>8
  <2> HIDE DEF a, e
  <2>2. \A j \in DOMAIN s : s[j].name = n => j <= i + 1
    <3> SUFFICES ASSUME NEW j \in DOMAIN s, s[j].name = n PROVE j <= i + 1
      OBVIOUS
    <3>1. j \in Nat /\ i \in Nat
      BY <1>4
    <3>2. CASE j = 1
      BY <3>1, <3>2
    <3>3. CASE j # 1
      BY <1>5, <2>1, <3>1, <3>3
    <3> QED BY <3>2, <3>3
  <2> QED BY <1>6, <2>1, <2>2
<1>9. CASE (\A i \in DOMAIN a : a[i].name # n) /\ live[n] = base[n]
  <2>1. CASE n = f
    <3>1. s[1] = [name |-> n, prior |-> base[n]]
      <4>1. e = [name |-> n, prior |-> base[n]]
        BY <1>9, <2>1
      <4> HIDE DEF e
      <4> QED BY <1>4, <4>1
    <3>2. \A j \in DOMAIN s : s[j].name = n => j <= 1
      <4> SUFFICES ASSUME NEW j \in DOMAIN s, j # 1 PROVE s[j].name # n
        BY <1>4
      <4>1. j - 1 \in DOMAIN a /\ s[j] = a[j - 1]
        BY <1>5
      <4> QED BY <1>9, <4>1
    <3> QED BY <1>7, <3>1, <3>2
  <2>2. CASE n # f
    <3>1. \A j \in DOMAIN s : s[j].name # n
      BY <1>5, <1>7, <1>9, <2>2
    <3> QED BY <1>9, <2>2, <3>1
  <2> QED BY <2>1, <2>2
<1> QED BY <1>8, <1>9 DEF Restorable

\* The top entry goes, and its file, if anything, back to what it says.
LEMMA LostPopped ==
  ASSUME NEW r \in Runs, TxnTypeOK, applied[r] # <<>>, base' = base,
         applied'[r] = Tail(applied[r]),
         \A n \in Names \ {Head(applied[r]).name} : live'[n] = live[n]
  PROVE  /\ Lost(r)' \subseteq Lost(r) \union {Head(applied[r]).name}
         /\ live'[Head(applied[r]).name] = Head(applied[r]).prior => Lost(r)' \subseteq Lost(r)
<1> DEFINE a == applied[r]
           f == Head(a).name
<1>1. PICK s : s = Tail(a)
  OBVIOUS
<1>2. s = applied'[r]
  BY <1>1
<1>3. PICK k \in Nat : k = Len(s) /\ k + 1 = Len(a)
  <2>1. Len(a) \in Nat \ {0} /\ Len(s) = Len(a) - 1
    BY <1>1, Entry
  <2> QED BY <2>1
<1>4. /\ DOMAIN a = 1..(k + 1) /\ DOMAIN s = 1..k
      /\ Head(a) = a[1] /\ \A i \in 1..k : s[i] = a[i + 1]
  <2>1. a \in Seq(Undo) /\ s \in Seq(Undo)
    BY <1>1, Entry
  <2>2. DOMAIN a = 1..Len(a) /\ DOMAIN s = 1..Len(s)
    BY <2>1, Items
  <2> QED BY <1>1, <1>3, <2>2, Entry
<1>5. \A j \in DOMAIN s : j \in Nat /\ j + 1 \in DOMAIN a /\ s[j] = a[j + 1]
  BY <1>4
<1>6. \A i \in DOMAIN a : i # 1 => i - 1 \in DOMAIN s /\ s[i - 1] = a[i]
  <2> SUFFICES ASSUME NEW i \in 1..(k + 1), i # 1
               PROVE  i - 1 \in 1..k /\ s[i - 1] = a[i]
    BY <1>4
  <2>1. i - 1 \in 1..k /\ (i - 1) + 1 = i
    OBVIOUS
  <2> QED BY <1>4, <2>1
<1>7. 1 \in DOMAIN a /\ a[1].name = f
  BY <1>4
<1>8. ASSUME NEW n \in Names, Restorable(n, r),
             n # f \/ live'[n] = Head(a).prior
      PROVE  Restorable(n, r)'
  <2> SUFFICES \/ \E i \in DOMAIN s : /\ s[i] = [name |-> n, prior |-> base[n]]
                                      /\ \A j \in DOMAIN s : s[j].name = n => j <= i
               \/ (\A i \in DOMAIN s : s[i].name # n) /\ live'[n] = base[n]
    BY <1>2 DEF Restorable
  <2>1. CASE \E i \in DOMAIN a : /\ a[i] = [name |-> n, prior |-> base[n]]
                                /\ \A j \in DOMAIN a : a[j].name = n => j <= i
    <3>1. PICK i \in DOMAIN a : /\ a[i] = [name |-> n, prior |-> base[n]]
                               /\ \A j \in DOMAIN a : a[j].name = n => j <= i
      BY <2>1
    <3>2. CASE i = 1
      <4>1. n = f /\ Head(a).prior = base[n]
        BY <1>4, <1>7, <3>1, <3>2
      <4>2. \A j \in DOMAIN s : s[j].name # n
        <5> SUFFICES ASSUME NEW j \in DOMAIN s, s[j].name = n PROVE FALSE
          OBVIOUS
        <5>1. j \in Nat /\ j + 1 <= 1 /\ j # 0
          BY <1>4, <1>5, <3>1, <3>2
        <5> QED BY <5>1
      <4> QED BY <1>8, <4>1, <4>2
    <3>3. CASE i # 1
      <4>1. i - 1 \in DOMAIN s /\ s[i - 1] = [name |-> n, prior |-> base[n]] /\ i \in Nat
        BY <1>4, <1>6, <3>1, <3>3
      <4>2. \A j \in DOMAIN s : s[j].name = n => j <= i - 1
        <5> SUFFICES ASSUME NEW j \in DOMAIN s, s[j].name = n PROVE j <= i - 1
          OBVIOUS
        <5>1. j \in Nat /\ j + 1 <= i
          BY <1>5, <3>1
        <5> QED BY <4>1, <5>1
      <4> QED BY <4>1, <4>2
    <3> QED BY <3>2, <3>3
  <2>2. CASE (\A i \in DOMAIN a : a[i].name # n) /\ live[n] = base[n]
    <3>1. n # f
      BY <1>7, <2>2
    <3>2. \A j \in DOMAIN s : s[j].name # n
      BY <1>5, <2>2
    <3> QED BY <2>2, <3>1, <3>2
  <2> QED BY <1>8, <2>1, <2>2 DEF Restorable
<1>9. Lost(r)' \subseteq Lost(r) \union {f}
  BY <1>8 DEF Lost
<1>10. live'[f] = Head(a).prior => Lost(r)' \subseteq Lost(r)
  BY <1>8 DEF Lost
<1> QED BY <1>9, <1>10

LEMMA CostCount ==
  ASSUME ShapeInv, NEW r \in Runs, Costs(r), step[r] \notin {"kept", "pruned"},
         \/ NoFault /\ Lost(r)' \subseteq Lost(r)
         \/ Fault /\ \E x : Lost(r)' \subseteq Lost(r) \union {x}
  PROVE  /\ IsFiniteSet(Lost(r)') /\ Cardinality(Lost(r)') <= faults'
         /\ Fault => faults' = faults + 1
         /\ NoFault => faults' = faults
         /\ faults \in Nat
<1>1. TxnTypeOK /\ faults \in Nat
  BY TxnAssumption DEF ShapeInv, TxnTypeOK
<1>2. IsFiniteSet(Lost(r)) /\ Cardinality(Lost(r)) <= faults
  BY DEF Costs
<1>3. CASE NoFault /\ Lost(r)' \subseteq Lost(r)
  BY <1>1, <1>2, <1>3, CostKeeps DEF NoFault, Fault
<1>4. CASE Fault /\ \E x : Lost(r)' \subseteq Lost(r) \union {x}
  BY <1>1, <1>2, <1>4, CostOne DEF NoFault, Fault
<1> QED BY <1>3, <1>4

\* The steps that touch neither a config file nor the undo list.
LEMMA CostQuiet ==
  ASSUME ShapeInv, NEW r \in Runs, Costs(r),
         \/ ReadPrior(r) \/ WriteTmp(r) \/ CheckTmp(r) \/ WriteBackup(r)
         \/ ReadDoomed(r) \/ BackupDoomed(r) \/ RevertDone(r)
  PROVE  Costs(r)'
<1>1. TxnTypeOK /\ Shape(r)
  BY DEF ShapeInv
<1>2. UNCHANGED <<live, base, applied, todo>> /\ step[r] \notin {"kept", "pruned"}
  BY DEF ReadPrior, WriteTmp, CheckTmp, WriteBackup, ReadDoomed, BackupDoomed, RevertDone,
         dirVars, histVars, At, Undoing
<1>3. Lost(r)' = Lost(r)
  BY <1>2, LostSame
<1>4. NoFault \/ Fault
  BY DEF ReadPrior, WriteTmp, CheckTmp, WriteBackup, ReadDoomed, BackupDoomed, RevertDone, NoFault
<1>5. /\ IsFiniteSet(Lost(r)') /\ Cardinality(Lost(r)') <= faults'
      /\ Fault => faults' = faults + 1
      /\ NoFault => faults' = faults
      /\ faults \in Nat
  BY <1>2, <1>3, <1>4, CostCount
<1>6. File(r)' = File(r)
  BY <1>2 DEF File
<1>7. step'[r] \in {"tmp", "check", "backup", "rename", "dbackup", "unlink"} =>
        prior'[r] = live'[File(r)']
  BY <1>1, <1>2, <1>6 DEF Costs, ReadPrior, WriteTmp, CheckTmp, WriteBackup, ReadDoomed,
     BackupDoomed, RevertDone, At, Undoing, Goto, AfterAll, TxnTypeOK
<1>8. step'[r] \notin {"stuck", "drop"}
  BY <1>1 DEF ReadPrior, WriteTmp, CheckTmp, WriteBackup, ReadDoomed,
     BackupDoomed, RevertDone, Undoing, Goto, AfterAll, TxnTypeOK
<1>9. step'[r] \in {"failed", "reverted"} => applied[r] = <<>>
  BY <1>1 DEF ReadPrior, WriteTmp, CheckTmp, WriteBackup, ReadDoomed, Shape, At,
     BackupDoomed, RevertDone, Undoing, Goto, AfterAll, TxnTypeOK
<1>10. Costs(r)' <=>
         /\ step'[r] \notin {"kept", "pruned"} =>
              IsFiniteSet(Lost(r)') /\ Cardinality(Lost(r)') <= faults'
         /\ step'[r] \in {"tmp", "check", "backup", "rename", "dbackup", "unlink"} =>
              prior'[r] = live'[File(r)']
         /\ step'[r] \in {"stuck", "drop"} => faults' >= 1
         /\ step'[r] = "failed" /\ applied'[r] # <<>> => faults' >= 2
         /\ step'[r] = "reverted" => applied'[r] = <<>>
  BY DEF Costs
<1> QED BY <1>2, <1>5, <1>7, <1>8, <1>9, <1>10

LEMMA CostRenameTmp ==
  ASSUME ShapeInv, NEW r \in Runs, Costs(r), RenameTmp(r)
  PROVE  Costs(r)'
<1>1. TxnTypeOK /\ step[r] = "rename" /\ base' = base
  BY DEF ShapeInv, RenameTmp, At, histVars
<1>2. File(r) \in Names /\ prior[r] = live[File(r)]
  BY <1>1, AtHand DEF Costs
<1>3. step'[r] \in {"open", "read", "abort"}
  BY <1>1 DEF RenameTmp, Goto, TxnTypeOK
<1>4. \A n \in Names \ {File(r)} : live'[n] = live[n]
  BY <1>1 DEF RenameTmp, TxnTypeOK
<1>5. \/ NoFault /\ Lost(r)' \subseteq Lost(r)
      \/ Fault /\ Lost(r)' \subseteq Lost(r) \union {File(r)}
  <2>1. CASE /\ NoFault
             /\ applied' = [applied EXCEPT ![r] = <<[name |-> File(r), prior |-> prior[r]]>> \o @]
    <3>1. applied'[r] = <<[name |-> File(r), prior |-> live[File(r)]]>> \o applied[r]
      BY <1>1, <1>2, <2>1 DEF TxnTypeOK
    <3> QED BY <1>1, <1>2, <1>4, <2>1, <3>1, LostPushed
  <2>2. CASE Fault /\ applied' = applied
    BY <1>1, <1>2, <1>4, <2>2, LostFile
  <2> QED BY <2>1, <2>2 DEF RenameTmp, Unsync
<1>6. IsFiniteSet(Lost(r)') /\ Cardinality(Lost(r)') <= faults'
  BY <1>1, <1>5, CostCount
<1> QED BY <1>3, <1>6 DEF Costs

LEMMA CostUnlinkDoomed ==
  ASSUME ShapeInv, NEW r \in Runs, Costs(r), UnlinkDoomed(r)
  PROVE  Costs(r)'
<1>1. TxnTypeOK /\ Shape(r) /\ step[r] = "unlink" /\ base' = base
  BY DEF ShapeInv, UnlinkDoomed, At, histVars
<1>2. File(r) \in Names /\ prior[r] = live[File(r)] /\ applied[r] = <<>>
  BY <1>1, AtHand DEF Costs, Shape
<1>3. \/ step'[r] = "open"
      \/ step'[r] = "failed" /\ applied'[r] = <<>>
  BY <1>1, <1>2 DEF UnlinkDoomed, Goto, TxnTypeOK
<1>4. \A n \in Names \ {File(r)} : live'[n] = live[n]
  BY <1>1 DEF UnlinkDoomed, TxnTypeOK
<1>5. \/ NoFault /\ Lost(r)' \subseteq Lost(r)
      \/ Fault /\ Lost(r)' \subseteq Lost(r) \union {File(r)}
  <2>1. CASE /\ NoFault
             /\ applied' = [applied EXCEPT ![r] = <<[name |-> File(r), prior |-> prior[r]]>>]
    <3> DEFINE e == [name |-> File(r), prior |-> live[File(r)]]
    <3>1. applied'[r] = <<e>>
      BY <1>1, <1>2, <2>1 DEF TxnTypeOK
    <3>2. <<e>> = <<e>> \o applied[r]
      <4> HIDE DEF e
      <4> QED BY <1>2
    <3>3. applied'[r] = <<e>> \o applied[r]
      BY <3>1, <3>2
    <3> QED BY <1>1, <1>2, <1>4, <2>1, <3>3, LostPushed
  <2>2. CASE Fault /\ applied' = applied
    BY <1>1, <1>2, <1>4, <2>2, LostFile
  <2> QED BY <2>1, <2>2 DEF UnlinkDoomed, Unsync
<1>6. IsFiniteSet(Lost(r)') /\ Cardinality(Lost(r)') <= faults'
  BY <1>1, <1>5, CostCount
<1> QED BY <1>3, <1>6 DEF Costs

LEMMA CostRevert ==
  ASSUME ShapeInv, NEW r \in Runs, Costs(r), RevertEntry(r) \/ RevertEntryFails(r)
  PROVE  Costs(r)'
<1>1. /\ TxnTypeOK /\ base' = base /\ applied[r] # <<>>
      /\ step[r] \in {"abort", "revert", "drop", "unwind"}
  BY DEF ShapeInv, RevertEntry, RevertEntryFails, Undoing, histVars
<1> DEFINE f == Head(applied[r]).name
<1>2. f \in Names
  BY <1>1, Entry
<1>3. applied'[r] = Tail(applied[r])
  BY <1>1 DEF RevertEntry, RevertEntryFails, TxnTypeOK
<1>4. /\ \A n \in Names \ {f} : live'[n] = live[n]
      /\ \/ NoFault /\ live'[f] = Head(applied[r]).prior
         \/ Fault
  BY <1>1, <1>2 DEF RevertEntry, RevertEntryFails, Unsync, TxnTypeOK
<1>5. \/ NoFault /\ Lost(r)' \subseteq Lost(r)
      \/ Fault /\ Lost(r)' \subseteq Lost(r) \union {f}
  BY <1>1, <1>3, <1>4, LostPopped
<1>6. /\ IsFiniteSet(Lost(r)') /\ Cardinality(Lost(r)') <= faults'
      /\ Fault => faults' = faults + 1
      /\ NoFault => faults' = faults
      /\ faults \in Nat
  BY <1>1, <1>5, CostCount
<1>7. CASE RevertEntry(r)
  <2>1. NoFault /\ step' = step
    BY <1>7 DEF RevertEntry
  <2> QED BY <1>1, <1>6, <2>1 DEF Costs
<1>8. CASE RevertEntryFails(r)
  <2>1. Fault /\ step'[r] = AfterError[step[r]]
    BY <1>1, <1>8 DEF RevertEntryFails, Unsync, Goto, TxnTypeOK
  <2>2. \/ step'[r] \in {"stuck", "drop", "unwound"}
        \/ step'[r] = "failed" /\ step[r] = "drop"
    BY <1>1, <2>1 DEF AfterError
  <2>3. step[r] = "drop" => faults >= 1
    BY DEF Costs
  <2>4. faults' >= 1 /\ (step[r] = "drop" => faults' >= 2)
    BY <1>6, <2>1, <2>3
  <2> QED BY <1>6, <2>2, <2>4 DEF Costs
<1> QED BY <1>7, <1>8

LEMMA CostHold ==
  ASSUME ShapeInv, NEW r \in Runs, Costs(r),
         Keep(r) \/ CallPrune(r) \/ Revert(r) \/ Unwind(r) \/ DropRest(r)
  PROVE  Costs(r)'
<1>1. TxnTypeOK
  BY DEF ShapeInv
<1>2. CASE Keep(r) \/ CallPrune(r)
  <2>1. step'[r] \in {"kept", "pruned"}
    BY <1>1, <1>2 DEF Keep, CallPrune, Prune, Goto, TxnTypeOK
  <2> QED BY <2>1 DEF Costs
<1>3. CASE Revert(r) \/ Unwind(r) \/ DropRest(r)
  <2>1. /\ UNCHANGED <<live, base, applied, faults>>
        /\ step[r] \in {"open", "stuck"}
        /\ \/ step'[r] \in {"revert", "unwind"}
           \/ step[r] = "stuck" /\ step'[r] = "drop"
    BY <1>1, <1>3 DEF Revert, Unwind, DropRest, At, Goto, dirVars, histVars, TxnTypeOK
  <2>2. Lost(r)' = Lost(r)
    BY <2>1, LostSame
  <2> QED BY <2>1, <2>2 DEF Costs
<1> QED BY <1>2, <1>3

LEMMA CostBegin ==
  ASSUME ShapeInv, CostInv, ~Concurrent, NEW r \in Runs, CallApply(r) \/ CallDelete(r)
  PROVE  CostInv'
<1>1. TxnTypeOK /\ Shape(r) /\ step[r] = "idle"
  BY DEF ShapeInv, CallApply, CallDelete, BeginApply, BeginDelete, At
<1>2. /\ latest' = r /\ base' = live /\ live' = live /\ applied' = applied /\ alive' = alive
      /\ faults' = faults
      /\ step'[r] \in {"read", "dread"} /\ \A q \in Runs \ {r} : step'[q] = step[q]
  BY <1>1 DEF CallApply, CallDelete, BeginApply, BeginDelete, Goto, dirVars, TxnTypeOK
<1>3. \A q \in Runs : q # latest' => ~InFlight(q)'
  BY <1>2 DEF CallApply, CallDelete, MayBegin, InFlight
<1>4. applied'[r] = <<>>
  BY <1>1, <1>2 DEF Shape
<1>5. Lost(r)' = {}
  BY <1>2, <1>4 DEF Lost, Restorable
<1>6. IsFiniteSet(Lost(r)') /\ Cardinality(Lost(r)') <= faults'
  <2>1. IsFiniteSet(Lost(r)') /\ Cardinality(Lost(r)') = 0
    BY <1>5, FS_EmptySet
  <2>2. faults' \in Nat
    BY <1>1, <1>2, TxnAssumption DEF TxnTypeOK
  <2> QED BY <2>1, <2>2
<1>7. Costs(r)'
  BY <1>2, <1>6 DEF Costs
<1> QED BY <1>2, <1>3, <1>7 DEF CostInv

LEMMA CostMoves ==
  ASSUME ShapeInv, CostInv, NEW r \in Runs, InFlight(r), MovesAlone(r), latest' = latest, Costs(r)'
  PROVE  CostInv'
<1>1. r = latest
  BY DEF CostInv
<1>2. \A q \in Runs \ {r} : ~InFlight(q)'
  BY <1>1 DEF CostInv, MovesAlone, InFlight
<1> QED BY <1>1, <1>2 DEF CostInv

LEMMA CostNext ==
  ASSUME ~Concurrent, ShapeInv, CostInv, [CallerNext]_txnVars
  PROVE  CostInv'
<1>1. TxnTypeOK
  BY DEF ShapeInv
<1>2. CASE UNCHANGED txnVars \/ Tick \/ \E r \in Runs : Killed(r)
  <2>1. UNCHANGED <<live, faults, step, todo, prior, applied, latest, base>>
    BY <1>2 DEF txnVars, dirVars, runVars, histVars, Tick, Killed
  <2>2. \A q \in Runs : alive'[q] => alive[q]
    BY <1>1, <1>2 DEF txnVars, Tick, Killed, TxnTypeOK
  <2>3. \A q \in Runs : q # latest' => ~InFlight(q)'
    BY <2>1, <2>2 DEF CostInv, InFlight
  <2>4. latest' # NoRun => Costs(latest)'
    BY <2>1 DEF CostInv, Costs, Lost, Restorable, File
  <2> QED BY <2>3, <2>4 DEF CostInv
<1>3. ASSUME NEW r \in Runs, CallApply(r) \/ CallDelete(r)
      PROVE  CostInv'
  BY <1>3, CostBegin
<1>4. ASSUME NEW r \in Runs, TxnWork(r)
      PROVE  CostInv'
  <2>1. InFlight(r)
    BY <1>4 DEF TxnWork, InFlight, ReadPrior, WriteTmp, CheckTmp, WriteBackup, RenameTmp,
       ReadDoomed, BackupDoomed, UnlinkDoomed, RevertEntry, RevertEntryFails, RevertDone,
       At, Undoing
  <2>2. Costs(r)
    BY <1>1, <2>1, TxnAssumption DEF CostInv
  <2>3. Costs(r)'
    BY <1>4, <2>2, CostQuiet, CostRenameTmp, CostUnlinkDoomed, CostRevert DEF TxnWork
  <2> QED BY <1>1, <1>4, <2>1, <2>3, WorkOnly, CostMoves
<1>5. ASSUME NEW r \in Runs,
             Keep(r) \/ CallPrune(r) \/ Revert(r) \/ Unwind(r) \/ DropRest(r)
      PROVE  CostInv'
  <2>1. InFlight(r)
    BY <1>5 DEF InFlight, Keep, CallPrune, Prune, Revert, Unwind, DropRest, At
  <2>2. Costs(r)
    BY <1>1, <2>1, TxnAssumption DEF CostInv
  <2>3. Costs(r)'
    BY <1>5, <2>2, CostHold
  <2> QED BY <1>1, <1>5, <2>1, <2>3, HoldOnly, CostMoves
<1> QED BY <1>2, <1>3, <1>4, <1>5 DEF CallerNext

\* What is left of the undo list names at most as many files as it is long.
LEMMA NamesLeft ==
  ASSUME TxnTypeOK, NEW r \in Runs
  PROVE  LET T == {applied[r][i].name : i \in DOMAIN applied[r]}
         IN  IsFiniteSet(T) /\ Cardinality(T) <= Len(applied[r])
<1> DEFINE a == applied[r]
           T == {a[i].name : i \in DOMAIN a}
           f == [i \in 1..Len(a) |-> a[i].name]
<1>1. Len(a) \in Nat /\ DOMAIN a = 1..Len(a)
  BY DEF TxnTypeOK
<1>2. f \in Surjection(1..Len(a), T)
  BY <1>1 DEF Surjection
<1>3. IsFiniteSet(1..Len(a)) /\ Cardinality(1..Len(a)) = Len(a)
  BY <1>1, FS_Interval
<1> HIDE DEF T, f, a
<1>4. IsFiniteSet(T) /\ Cardinality(T) <= Len(a)
  BY <1>2, <1>3, FS_Surjection
<1> QED BY <1>4 DEF T, a

LEMMA CostIsCost ==
  ASSUME ShapeInv, CostInv
  PROVE  FaultsCostOneFileEach
<1> SUFFICES ASSUME NEW r \in Runs, Ended(r), r = latest
             PROVE  /\ Cardinality({n \in Names : live[n] # base[n]}) <= faults + Len(applied[r])
                    /\ applied[r] # <<>> => faults >= 2
  BY DEF FaultsCostOneFileEach
<1>1. TxnTypeOK /\ Costs(r) /\ step[r] \in {"failed", "reverted"}
  BY TxnAssumption DEF ShapeInv, CostInv, Ended
<1>2. IsFiniteSet(Lost(r)) /\ Cardinality(Lost(r)) <= faults
  BY <1>1 DEF Costs
<1> DEFINE T == {applied[r][i].name : i \in DOMAIN applied[r]}
           D == {n \in Names : live[n] # base[n]}
           L == Lost(r)
<1>3. IsFiniteSet(T) /\ Cardinality(T) <= Len(applied[r])
  BY <1>1, NamesLeft
<1>4. D \subseteq L \union T
  <2> SUFFICES ASSUME NEW n \in Names, live[n] # base[n], Restorable(n, r)
               PROVE  n \in T
    BY DEF Lost
  <2>1. \E i \in DOMAIN applied[r] : applied[r][i] = [name |-> n, prior |-> base[n]]
    BY DEF Restorable
  <2> QED BY <2>1
<1>5. Len(applied[r]) \in Nat /\ faults \in Nat
  BY <1>1, TxnAssumption DEF TxnTypeOK
<1>6. applied[r] # <<>> => faults >= 2
  BY <1>1 DEF Costs
<1> HIDE DEF T, D, L
<1>7. IsFiniteSet(L) /\ Cardinality(L) <= faults
  BY <1>2 DEF L
<1>8. /\ IsFiniteSet(L \union T)
      /\ Cardinality(L \union T) = Cardinality(L) + Cardinality(T) - Cardinality(L \cap T)
  BY <1>3, <1>7, FS_Union
<1>9. IsFiniteSet(L \cap T)
  BY <1>7, FS_Intersection
<1>10. IsFiniteSet(D) /\ Cardinality(D) <= Cardinality(L \union T)
  BY <1>4, <1>8, FS_Subset
<1>11. /\ Cardinality(D) \in Nat /\ Cardinality(L) \in Nat /\ Cardinality(T) \in Nat
       /\ Cardinality(L \cap T) \in Nat
  BY <1>3, <1>7, <1>9, <1>10, FS_CardinalityType
<1>12. Cardinality(D) <= faults + Len(applied[r])
  BY <1>3, <1>5, <1>7, <1>8, <1>10, <1>11
<1> QED BY <1>6, <1>12 DEF D

\* With one run at a time a transaction that ends in an error has cost at most
\* a config file per I/O failure, and the entries left after two failed undos:
\* for any write-set, and with unsynced renames and unlinks among the failures.
THEOREM CostHolds ==
  ASSUME ~Concurrent
  PROVE  CallerSpec => []FaultsCostOneFileEach
<1>1. TxnInit => CostInv
  BY DEF TxnInit, CostInv, InFlight
<1>2. ShapeInv /\ CostInv /\ [CallerNext]_txnVars => CostInv'
  BY CostNext
<1>3. ShapeInv /\ CostInv => FaultsCostOneFileEach
  BY CostIsCost
<1> QED BY <1>1, <1>2, <1>3, ShapeHolds, PTL DEF CallerSpec
=============================================================================
