------------------------------ MODULE ApplyTxn ------------------------------
(***************************************************************************)
(* The transactional write-set of the privileged apply tool,               *)
(* crates/apply/src/txn.rs, as it acts on the config directory.            *)
(*                                                                         *)
(* One run of the tool owns one transaction.  `txn::apply' takes a list of *)
(* writes and performs the steps of `apply_one' for each: capture the      *)
(* prior bytes, write a temp file, have it checked, back the prior up,     *)
(* rename the temp file into place.  `txn::delete' backs the prior up and  *)
(* unlinks.  `revert' restores the captured priors, most recent first.     *)
(* Every call into the file system is a step of its own, so two runs       *)
(* interleave and a process may be killed between any two of them.         *)
(*                                                                         *)
(* A file system call fails in one of two ways.  A plain failure has no    *)
(* effect on the name it was to change, but `write_new' may leave the file *)
(* it created.  An unsynced one is `Dir::rename' or `Dir::unlink' whose    *)
(* system call succeeded and whose directory fsync then did not: the       *)
(* caller sees an error, the directory has changed.                        *)
(***************************************************************************)
EXTENDS Naturals, Sequences, FiniteSets

CONSTANTS
  Names,        \* names of live config files
  Contents,     \* byte strings a config file can hold
  Valid,        \* those `keyd check' accepts
  Absent,       \* no file
  Torn,         \* the bytes of a backup whose write failed midway
  Runs,         \* processes of the tool, told apart by pid
  NoRun,
  Concurrent,   \* may two runs be in flight at once
  UnsyncedIO,   \* may a directory fsync fail after the change was made
  MaxFaults,    \* bound: steps of a behaviour in which an I/O call fails
  MaxClock,     \* bound: the clock, in seconds
  Retain        \* MAX_BACKUPS

ASSUME TxnAssumption ==
  /\ Valid \subseteq Contents
  /\ Absent \notin Contents
  /\ Torn \notin Contents \union {Absent}
  /\ NoRun \notin Runs
  /\ Concurrent \in BOOLEAN
  /\ UnsyncedIO \in BOOLEAN
  /\ MaxFaults \in Nat
  /\ MaxClock \in Nat
  /\ Retain \in Nat \ {0}

VARIABLES
  live,     \* the config files
  temps,    \* temp files: <<run, "tmp" or "rev", name>>
  baks,     \* backups: [name, stamp, run, bytes]
  clock,    \* seconds since the epoch
  faults,   \* steps so far in which an I/O call failed
  step,     \* the next thing run r's transaction does
  alive,    \* FALSE once the process was killed
  todo,     \* writes still to make: [name, content], Absent to delete
  prior,    \* what `dir.read' returned for Head(todo)
  applied,  \* Txn::applied, most recent first: [name, prior]
  stamp,    \* the time in this run's backup names
  latest,   \* history: the run that began most recently
  base      \* history: the config files when it began

dirVars  == <<live, temps, baks>>
runVars  == <<step, todo, prior, applied>>
histVars == <<latest, base>>
txnVars  == <<dirVars, clock, faults, runVars, alive, stamp, histVars>>

Values == Contents \union {Absent}
Write  == [name : Names, content : Values]
Undo   == [name : Names, prior : Values]
Backup == [name : Names, stamp : 0..MaxClock, run : Runs,
           bytes : Contents \union {Torn}]

Steps == {"idle", "read", "tmp", "check", "backup", "rename",  \* apply
          "dread", "dbackup", "unlink",                        \* delete
          "open",                        \* the caller holds the transaction
          "abort", "revert", "unwind",   \* undoing: in apply, asked, on a panic
          "stuck", "drop",               \* an undo met an error; Drop's turn
          "kept", "pruned", "reverted", "failed", "unwound"}

TxnTypeOK ==
  /\ live \in [Names -> Values]
  /\ temps \subseteq Runs \X {"tmp", "rev"} \X Names
  /\ baks \subseteq Backup
  /\ clock \in 0..MaxClock
  /\ faults \in 0..MaxFaults
  /\ step \in [Runs -> Steps]
  /\ alive \in [Runs -> BOOLEAN]
  /\ todo \in [Runs -> Seq(Write)]
  /\ prior \in [Runs -> Values]
  /\ applied \in [Runs -> Seq(Undo)]
  /\ stamp \in [Runs -> 0..MaxClock]
  /\ base \in [Names -> Values]
  /\ latest \in Runs \union {NoRun}

TxnInit ==
  /\ live \in [Names -> Values]
  /\ temps = {}
  /\ baks = {}
  /\ clock = 0
  /\ faults = 0
  /\ step = [r \in Runs |-> "idle"]
  /\ alive = [r \in Runs |-> TRUE]
  /\ todo = [r \in Runs |-> <<>>]
  /\ prior = [r \in Runs |-> Absent]
  /\ applied = [r \in Runs |-> <<>>]
  /\ stamp = [r \in Runs |-> 0]
  /\ base = live
  /\ latest = NoRun

-----------------------------------------------------------------------------
(* Vocabulary of the steps.                                                *)

Goto(r, s) == step' = [step EXCEPT ![r] = s]

At(r, s) == alive[r] /\ step[r] = s

NoFault == UNCHANGED faults
Fault   == faults < MaxFaults /\ faults' = faults + 1
Unsync  == UnsyncedIO /\ Fault

File(r)   == Head(todo[r]).name
Tmp(r)    == <<r, "tmp", File(r)>>
\* write_new opens with O_EXCL: a file of the same name makes it fail.
BakTaken(r) == \E b \in baks : b.name = File(r) /\ b.stamp = stamp[r] /\ b.run = r

\* Mutant: the new bytes are backed up instead of the prior ones.
Bak_NewBytes(r, b) ==
  [name |-> File(r), stamp |-> stamp[r], run |-> r, bytes |-> Head(todo[r]).content]

\* A backup is named after the file, the time of the run and its pid.
Bak(r, b) == [name |-> File(r), stamp |-> stamp[r], run |-> r, bytes |-> b]

\* What the failed write of a backup may leave: nothing, a torn file, or all
\* the bytes without the fsync.
BakDebris(r) == {baks} \union (IF BakTaken(r) THEN {}
                               ELSE {baks \union {Bak(r, Torn)},
                                     baks \union {Bak(r, prior[r])}})

\* The runs that hold a transaction.
InFlight(r) ==
  alive[r] /\ step[r] \notin {"idle", "pruned", "reverted", "failed", "unwound"}

-----------------------------------------------------------------------------
(* txn::apply                                                              *)

\* The caller hands a write-set over.  `s' is the time it read earlier.
BeginApply(r, ops, s) ==
  /\ At(r, "idle")
  /\ Goto(r, "read")
  /\ todo' = [todo EXCEPT ![r] = ops]
  /\ stamp' = [stamp EXCEPT ![r] = s]
  /\ base' = live
  /\ latest' = r
  /\ UNCHANGED <<dirVars, clock, faults, alive, prior, applied>>

\* `dir.read(&op.name)?'
ReadPrior(r) ==
  /\ At(r, "read")
  /\ \/ NoFault /\ Goto(r, "tmp")   /\ prior' = [prior EXCEPT ![r] = live[File(r)]]
     \/ Fault   /\ Goto(r, "abort") /\ UNCHANGED prior
  /\ UNCHANGED <<dirVars, clock, alive, todo, applied, stamp, histVars>>

\* `dir.write_new(&tmp, &op.content)?': a failure may leave the temp file.
WriteTmp(r) ==
  /\ At(r, "tmp")
  /\ \/ NoFault /\ Goto(r, "check") /\ temps' = temps \union {Tmp(r)}
     \/ Fault   /\ Goto(r, "abort") /\ temps' \in {temps, temps \union {Tmp(r)}}
  /\ UNCHANGED <<live, baks, clock, alive, todo, prior, applied, stamp, histVars>>

\* Mutant: a rejected temp file is not unlinked.
CheckTmp_LeavesTmp(r) ==
  /\ At(r, "check")
  /\ Goto(r, IF Head(todo[r]).content \in Valid THEN "backup" ELSE "abort")
  /\ UNCHANGED <<dirVars, clock, faults, alive, todo, prior, applied, stamp, histVars>>

\* `check(&tmp)': a rejected temp file is unlinked, `let _ ='.  A checker that
\* cannot be run rejects as well.
CheckTmp(r) ==
  /\ At(r, "check")
  /\ \/ /\ Head(todo[r]).content \in Valid
        /\ NoFault
        /\ Goto(r, "backup")
        /\ UNCHANGED temps
     \/ /\ Head(todo[r]).content \notin Valid
        /\ NoFault
        /\ Goto(r, "abort")
        /\ temps' = temps \ {Tmp(r)}
     \/ /\ Fault
        /\ Goto(r, "abort")
        /\ temps' \in {temps, temps \ {Tmp(r)}}
  /\ UNCHANGED <<live, baks, clock, alive, todo, prior, applied, stamp, histVars>>

\* The prior bytes go to the timestamped backup, if there was a file.
WriteBackup(r) ==
  /\ At(r, "backup")
  /\ \/ /\ prior[r] = Absent
        /\ NoFault
        /\ Goto(r, "rename")
        /\ UNCHANGED <<temps, baks>>
     \/ /\ prior[r] # Absent
        /\ ~BakTaken(r)
        /\ NoFault
        /\ Goto(r, "rename")
        /\ baks' = baks \union {Bak(r, prior[r])}
        /\ UNCHANGED temps
     \/ /\ prior[r] # Absent
        /\ BakTaken(r)
        /\ NoFault
        /\ Goto(r, "abort")
        /\ temps' = temps \ {Tmp(r)}
        /\ UNCHANGED baks
     \/ /\ prior[r] # Absent
        /\ Fault
        /\ Goto(r, "abort")
        /\ baks' \in BakDebris(r)
        /\ temps' \in {temps, temps \ {Tmp(r)}}
  /\ UNCHANGED <<live, clock, alive, todo, prior, applied, stamp, histVars>>

\* Mutant: an error of the rename drops the backup, as delete's error path does.
RenameTmp_DropsBackup(r) ==
  /\ At(r, "rename")
  /\ \/ /\ NoFault
        /\ live' = [live EXCEPT ![File(r)] = Head(todo[r]).content]
        /\ applied' = [applied EXCEPT
                         ![r] = <<[name |-> File(r), prior |-> prior[r]]>> \o @]
        /\ todo' = [todo EXCEPT ![r] = Tail(@)]
        /\ Goto(r, IF Len(todo[r]) = 1 THEN "open" ELSE "read")
        /\ UNCHANGED baks
     \/ /\ Unsync
        /\ live' = [live EXCEPT ![File(r)] = Head(todo[r]).content]
        /\ baks' = baks \ {Bak(r, prior[r])}
        /\ Goto(r, "abort")
        /\ UNCHANGED <<applied, todo>>
  /\ temps' = temps \ {Tmp(r)}
  /\ UNCHANGED <<clock, alive, prior, stamp, histVars>>

\* `dir.rename(&tmp, &op.name)?', then `applied.push(..)'.  On an error the
\* temp file and the backup stay, and nothing is pushed: when only the fsync
\* failed the new bytes are live and no undo entry knows of them.
RenameTmp(r) ==
  /\ At(r, "rename")
  /\ \/ /\ NoFault
        /\ live' = [live EXCEPT ![File(r)] = Head(todo[r]).content]
        /\ temps' = temps \ {Tmp(r)}
        /\ applied' = [applied EXCEPT
                         ![r] = <<[name |-> File(r), prior |-> prior[r]]>> \o @]
        /\ todo' = [todo EXCEPT ![r] = Tail(@)]
        /\ Goto(r, IF Len(todo[r]) = 1 THEN "open" ELSE "read")
     \/ /\ Fault
        /\ Goto(r, "abort")
        /\ UNCHANGED <<live, temps, applied, todo>>
     \/ /\ Unsync
        /\ live' = [live EXCEPT ![File(r)] = Head(todo[r]).content]
        /\ temps' = temps \ {Tmp(r)}
        /\ Goto(r, "abort")
        /\ UNCHANGED <<applied, todo>>
  /\ UNCHANGED <<baks, clock, alive, prior, stamp, histVars>>

-----------------------------------------------------------------------------
(* txn::delete                                                             *)

BeginDelete(r, n, s) ==
  /\ At(r, "idle")
  /\ Goto(r, "dread")
  /\ todo' = [todo EXCEPT ![r] = <<[name |-> n, content |-> Absent]>>]
  /\ stamp' = [stamp EXCEPT ![r] = s]
  /\ base' = live
  /\ latest' = r
  /\ UNCHANGED <<dirVars, clock, faults, alive, prior, applied>>

\* An absent config is refused: there is nothing to delete.
ReadDoomed(r) ==
  /\ At(r, "dread")
  /\ \/ /\ NoFault
        /\ prior' = [prior EXCEPT ![r] = live[File(r)]]
        /\ Goto(r, IF live[File(r)] = Absent THEN "failed" ELSE "dbackup")
     \/ /\ Fault
        /\ Goto(r, "failed")
        /\ UNCHANGED prior
  /\ UNCHANGED <<dirVars, clock, alive, todo, applied, stamp, histVars>>

BackupDoomed(r) ==
  /\ At(r, "dbackup")
  /\ \/ NoFault /\ Goto(r, "unlink") /\ baks' = baks \union {Bak(r, prior[r])}
     \/ Fault   /\ Goto(r, "failed") /\ baks' \in BakDebris(r)
  /\ UNCHANGED <<live, temps, clock, alive, todo, prior, applied, stamp, histVars>>

\* `if let Err(e) = dir.unlink(name)': any error drops the backup, the one of
\* an unlink that removed the file and only failed to sync included.
UnlinkDoomed(r) ==
  /\ At(r, "unlink")
  /\ \/ /\ NoFault
        /\ live' = [live EXCEPT ![File(r)] = Absent]
        /\ applied' = [applied EXCEPT
                         ![r] = <<[name |-> File(r), prior |-> prior[r]]>>]
        /\ todo' = [todo EXCEPT ![r] = Tail(@)]
        /\ Goto(r, "open")
        /\ UNCHANGED baks
     \/ /\ Fault
        /\ baks' \in {baks, baks \ {Bak(r, prior[r])}}
        /\ Goto(r, "failed")
        /\ UNCHANGED <<live, applied, todo>>
     \/ /\ Unsync
        /\ live' = [live EXCEPT ![File(r)] = Absent]
        /\ baks' \in {baks, baks \ {Bak(r, prior[r])}}
        /\ Goto(r, "failed")
        /\ UNCHANGED <<applied, todo>>
  /\ UNCHANGED <<temps, clock, alive, prior, stamp, histVars>>

-----------------------------------------------------------------------------
(* Txn::revert, which apply's own error path, the caller and Drop call.    *)

Undoing(r) == alive[r] /\ step[r] \in {"abort", "revert", "drop", "unwind"}

\* Mutants: no second pass after an apply that failed; an error of the asked-for
\* revert is swallowed.
AfterError_NoDrop == [abort |-> "failed", revert |-> "stuck", drop |-> "failed",
                      unwind |-> "unwound"]
AfterError_Swallowed == [abort |-> "drop", revert |-> "reverted", drop |-> "failed",
                         unwind |-> "unwound"]

\* Where each of them goes on: after an entry that failed, and at the end.
AfterError == [abort |-> "drop", revert |-> "stuck", drop |-> "failed",
               unwind |-> "unwound"]
AfterAll   == [abort |-> "failed", revert |-> "reverted", drop |-> "failed",
               unwind |-> "unwound"]

\* One entry is popped and its prior put back: rewritten through a temp file
\* and a rename, or unlinked when there was no file.  The temp file's name is
\* free: two entries of one file with prior bytes would need two backups of one
\* name, which apply refuses.
RevertEntry(r) ==
  /\ Undoing(r)
  /\ applied[r] # <<>>
  /\ LET e == Head(applied[r]) IN live' = [live EXCEPT ![e.name] = e.prior]
  /\ applied' = [applied EXCEPT ![r] = Tail(@)]
  /\ NoFault
  /\ UNCHANGED <<temps, baks, clock, alive, step, todo, prior, stamp, histVars>>

\* The entry is popped before the attempt, so a failure loses it.  The call
\* that meets the first error ends; Drop then starts over with what is left.
RevertEntryFails(r) ==
  /\ Undoing(r)
  /\ applied[r] # <<>>
  /\ LET e == Head(applied[r])
         rev == <<r, "rev", e.name>>
     IN \/ /\ Fault
           /\ temps' \in {temps} \union (IF e.prior = Absent THEN {}
                                         ELSE {temps \union {rev}})
           /\ UNCHANGED live
        \/ /\ Unsync
           /\ live' = [live EXCEPT ![e.name] = e.prior]
           /\ UNCHANGED temps
  /\ applied' = [applied EXCEPT ![r] = Tail(@)]
  /\ Goto(r, AfterError[step[r]])
  /\ UNCHANGED <<baks, clock, alive, todo, prior, stamp, histVars>>

RevertDone(r) ==
  /\ Undoing(r)
  /\ applied[r] = <<>>
  /\ Goto(r, AfterAll[step[r]])
  /\ UNCHANGED <<dirVars, clock, faults, alive, todo, prior, applied, stamp, histVars>>

-----------------------------------------------------------------------------
(* What the holder of an open transaction may do with it.                  *)

\* Txn::keep
Keep(r) ==
  /\ At(r, "open")
  /\ Goto(r, "kept")
  /\ applied' = [applied EXCEPT ![r] = <<>>]
  /\ UNCHANGED <<dirVars, clock, faults, alive, todo, prior, stamp, histVars>>

Revert(r) ==
  /\ At(r, "open")
  /\ Goto(r, "revert")
  /\ UNCHANGED <<dirVars, clock, faults, alive, todo, prior, applied, stamp, histVars>>

\* The transaction goes out of scope un-kept, and Drop reverts it: on an
\* unwind the whole of it, once the caller has seen revert fail the rest.
Unwind(r) ==
  /\ At(r, "open")
  /\ Goto(r, "unwind")
  /\ UNCHANGED <<dirVars, clock, faults, alive, todo, prior, applied, stamp, histVars>>

DropRest(r) ==
  /\ At(r, "stuck")
  /\ Goto(r, "drop")
  /\ UNCHANGED <<dirVars, clock, faults, alive, todo, prior, applied, stamp, histVars>>

\* Mutant: all backups count, not those of `name'.
Surplus_AnyConfig(n, doomed) ==
  /\ doomed \subseteq baks
  /\ Cardinality(baks) > Retain
  /\ Cardinality(doomed) = Cardinality(baks) - Retain
  /\ \A d \in doomed, b \in baks \ doomed : d.stamp <= b.stamp

\* What prune_backups(name, Retain) may select: the backups of `name' beyond
\* the Retain newest by stamp; equal stamps sort in directory order.
Surplus(n, doomed) ==
  LET mine == {b \in baks : b.name = n}
      rest == mine \ doomed
  IN /\ doomed \subseteq mine
     /\ Cardinality(doomed) =
          (IF Cardinality(mine) > Retain THEN Cardinality(mine) - Retain ELSE 0)
     /\ \A d \in doomed, b \in rest : d.stamp <= b.stamp

\* After a keep.  Every unlink may fail, and that is swallowed.
Prune(r, n) ==
  /\ At(r, "kept")
  /\ \E doomed \in SUBSET baks :
       /\ Surplus(n, doomed)
       /\ \/ NoFault /\ baks' = baks \ doomed
          \/ Fault   /\ \E spared \in (SUBSET doomed) \ {{}} :
                          baks' = baks \ (doomed \ spared)
  /\ Goto(r, "pruned")
  /\ UNCHANGED <<live, temps, clock, alive, todo, prior, applied, stamp, histVars>>

\* The process is killed: SIGKILL, or the machine goes down.  What it held in
\* memory is gone; no step reads it again.
Killed(r) ==
  /\ InFlight(r)
  /\ alive' = [alive EXCEPT ![r] = FALSE]
  /\ UNCHANGED <<dirVars, clock, faults, runVars, stamp, histVars>>

Tick ==
  /\ clock < MaxClock
  /\ clock' = clock + 1
  /\ UNCHANGED <<dirVars, faults, runVars, alive, stamp, histVars>>

\* The steps a transaction takes by itself.
TxnWork(r) ==
  \/ ReadPrior(r) \/ WriteTmp(r) \/ CheckTmp(r) \/ WriteBackup(r) \/ RenameTmp(r)
  \/ ReadDoomed(r) \/ BackupDoomed(r) \/ UnlinkDoomed(r)
  \/ RevertEntry(r) \/ RevertEntryFails(r) \/ RevertDone(r)

-----------------------------------------------------------------------------
\* Pruning can cost a fresh backup only when another has its very stamp.
TiedPrune(r) ==
  step[r] = "pruned" /\ \E b \in baks : b.run # r /\ b.stamp >= stamp[r]

\* At every moment, and after a kill at any moment, a config file that is not
\* what the last transaction found has its old bytes, whole, in a backup.
Recoverable ==
  latest # NoRun =>
    \A n \in Names :
      base[n] \notin {live[n], Absent} =>
        \/ \E b \in baks : b.name = n /\ b.bytes = base[n]
        \/ TiedPrune(latest)

=============================================================================
