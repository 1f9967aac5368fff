------------------------------ MODULE WriteSet ------------------------------
(***************************************************************************)
(* The transactions of ApplyTxn in the hands of an arbitrary caller: any   *)
(* write-set, kept, reverted or dropped.  txn.rs takes a list of writes;   *)
(* the tool passes one, so what a longer list does is checked here.        *)
(***************************************************************************)
EXTENDS ApplyTxn

CONSTANT WriteSets   \* the write-sets callers pass to txn::apply

ASSUME WriteSetAssumption ==
  WriteSets \subseteq Seq([name : Names, content : Contents]) \ {<<>>}

MayBegin(r) == Concurrent \/ \A q \in Runs : ~InFlight(q)

CallApply(r)  == MayBegin(r) /\ \E ops \in WriteSets : BeginApply(r, ops, clock)
CallDelete(r) == MayBegin(r) /\ \E n \in Names : BeginDelete(r, n, clock)
CallPrune(r)  == \E n \in Names : Prune(r, n)

CallerNext ==
  \/ \E r \in Runs :
       \/ CallApply(r) \/ CallDelete(r)
       \/ TxnWork(r)
       \/ Keep(r) \/ CallPrune(r) \/ Revert(r) \/ Unwind(r) \/ DropRest(r)
       \/ Killed(r)
  \/ Tick

CallerSpec == TxnInit /\ [][CallerNext]_txnVars

-----------------------------------------------------------------------------
(* Properties.  They are about one transaction at a time: `latest' is the  *)
(* one that began last.                                                    *)

Ended(r) == alive[r] /\ step[r] \in {"failed", "reverted"}

\* A transaction that did not go through leaves the config files as it found
\* them, "Any failure reverts everything already applied" (txn::apply), but for
\* one file per I/O failure met and, once Drop's second pass has failed as well,
\* the files that pass did not come to.  Drop is what gets back the files below
\* the first undo that fails.
FaultsCostOneFileEach ==
  \A r \in Runs : Ended(r) /\ r = latest =>
    /\ Cardinality({n \in Names : live[n] # base[n]}) <= faults + Len(applied[r])
    /\ applied[r] # <<>> => faults >= 2

\* As long as no I/O failed, a temp file belongs to a run at work on it or to
\* one that was killed, and "a config the checker rejects must leave zero
\* debris, not an orphan backup" (apply_one).
NoDebris ==
  faults = 0 =>
    /\ \A t \in temps : alive[t[1]] => step[t[1]] \in {"check", "backup", "rename"}
    /\ \A r \in Runs :
         /\ step[r] = "failed"
         /\ todo[r] # <<>>
         /\ Head(todo[r]).content \notin Valid
         => ~ \E b \in baks : b.run = r /\ b.name = File(r)

\* The transaction never takes the head of an empty list, nor leaves debris.
EndsClean == TxnTypeOK /\ NoDebris

\* A backup goes away only with the failed delete that took it or when
\* Retain others of its config, none older, stay: prune never reaches into the
\* newest Retain, nor into the backups of another config.
OnlySurplus ==
  \A b \in baks \ baks' :
    \/ step[b.run] = "unlink"
    \/ Cardinality({c \in baks' : c.name = b.name /\ c.stamp >= b.stamp}) >= Retain

OnlySurplusPruned == [][OnlySurplus]_txnVars

-----------------------------------------------------------------------------
(* The inductive invariants.                                               *)

\* What the write-set and the undo list look like at each step.
Shape(r) ==
  /\ step[r] = "idle" => todo[r] = <<>> /\ applied[r] = <<>>
  /\ step[r] \in {"read", "tmp", "check", "backup", "rename"} =>
       /\ todo[r] # <<>>
       /\ \A i \in DOMAIN todo[r] : todo[r][i].content \in Contents
  /\ step[r] \in {"dread", "dbackup", "unlink"} =>
       /\ Len(todo[r]) = 1
       /\ Head(todo[r]).content = Absent
       /\ applied[r] = <<>>
  /\ step[r] \in {"dbackup", "unlink"} => prior[r] # Absent
  /\ step[r] \in {"backup", "rename"} => Head(todo[r]).content \in Valid

ShapeInv == TxnTypeOK /\ \A r \in Runs : Shape(r)

\* A write that will be rejected is not of a file the set wrote before.
RejectsFresh(ops) ==
  \A i, j \in DOMAIN ops :
    i < j /\ ops[j].content \notin Valid => ops[i].name # ops[j].name

\* No backup of a file whose write is still to be rejected.
Unspoilt(r) ==
  /\ step[r] \in {"idle", "dread"} => \A b \in baks : b.run # r
  /\ step[r] \in {"read", "tmp", "check", "backup", "rename"} =>
       /\ RejectsFresh(todo[r])
       /\ \A b \in baks, i \in DOMAIN todo[r] :
            b.run = r /\ todo[r][i].content \notin Valid => b.name # todo[r][i].name
  /\ step[r] \in {"abort", "failed"} =>
       (todo[r] # <<>> /\ Head(todo[r]).content \notin Valid =>
          \A b \in baks : b.run = r => b.name # File(r))
  /\ step[r] \notin {"stuck", "drop"}

\* A run that lives has at most the temp file of the write at hand.
TempAtHand(r) ==
  \A t \in temps : t[1] = r /\ alive[r] =>
    step[r] \in {"check", "backup", "rename"} /\ t = Tmp(r)

CleanInv == faults = 0 => \A r \in Runs : Unspoilt(r) /\ TempAtHand(r)

\* Undoing all of applied[r], the oldest entry of a file last, would give file
\* n what the transaction found.
Restorable(n, r) ==
  \/ \E i \in DOMAIN applied[r] :
       /\ applied[r][i] = [name |-> n, prior |-> base[n]]
       /\ \A j \in DOMAIN applied[r] : applied[r][j].name = n => j <= i
  \/ /\ \A i \in DOMAIN applied[r] : applied[r][i].name # n
     /\ live[n] = base[n]

Lost(r) == {n \in Names : ~Restorable(n, r)}

\* Until it is kept, the latest transaction has lost one file per failure.
Costs(r) ==
  /\ step[r] \notin {"kept", "pruned"} =>
       IsFiniteSet(Lost(r)) /\ Cardinality(Lost(r)) <= faults
  /\ step[r] \in {"tmp", "check", "backup", "rename", "dbackup", "unlink"} =>
       prior[r] = live[File(r)]
  /\ step[r] \in {"stuck", "drop"} => faults >= 1
  /\ step[r] = "failed" /\ applied[r] # <<>> => faults >= 2
  /\ step[r] = "reverted" => applied[r] = <<>>

CostInv ==
  /\ \A r \in Runs : r # latest => ~InFlight(r)
  /\ latest # NoRun => Costs(latest)

=============================================================================
