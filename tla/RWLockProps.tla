------------------------------ MODULE RWLockProps ------------------------------
(***************************************************************************)
(* What must hold of the reader-writer lock.                                *)
(***************************************************************************)
EXTENDS RWLock

Places ==
  {Out, Inside, Returning} \union {Signalling(call) : call \in {"wake", "wakeAll"}}
  \union {Asleep(e) : e \in {0, 1}} \union {Resetting(e) : e \in {0, 1}}
  \union {Woken(e, reason) : e \in {0, 1}, reason \in {"wake", "all"}}

At(place, threads) == {t \in threads : at[t].at = place}
Asking(threads) ==
  {t \in threads : at[t].at \in {"asleep", "woken", "resetting", "returning"}}

\* The threads that a condition has counted in for one of its two events.
Sleeping(side, e) ==
  {t \in Threads : Side(t) = side /\ at[t].at \in {"asleep", "woken"} /\ at[t].e = e}

(* Types; the counts of the lock are the numbers of threads that are inside *)
(* and that wait, and the counts of the conditions those that sleep.        *)
TypeOK ==
  /\ at \in [Threads -> Places]
  /\ readersActive = Cardinality(At("inside", Readers))
  /\ writerActive \in BOOLEAN /\ (writerActive <=> At("inside", Writers) # {})
  /\ readersWaiting = Cardinality(Asking(Readers))
  /\ writersWaiting = Cardinality(Asking(Writers))
  /\ \A side \in {"read", "write"}, e \in {0, 1} :
       /\ cond[side].eventID \in {0, 1} /\ cond[side].wake \in BOOLEAN
       /\ cond[side].all[e] \in BOOLEAN
       /\ cond[side].waiters[e] = Cardinality(Sleeping(side, e))

(* A writer is inside alone, whoever was woken for whatever reason, also by *)
(* a stale event (the loops around SleepCS).                                *)
MutualExclusion ==
  \A t, u \in At("inside", Threads) : t \in Writers => t = u

(* The inductive invariant behind it: the two fields that bar threads from  *)
(* entering count the threads that are inside (AcquireLockExclusive,        *)
(* AcquireLockShared, ReleaseLockExclusive, ReleaseLockShared).             *)
CountsInside ==
  /\ readersActive = Cardinality(At("inside", Readers))
  /\ writerActive <=> At("inside", Writers) # {}

LockInv ==
  /\ at = [t \in Threads |-> at[t]] /\ writerActive \in BOOLEAN
  /\ CountsInside /\ MutualExclusion

(* Nothing is under way but threads that sleep and whose events are not set *)
(* - with the lock free, nobody would ever wake them.                       *)
Still == \A t \in Threads :
  \/ at[t] = Out
  \/ at[t].at = "asleep" /\ ~Signalled(cond[Side(t)], at[t].e)

(* A writer that sleeps is woken when the lock is free: the one event that  *)
(* Wake() sets is enough, although two calls set it only once and a thread  *)
(* that gets in between may take the lock first (ReleaseLockShared,         *)
(* ReleaseLockExclusive, Wake).                                             *)
NoWriterForgotten == Still => \A t \in Writers : at[t].at # "asleep"

(* The invariant behind it: while a writer sleeps, some thread is inside    *)
(* and will wake one when it leaves, or another writer is on its way back   *)
(* to the loop, or Wake() is under way, or its event is set.                *)
Attended ==
  \/ At("inside", Threads) # {}
  \/ \E w \in Asking(Writers) : at[w].at # "asleep"
  \/ \E t \in Threads : at[t] = Signalling("wake")
  \/ cond["write"].wake

WriterAttended == At("asleep", Writers) # {} => Attended

(* "Wakes all threads calling SleepCS()" (condition_variable_wrapper.h): a  *)
(* reader that sleeps is woken when the lock is free.                       *)
NoReaderForgotten == Still => \A t \in Readers : at[t].at # "asleep"
=============================================================================
