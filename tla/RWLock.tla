-------------------------------- MODULE RWLock --------------------------------
(***************************************************************************)
(* RWLockGeneric (webrtc/system_wrappers/source/rw_lock_generic.cc) on two  *)
(* ConditionVariableEventWin.  critical_section_ guards the object; SleepCS *)
(* lets go of it, and takes it again only after it has counted itself out   *)
(* and, as the last thread of a WakeAll(), reset the event.                 *)
(*                                                                          *)
(* A thread that is "asleep" has let go of critical_section_ and may not    *)
(* have reached WaitForMultipleObjects yet; when it has, an event that is   *)
(* set lets it go at once, which is WaitReturns directly after Signal.      *)
(***************************************************************************)
EXTENDS EventCondVar, FiniteSets

CONSTANTS Readers, Writers

ASSUME ThreadsAssumption ==
  Readers \intersect Writers = {} /\ IsFiniteSet(Readers) /\ IsFiniteSet(Writers)

Threads == Readers \union Writers
Side(t) == IF t \in Readers THEN "read" ELSE "write"

VARIABLES
  readersActive, writerActive, readersWaiting, writersWaiting,
  cond,      \* read_condition_ and write_condition_
  at         \* where each thread is

counts == <<readersActive, writerActive, readersWaiting, writersWaiting>>
vars == <<counts, cond, at>>

Out == [at |-> "out"]                \* not in the lock, nor asking for it
Inside == [at |-> "inside"]          \* between acquiring and releasing
Asleep(e) == [at |-> "asleep", e |-> e]
Woken(e, reason) == [at |-> "woken", e |-> e, reason |-> reason]
Resetting(e) == [at |-> "resetting", e |-> e]
Returning == [at |-> "returning"]    \* in SleepCS, waiting for critical_section_
Signalling(call) == [at |-> "signalling", call |-> call]

\* A thread keeps critical_section_ over more than one step only to signal.
SectionFree == \A t \in Threads : at[t].at # "signalling"

Go(t, place) == at' = [at EXCEPT ![t] = place]

SleepCS(t) ==
  /\ Go(t, Asleep(EventToWaitFor(cond[Side(t)])))
  /\ cond' = [cond EXCEPT ![Side(t)] = CountIn(@)]

(***************************************************************************)
(* Acquiring                                                                *)
(***************************************************************************)
Barred(t) ==
  IF t \in Writers THEN writerActive \/ readersActive > 0
  ELSE writerActive \/ writersWaiting > 0

Take(t) ==
  /\ writerActive' = (writerActive \/ t \in Writers)
  /\ readersActive' = IF t \in Readers THEN readersActive + 1 ELSE readersActive
  /\ Go(t, Inside)
  /\ UNCHANGED cond

Waits(t, n) ==
  /\ readersWaiting' = IF t \in Readers THEN readersWaiting + n ELSE readersWaiting
  /\ writersWaiting' = IF t \in Writers THEN writersWaiting + n ELSE writersWaiting

Acquire(t) ==
  /\ at[t] = Out /\ SectionFree
  /\ IF Barred(t)
     THEN Waits(t, 1) /\ SleepCS(t) /\ UNCHANGED <<readersActive, writerActive>>
     ELSE Take(t) /\ UNCHANGED <<readersWaiting, writersWaiting>>

\* Mutant: the condition is not looked at again after SleepCS.
WakeUp_NoLoop(t) ==
  /\ at[t] = Returning /\ SectionFree
  /\ Take(t) /\ Waits(t, -1)

\* Back from SleepCS with critical_section_: the loop looks again.
WakeUp(t) ==
  /\ at[t] = Returning /\ SectionFree
  /\ IF Barred(t)
     THEN SleepCS(t) /\ UNCHANGED counts
     ELSE Take(t) /\ Waits(t, -1)

(***************************************************************************)
(* SleepCS without critical_section_                                        *)
(***************************************************************************)
WaitReturns(t) ==
  /\ at[t].at = "asleep"
  /\ Signalled(cond[Side(t)], at[t].e)
  /\ Go(t, Woken(at[t].e, Reason(cond[Side(t)])))
  /\ cond' = [cond EXCEPT ![Side(t)] = Return(@)]
  /\ UNCHANGED counts

CountsOut(t) ==
  LET e == at[t].e
      last == LastWaiter(cond[Side(t)], e, at[t].reason)
  IN  /\ at[t].at = "woken"
      /\ Go(t, IF last THEN Resetting(e) ELSE Returning)
      /\ cond' = [cond EXCEPT ![Side(t)] = CountOut(@, e)]
      /\ UNCHANGED counts

Resets(t) ==
  /\ at[t].at = "resetting"
  /\ Go(t, Returning)
  /\ cond' = [cond EXCEPT ![Side(t)] = ResetEvent(@, at[t].e)]
  /\ UNCHANGED counts

(***************************************************************************)
(* Releasing                                                                *)
(***************************************************************************)
\* The call on a condition that a release makes: it reads the counts first.
CallWake(t, side) ==
  /\ Go(t, IF HasWaiters(cond[side]) THEN Signalling("wake") ELSE Out)
  /\ UNCHANGED cond

CallWakeAll(t) ==
  LET c == Turn(cond["read"])
  IN  /\ cond' = [cond EXCEPT !["read"] = c]
      /\ Go(t, IF c.waiters[c.eventID] > 0 THEN Signalling("wakeAll") ELSE Out)

ReleaseLockExclusive(t) ==
  /\ t \in Writers /\ at[t] = Inside /\ SectionFree
  /\ writerActive' = FALSE
  /\ IF writersWaiting > 0 THEN CallWake(t, "write")
     ELSE IF readersWaiting > 0 THEN CallWakeAll(t)
     ELSE Go(t, Out) /\ UNCHANGED cond
  /\ UNCHANGED <<readersActive, readersWaiting, writersWaiting>>

\* Mutant: only a reader that leaves alone wakes a writer, one count too early.
ReleaseLockShared_OffByOne(t) ==
  /\ t \in Readers /\ at[t] = Inside /\ SectionFree
  /\ readersActive' = readersActive - 1
  /\ IF readersActive' = 1 /\ writersWaiting > 0 THEN CallWake(t, "write")
     ELSE Go(t, Out) /\ UNCHANGED cond
  /\ UNCHANGED <<writerActive, readersWaiting, writersWaiting>>

ReleaseLockShared(t) ==
  /\ t \in Readers /\ at[t] = Inside /\ SectionFree
  /\ readersActive' = readersActive - 1
  /\ IF readersActive' = 0 /\ writersWaiting > 0 THEN CallWake(t, "write")
     ELSE Go(t, Out) /\ UNCHANGED cond
  /\ UNCHANGED <<writerActive, readersWaiting, writersWaiting>>

\* SetEvent, after which the release gives critical_section_ back.
Signal(t) ==
  /\ at[t].at = "signalling"
  /\ cond' = IF at[t].call = "wakeAll"
             THEN [cond EXCEPT !["read"] = SetAll(@, @.eventID)]
             ELSE [cond EXCEPT !["write"] = SetWake(@)]
  /\ Go(t, Out)
  /\ UNCHANGED counts

Init ==
  /\ readersActive = 0 /\ writerActive = FALSE
  /\ readersWaiting = 0 /\ writersWaiting = 0
  /\ cond = [side \in {"read", "write"} |-> New]
  /\ at = [t \in Threads |-> Out]

Step(t) ==
  \/ Acquire(t) \/ WakeUp(t)
  \/ WaitReturns(t) \/ CountsOut(t) \/ Resets(t)
  \/ ReleaseLockExclusive(t) \/ ReleaseLockShared(t) \/ Signal(t)

Next == \E t \in Threads : Step(t)

Spec == Init /\ [][Next]_vars
=============================================================================
