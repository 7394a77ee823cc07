----------------------------- MODULE RWLockProofs -----------------------------
(***************************************************************************)
(* The reader-writer lock excludes, for any number of threads and whatever  *)
(* the condition variables do.  Each step lets one thread enter, lets one   *)
(* leave, or moves one that is not inside; the first lemmas are about those.*)
(* The second part follows the condition variables: who waits, who was      *)
(* woken, and who will see to a writer that sleeps while the lock is free.  *)
(***************************************************************************)
EXTENDS RWLockProps, FiniteSetTheorems, TLAPS

(* A thread that moves outside changes nothing that bars others.            *)
LEMMA StaysOutside ==
  ASSUME LockInv, NEW t \in Threads, at[t].at # "inside",
         NEW place, place.at # "inside", Go(t, place),
         UNCHANGED <<readersActive, writerActive>>
  PROVE  LockInv'
<1>1. /\ at' = [u \in Threads |-> at'[u]]
      /\ \A u \in Threads : at'[u].at = "inside" <=> at[u].at = "inside"
  BY DEF LockInv, Go
<1>2. \A S \in SUBSET Threads : At("inside", S)' = At("inside", S)
  BY <1>1 DEF At
<1>3. /\ At("inside", Readers)' = At("inside", Readers)
      /\ At("inside", Writers)' = At("inside", Writers)
      /\ At("inside", Threads)' = At("inside", Threads)
  BY <1>2 DEF Threads
<1> QED BY <1>1, <1>3 DEF LockInv, CountsInside, MutualExclusion

(* A thread enters only where its guard finds no one it must not meet.      *)
LEMMA Enters ==
  ASSUME LockInv, NEW t \in Threads, at[t].at # "inside", ~Barred(t), Take(t)
  PROVE  LockInv'
<1>1. /\ at' = [u \in Threads |-> at'[u]] /\ writerActive' \in BOOLEAN
      /\ \A u \in Threads : at'[u].at = "inside" <=> at[u].at = "inside" \/ u = t
  BY DEF LockInv, Take, Go, Inside
<1>2. /\ IsFiniteSet(At("inside", Readers))
      /\ Cardinality(At("inside", Readers)) \in Nat
  BY ThreadsAssumption, FS_Subset, FS_CardinalityType DEF At
<1>3. At("inside", Writers) = {}
  BY DEF LockInv, CountsInside, Barred
<1>4. CASE t \in Readers
  <2>1. t \notin Writers
    BY <1>4, ThreadsAssumption
  <2>2. At("inside", Readers)' = At("inside", Readers) \union {t}
    BY <1>1, <1>4 DEF At, Threads
  <2>3. t \notin At("inside", Readers)
    BY DEF At
  <2>4. At("inside", Writers)' = {}
    BY <1>1, <1>3, <2>1 DEF At, Threads
  <2>5. CountsInside'
    <3>1. readersActive' = Cardinality(At("inside", Readers)')
      BY <1>2, <1>4, <2>2, <2>3, FS_AddElement DEF LockInv, CountsInside, Take
    <3>2. writerActive' <=> writerActive
      BY <2>1 DEF Take
    <3> QED BY <1>3, <2>4, <3>1, <3>2 DEF LockInv, CountsInside
  <2>6. MutualExclusion'
    BY <2>4 DEF MutualExclusion, At, Threads
  <2> QED BY <1>1, <2>5, <2>6 DEF LockInv
<1>5. CASE t \in Writers
  <2>1. t \notin Readers
    BY <1>5, ThreadsAssumption
  <2>2. At("inside", Readers) = {}
    <3>1. Cardinality(At("inside", Readers)) = 0
      BY <1>2, <1>5 DEF LockInv, CountsInside, Barred
    <3> QED BY <1>2, <3>1, FS_EmptySet
  <2>3. At("inside", Readers)' = {} /\ At("inside", Writers)' = {t}
    BY <1>1, <1>3, <1>5, <2>1, <2>2 DEF At, Threads
  <2>4. CountsInside'
    BY <1>5, <2>1, <2>2, <2>3 DEF LockInv, CountsInside, Take
  <2>5. MutualExclusion'
    BY <2>3 DEF MutualExclusion, At, Threads
  <2> QED BY <1>1, <2>4, <2>5 DEF LockInv
<1> QED BY <1>4, <1>5 DEF Threads

(* A thread that leaves takes its own count back, and no one else's.        *)
LEMMA Leaves ==
  ASSUME LockInv, NEW t \in Threads, at[t] = Inside,
         NEW place, place.at # "inside", Go(t, place),
         IF t \in Readers
         THEN readersActive' = readersActive - 1 /\ writerActive' = writerActive
         ELSE readersActive' = readersActive /\ writerActive' = FALSE
  PROVE  LockInv'
<1>1. /\ at' = [u \in Threads |-> at'[u]]
      /\ \A u \in Threads : at'[u].at = "inside" <=> at[u].at = "inside" /\ u # t
  BY DEF LockInv, Go
<1>2. IsFiniteSet(At("inside", Readers))
  BY ThreadsAssumption, FS_Subset DEF At
<1>3. t \in At("inside", Threads)
  BY DEF At, Inside
<1>4. MutualExclusion'
  BY <1>1 DEF LockInv, MutualExclusion, At
<1>5. CASE t \in Readers
  <2>1. t \notin Writers /\ t \in At("inside", Readers)
    BY <1>3, <1>5, ThreadsAssumption DEF At
  <2>2. /\ At("inside", Readers)' = At("inside", Readers) \ {t}
        /\ At("inside", Writers)' = At("inside", Writers)
    BY <1>1, <2>1 DEF At, Threads
  <2>3. CountsInside'
    BY <1>2, <1>5, <2>1, <2>2, FS_RemoveElement DEF LockInv, CountsInside
  <2> QED BY <1>1, <1>4, <2>3 DEF LockInv
<1>6. CASE t \notin Readers
  <2>1. t \in Writers
    BY <1>6 DEF Threads
  <2>2. At("inside", Readers)' = At("inside", Readers)
    BY <1>1, <1>6 DEF At, Threads
  <2>3. At("inside", Writers)' = {}
    BY <1>1, <1>3, <2>1 DEF LockInv, MutualExclusion, At, Threads
  <2>4. CountsInside'
    BY <1>6, <2>2, <2>3 DEF LockInv, CountsInside
  <2> QED BY <1>1, <1>4, <2>4 DEF LockInv
<1> QED BY <1>5, <1>6

(* A call of SleepCS leaves the thread asleep.                              *)
LEMMA SleepsOutside ==
  ASSUME LockInv, NEW t \in Threads, at[t].at # "inside", SleepCS(t),
         UNCHANGED <<readersActive, writerActive>>
  PROVE  LockInv'
<1>1. Asleep(EventToWaitFor(cond[Side(t)])).at # "inside"
  BY DEF Asleep
<1> QED BY <1>1, StaysOutside DEF SleepCS

LEMMA InitLock == Init => LockInv
<1> SUFFICES ASSUME Init PROVE LockInv
  OBVIOUS
<1>1. \A S \in SUBSET Threads : At("inside", S) = {}
  BY DEF Init, At, Out
<1>2. /\ At("inside", Readers) = {}
      /\ At("inside", Writers) = {}
      /\ At("inside", Threads) = {}
  BY <1>1 DEF Threads
<1> QED BY <1>2, FS_EmptySet DEF Init, LockInv, CountsInside, MutualExclusion

(* Every step of every thread keeps the counts and the exclusion.           *)
LEMMA StepKeepsLock ==
  ASSUME LockInv, NEW t \in Threads, Step(t)
  PROVE  LockInv'
<1> USE DEF counts
<1>1. CASE Acquire(t)
  <2>1. at[t].at # "inside"
    BY <1>1 DEF Acquire, Out
  <2> QED BY <1>1, <2>1, SleepsOutside, Enters DEF Acquire
<1>2. CASE WakeUp(t)
  <2>1. at[t].at # "inside"
    BY <1>2 DEF WakeUp, Returning
  <2> QED BY <1>2, <2>1, SleepsOutside, Enters DEF WakeUp
<1>3. CASE WaitReturns(t)
  <2> DEFINE place == Woken(at[t].e, Reason(cond[Side(t)]))
  <2>1. place.at # "inside"
    BY DEF Woken
  <2>2. at[t].at # "inside" /\ Go(t, place)
    BY <1>3 DEF WaitReturns
  <2> HIDE DEF place
  <2> QED BY <1>3, <2>1, <2>2, StaysOutside DEF WaitReturns
<1>4. CASE CountsOut(t)
  <2> DEFINE e == at[t].e
             place == IF LastWaiter(cond[Side(t)], e, at[t].reason)
                      THEN Resetting(e) ELSE Returning
  <2>1. place.at # "inside"
    BY DEF Resetting, Returning
  <2>2. at[t].at # "inside" /\ Go(t, place)
    BY <1>4 DEF CountsOut
  <2> HIDE DEF place
  <2> QED BY <1>4, <2>1, <2>2, StaysOutside DEF CountsOut
<1>5. CASE Resets(t)
  <2>1. Returning.at # "inside"
    BY DEF Returning
  <2> QED BY <1>5, <2>1, StaysOutside DEF Resets
<1>6. CASE ReleaseLockExclusive(t)
  <2>1. \E place : place.at # "inside" /\ Go(t, place)
    BY <1>6 DEF ReleaseLockExclusive, CallWake, CallWakeAll, Signalling, Out
  <2>2. t \notin Readers
    BY <1>6, ThreadsAssumption DEF ReleaseLockExclusive
  <2> QED BY <1>6, <2>1, <2>2, Leaves DEF ReleaseLockExclusive
<1>7. CASE ReleaseLockShared(t)
  <2>1. \E place : place.at # "inside" /\ Go(t, place)
    BY <1>7 DEF ReleaseLockShared, CallWake, Signalling, Out
  <2> QED BY <1>7, <2>1, Leaves DEF ReleaseLockShared
<1>8. CASE Signal(t)
  <2>1. Out.at # "inside" /\ at[t].at # "inside"
    BY <1>8 DEF Signal, Out
  <2> QED BY <1>8, <2>1, StaysOutside DEF Signal
<1> QED BY <1>1, <1>2, <1>3, <1>4, <1>5, <1>6, <1>7, <1>8 DEF Step

(* The counts of the lock always are the numbers of threads inside, and a   *)
(* writer is inside alone.                                                  *)
THEOREM LockInvariant == Spec => []LockInv
<1>1. LockInv /\ [Next]_vars => LockInv'
  <2>1. CASE Next
    BY <2>1, StepKeepsLock DEF Next
  <2>2. CASE UNCHANGED vars
    BY <2>2 DEF vars, counts, LockInv, CountsInside, MutualExclusion, At
  <2> QED BY <2>1, <2>2
<1> QED BY <1>1, InitLock, PTL DEF Spec

(* The lock excludes (RWLockGeneric), whichever threads the events wake and *)
(* however many there are.                                                  *)
THEOREM Exclusion == Spec => []MutualExclusion
<1>1. LockInv => MutualExclusion
  BY DEF LockInv
<1> QED BY <1>1, LockInvariant, PTL

(***************************************************************************)
(* Who waits                                                                *)
(***************************************************************************)
Sides == {"read", "write"}
Condition ==
  [eventID : {0, 1}, waiters : [{0, 1} -> Int], all : [{0, 1} -> BOOLEAN], wake : BOOLEAN]
AsleepAt(place, e) == place.at \in {"asleep", "woken"} /\ place.e = e
Asks(place) == place.at \in {"asleep", "woken", "resetting", "returning"}

(* The counts of waiting threads are right, on both sides and both events.  *)
WaitersCounted ==
  /\ readersWaiting = Cardinality(Asking(Readers))
  /\ writersWaiting = Cardinality(Asking(Writers))
  /\ \A side \in Sides, e \in {0, 1} : cond[side].waiters[e] = Cardinality(Sleeping(side, e))

WaitInv ==
  /\ at \in [Threads -> Places]
  /\ cond \in [Sides -> Condition]
  /\ WaitersCounted

(* What a place holds.                                                      *)
LEMMA PlaceFields ==
  ASSUME NEW place \in Places
  PROVE  /\ place.at \in {"asleep", "woken", "resetting"} => place.e \in {0, 1}
         /\ place.at = "asleep" => ~(place.at \in {"woken", "inside", "returning"})
BY DEF Places, Out, Inside, Returning, Signalling, Asleep, Resetting, Woken

LEMMA NewPlaces ==
  ASSUME NEW e \in {0, 1}
  PROVE  /\ Out \in Places /\ ~Asks(Out)
         /\ Inside \in Places /\ ~Asks(Inside)
         /\ Returning \in Places /\ Asks(Returning)
         /\ \A call \in {"wake", "wakeAll"} :
              Signalling(call) \in Places /\ ~Asks(Signalling(call))
         /\ Asleep(e) \in Places /\ Asks(Asleep(e))
         /\ Resetting(e) \in Places /\ Asks(Resetting(e))
         /\ \A reason \in {"wake", "all"} :
              Woken(e, reason) \in Places /\ Asks(Woken(e, reason))
BY DEF Places, Asks, Out, Inside, Returning, Signalling, Asleep, Resetting, Woken

LEMMA NewSleepers ==
  ASSUME NEW e \in {0, 1}, NEW d \in {0, 1}
  PROVE  /\ ~AsleepAt(Out, d) /\ ~AsleepAt(Inside, d) /\ ~AsleepAt(Returning, d)
         /\ \A call \in {"wake", "wakeAll"} : ~AsleepAt(Signalling(call), d)
         /\ AsleepAt(Asleep(e), d) <=> e = d
         /\ ~AsleepAt(Resetting(e), d)
         /\ \A reason \in {"wake", "all"} : AsleepAt(Woken(e, reason), d) <=> e = d
BY DEF AsleepAt, Out, Inside, Returning, Signalling, Asleep, Resetting, Woken

(* The sets that are counted when one thread moves.                         *)
LEMMA AskingMoves ==
  ASSUME at \in [Threads -> Places], NEW t \in Threads, NEW place \in Places,
         Go(t, place), NEW S \in SUBSET Threads
  PROVE  Asking(S)' = IF t \in S /\ Asks(place) THEN Asking(S) \union {t}
                      ELSE Asking(S) \ {t}
BY DEF Asking, Asks, Go

LEMMA SleepingMoves ==
  ASSUME at \in [Threads -> Places], NEW t \in Threads, NEW place \in Places,
         Go(t, place), NEW side \in Sides, NEW e \in {0, 1}
  PROVE  Sleeping(side, e)' =
           IF Side(t) = side /\ AsleepAt(place, e) THEN Sleeping(side, e) \union {t}
           ELSE Sleeping(side, e) \ {t}
BY DEF Sleeping, AsleepAt, Go

LEMMA WaitersFinite ==
  /\ \A S \in {Readers, Writers} :
       IsFiniteSet(Asking(S)) /\ Cardinality(Asking(S)) \in Nat
  /\ \A side \in Sides, e \in {0, 1} :
       IsFiniteSet(Sleeping(side, e)) /\ Cardinality(Sleeping(side, e)) \in Nat
<1>1. IsFiniteSet(Readers) /\ IsFiniteSet(Writers) /\ IsFiniteSet(Threads)
  BY ThreadsAssumption, FS_Union DEF Threads
<1>2. \A S : Asking(S) \subseteq S
  BY DEF Asking
<1>3. \A side \in Sides, e \in {0, 1} : Sleeping(side, e) \subseteq Threads
  BY DEF Sleeping
<1> QED BY <1>1, <1>2, <1>3, FS_Subset, FS_CardinalityType

(* A thread that asks before and after, or neither, changes no count of     *)
(* those that ask.                                                          *)
LEMMA AskingStays ==
  ASSUME WaitInv, NEW t \in Threads, NEW place \in Places, Go(t, place),
         Asks(at[t]) <=> Asks(place), UNCHANGED <<readersWaiting, writersWaiting>>
  PROVE  /\ readersWaiting' = Cardinality(Asking(Readers)')
         /\ writersWaiting' = Cardinality(Asking(Writers)')
<1>1. \A S \in {Readers, Writers} : Asking(S)' = Asking(S)
  <2> SUFFICES ASSUME NEW S \in {Readers, Writers} PROVE Asking(S)' = Asking(S)
    OBVIOUS
  <2>1. S \in SUBSET Threads
    BY DEF Threads
  <2>2. t \in Asking(S) <=> t \in S /\ Asks(place)
    BY DEF Asking, Asks
  <2> QED BY <2>1, <2>2, AskingMoves DEF WaitInv
<1> QED BY <1>1 DEF WaitInv, WaitersCounted

(* A thread that begins to ask, or stops, is counted by Waits.              *)
LEMMA AskingCounted ==
  ASSUME WaitInv, NEW t \in Threads, NEW place \in Places, Go(t, place),
         \/ ~Asks(at[t]) /\ Asks(place) /\ Waits(t, 1)
         \/ Asks(at[t]) /\ ~Asks(place) /\ Waits(t, -1)
  PROVE  /\ readersWaiting' = Cardinality(Asking(Readers)')
         /\ writersWaiting' = Cardinality(Asking(Writers)')
<1>1. Readers \in SUBSET Threads /\ Writers \in SUBSET Threads
  BY DEF Threads
<1>2. \A S \in {Readers, Writers} : t \in Asking(S) <=> t \in S /\ Asks(at[t])
  BY DEF Asking, Asks
<1>3. \A S \in {Readers, Writers} :
        Asking(S)' = IF t \in S /\ Asks(place) THEN Asking(S) \union {t} ELSE Asking(S) \ {t}
  BY <1>1, AskingMoves DEF WaitInv
<1>4. \A S \in {Readers, Writers} : t \notin S => Asking(S)' = Asking(S)
  BY <1>2, <1>3
<1>5. readersWaiting = Cardinality(Asking(Readers)) /\ writersWaiting = Cardinality(Asking(Writers))
  BY DEF WaitInv, WaitersCounted
<1>6. CASE ~Asks(at[t]) /\ Asks(place) /\ Waits(t, 1)
  <2>1. \A S \in {Readers, Writers} :
          t \in S => Cardinality(Asking(S)') = Cardinality(Asking(S)) + 1
    BY <1>2, <1>3, <1>6, WaitersFinite, FS_AddElement
  <2> QED BY <1>4, <1>5, <1>6, <2>1 DEF Waits
<1>7. CASE Asks(at[t]) /\ ~Asks(place) /\ Waits(t, -1)
  <2>1. \A S \in {Readers, Writers} :
          t \in S => Cardinality(Asking(S)') = Cardinality(Asking(S)) - 1
    BY <1>2, <1>3, <1>7, WaitersFinite, FS_RemoveElement
  <2>2. Cardinality(Asking(Readers)) \in Nat /\ Cardinality(Asking(Writers)) \in Nat
    BY WaitersFinite
  <2> QED BY <1>4, <1>5, <1>7, <2>1, <2>2 DEF Waits
<1> QED BY <1>6, <1>7

(* A thread that is counted in for the same event as before, or for none,   *)
(* changes no set of sleepers.                                              *)
LEMMA SleepingStays ==
  ASSUME WaitInv, NEW t \in Threads, NEW place \in Places, Go(t, place),
         \A e \in {0, 1} : AsleepAt(at[t], e) <=> AsleepAt(place, e),
         NEW side \in Sides, NEW e \in {0, 1}
  PROVE  Sleeping(side, e)' = Sleeping(side, e)
<1>1. t \in Sleeping(side, e) <=> Side(t) = side /\ AsleepAt(place, e)
  BY DEF Sleeping, AsleepAt
<1> QED BY <1>1, SleepingMoves DEF WaitInv

(* The conditions as records.                                               *)
LEMMA ConditionFields ==
  ASSUME WaitInv, NEW side \in Sides
  PROVE  LET c == cond[side]
         IN  /\ c \in Condition
             /\ c.eventID \in {0, 1} /\ Other(c.eventID) \in {0, 1}
             /\ CountIn(c) \in Condition /\ Return(c) \in Condition
             /\ SetWake(c) \in Condition /\ Turn(c) \in Condition
             /\ Reason(c) \in {"wake", "all"}
             /\ Turn(c).waiters = c.waiters /\ SetWake(c).waiters = c.waiters
             /\ Return(c).waiters = c.waiters
             /\ \A e \in {0, 1} :
                  /\ CountOut(c, e) \in Condition /\ ResetEvent(c, e) \in Condition
                  /\ SetAll(c, e) \in Condition
                  /\ SetAll(c, e).waiters = c.waiters /\ ResetEvent(c, e).waiters = c.waiters
<1>1. PICK c \in Condition : c = cond[side]
  BY DEF WaitInv
<1> USE DEF Condition
<1>2. c.eventID \in {0, 1} /\ Other(c.eventID) \in {0, 1}
  BY DEF Other
<1>3. Reason(c) \in {"wake", "all"}
  BY DEF Reason
<1>4. CountIn(c) \in Condition
  BY <1>2 DEF CountIn, EventToWaitFor
<1>5. /\ Return(c) \in Condition /\ Return(c).waiters = c.waiters
      /\ SetWake(c) \in Condition /\ SetWake(c).waiters = c.waiters
  BY DEF Return, SetWake
<1>6. Turn(c) \in Condition /\ Turn(c).waiters = c.waiters
  BY <1>2 DEF Turn
<1>7. ASSUME NEW e \in {0, 1}
      PROVE  /\ CountOut(c, e) \in Condition /\ ResetEvent(c, e) \in Condition
             /\ SetAll(c, e) \in Condition
             /\ SetAll(c, e).waiters = c.waiters /\ ResetEvent(c, e).waiters = c.waiters
  <2>1. CountOut(c, e) \in Condition
    BY DEF CountOut
  <2>2. ResetEvent(c, e) \in Condition /\ ResetEvent(c, e).waiters = c.waiters
    BY DEF ResetEvent
  <2>3. SetAll(c, e) \in Condition /\ SetAll(c, e).waiters = c.waiters
    BY DEF SetAll
  <2> HIDE DEF Condition
  <2> QED BY <2>1, <2>2, <2>3
<1> HIDE DEF Condition
<1> QED BY <1>1, <1>2, <1>3, <1>4, <1>5, <1>6, <1>7

LEMMA SideOf == \A t \in Threads : Side(t) \in Sides
BY DEF Side, Sides

(* SleepCS counts the thread in for the event that it will wait for.        *)
LEMMA SleepCounted ==
  ASSUME WaitInv, NEW t \in Threads, SleepCS(t), \A e \in {0, 1} : ~AsleepAt(at[t], e)
  PROVE  /\ at' \in [Threads -> Places] /\ cond' \in [Sides -> Condition]
         /\ \A side \in Sides, e \in {0, 1} :
              cond'[side].waiters[e] = Cardinality(Sleeping(side, e)')
         /\ \E place \in Places : Go(t, place) /\ Asks(place)
<1>1. PICK s \in Sides : s = Side(t)
  BY SideOf
<1>2. PICK d \in {0, 1} : d = EventToWaitFor(cond[s])
  BY <1>1, ConditionFields DEF EventToWaitFor
<1>3. PICK c \in Condition : c = CountIn(cond[s]) /\ cond' = [cond EXCEPT ![s] = c]
  BY <1>1, ConditionFields DEF SleepCS
<1>4. Go(t, Asleep(d))
  BY <1>1, <1>2 DEF SleepCS
<1>5. Asleep(d) \in Places /\ Asks(Asleep(d))
  BY NewPlaces
<1>6. at' \in [Threads -> Places] /\ cond' \in [Sides -> Condition]
  BY <1>3, <1>4, <1>5 DEF Go, WaitInv
<1>7. ASSUME NEW side \in Sides, NEW e \in {0, 1}
      PROVE  cond'[side].waiters[e] = Cardinality(Sleeping(side, e)')
  <2>1. Sleeping(side, e)' = IF s = side /\ e = d THEN Sleeping(side, e) \union {t}
                             ELSE Sleeping(side, e) \ {t}
    BY <1>1, <1>4, <1>5, SleepingMoves, NewSleepers DEF WaitInv
  <2>2. t \notin Sleeping(side, e)
    BY DEF Sleeping, AsleepAt
  <2>3. cond[side].waiters[e] = Cardinality(Sleeping(side, e)) /\ cond[side] \in Condition
    BY DEF WaitInv, WaitersCounted
  <2>4. cond'[side].waiters[e] = IF s = side /\ e = d THEN cond[side].waiters[e] + 1
                                 ELSE cond[side].waiters[e]
    BY <1>2, <1>3, <2>3 DEF CountIn, Condition, WaitInv
  <2>5. CASE s = side /\ e = d
    <3>1. Cardinality(Sleeping(side, e) \union {t}) = Cardinality(Sleeping(side, e)) + 1
      BY <2>2, WaitersFinite, FS_AddElement
    <3> QED BY <2>1, <2>3, <2>4, <2>5, <3>1
  <2>6. CASE ~(s = side /\ e = d)
    <3>1. Sleeping(side, e) \ {t} = Sleeping(side, e)
      BY <2>2
    <3> QED BY <2>1, <2>3, <2>4, <2>6, <3>1
  <2> QED BY <2>5, <2>6
<1> QED BY <1>4, <1>5, <1>6, <1>7

(* No thread falls asleep or wakes, and the conditions keep their counts.   *)
LEMMA SleepersKept ==
  ASSUME WaitInv, NEW t \in Threads, NEW place \in Places, Go(t, place),
         \A e \in {0, 1} : AsleepAt(at[t], e) <=> AsleepAt(place, e),
         cond' \in [Sides -> Condition],
         \A side \in Sides : cond'[side].waiters = cond[side].waiters
  PROVE  /\ at' \in [Threads -> Places]
         /\ \A side \in Sides, e \in {0, 1} :
              cond'[side].waiters[e] = Cardinality(Sleeping(side, e)')
<1>1. at' \in [Threads -> Places]
  BY DEF Go, WaitInv
<1>2. \A side \in Sides, e \in {0, 1} : Sleeping(side, e)' = Sleeping(side, e)
  BY SleepingStays
<1> QED BY <1>1, <1>2 DEF WaitInv, WaitersCounted

(* A thread that enters the lock asked for it, or came from outside.        *)
LEMMA TakeWaits ==
  ASSUME WaitInv, NEW t \in Threads, Take(t), at[t] \in {Out, Returning},
         IF at[t] = Out THEN UNCHANGED <<readersWaiting, writersWaiting>> ELSE Waits(t, -1)
  PROVE  WaitInv'
<1>1. Go(t, Inside) /\ cond' = cond
  BY DEF Take
<1>2. /\ Inside \in Places /\ ~Asks(Inside) /\ ~Asks(Out) /\ Asks(Returning)
      /\ \A e \in {0, 1} : ~AsleepAt(Inside, e) /\ ~AsleepAt(at[t], e)
  BY NewPlaces, NewSleepers
<1>3. WaitersCounted' /\ at' \in [Threads -> Places]
  <2>1. /\ at' \in [Threads -> Places]
        /\ \A side \in Sides, e \in {0, 1} :
             cond'[side].waiters[e] = Cardinality(Sleeping(side, e)')
    BY <1>1, <1>2, SleepersKept DEF WaitInv
  <2>2. /\ readersWaiting' = Cardinality(Asking(Readers)')
        /\ writersWaiting' = Cardinality(Asking(Writers)')
    <3>1. CASE at[t] = Out
      BY <1>1, <1>2, <3>1, AskingStays
    <3>2. CASE at[t] # Out
      BY <1>1, <1>2, <3>2, AskingCounted
    <3> QED BY <3>1, <3>2
  <2> QED BY <2>1, <2>2 DEF WaitersCounted
<1> QED BY <1>1, <1>3 DEF WaitInv

(* A thread that is not counted among those that ask or sleep stays so, and *)
(* what a call does to the events touches no count.                         *)
LEMMA ElsewhereWaits ==
  ASSUME WaitInv, NEW t \in Threads, NEW place \in Places, Go(t, place),
         ~Asks(at[t]), ~Asks(place), UNCHANGED <<readersWaiting, writersWaiting>>,
         cond' \in [Sides -> Condition],
         \A side \in Sides : cond'[side].waiters = cond[side].waiters
  PROVE  WaitInv'
<1>1. \A e \in {0, 1} : ~AsleepAt(at[t], e) /\ ~AsleepAt(place, e)
  BY DEF Asks, AsleepAt
<1>2. /\ at' \in [Threads -> Places]
      /\ \A side \in Sides, e \in {0, 1} :
           cond'[side].waiters[e] = Cardinality(Sleeping(side, e)')
  BY <1>1, SleepersKept
<1>3. /\ readersWaiting' = Cardinality(Asking(Readers)')
      /\ writersWaiting' = Cardinality(Asking(Writers)')
  BY AskingStays
<1> QED BY <1>2, <1>3 DEF WaitInv, WaitersCounted

LEMMA InitWaits == Init => WaitInv
<1> SUFFICES ASSUME Init PROVE WaitInv
  OBVIOUS
<1>1. Out \in Places /\ at = [t \in Threads |-> Out]
  BY NewPlaces DEF Init
<1>2. New \in Condition /\ cond = [side \in Sides |-> New]
  BY DEF Init, New, Condition, Sides
<1>3. \A S \in {Readers, Writers} : Asking(S) = {}
  BY <1>1 DEF Asking, Out, Threads
<1>4. \A side \in Sides, e \in {0, 1} : Sleeping(side, e) = {}
  BY <1>1 DEF Sleeping, Out
<1>5. \A side \in Sides, e \in {0, 1} : cond[side].waiters[e] = 0
  BY <1>2 DEF New
<1> QED BY <1>1, <1>2, <1>3, <1>4, <1>5, FS_EmptySet DEF Init, WaitInv, WaitersCounted

(* Every step of every thread keeps the counts of those that wait.          *)
LEMMA StepKeepsWaits ==
  ASSUME WaitInv, NEW t \in Threads, Step(t)
  PROVE  WaitInv'
<1> USE DEF counts
<1>1. CASE Acquire(t)
  <2>1. at[t] = Out /\ ~Asks(at[t]) /\ \A e \in {0, 1} : ~AsleepAt(at[t], e)
    BY <1>1, NewPlaces, NewSleepers DEF Acquire
  <2>2. CASE Barred(t)
    <3>1. Waits(t, 1) /\ SleepCS(t)
      BY <1>1, <2>2 DEF Acquire
    <3>2. PICK place \in Places : Go(t, place) /\ Asks(place)
      BY <2>1, <3>1, SleepCounted
    <3>3. /\ readersWaiting' = Cardinality(Asking(Readers)')
          /\ writersWaiting' = Cardinality(Asking(Writers)')
      <4>1. ~Asks(at[t]) /\ Asks(place) /\ Waits(t, 1)
        BY <2>1, <3>1, <3>2
      <4> QED BY <3>2, <4>1, AskingCounted
    <3> QED BY <2>1, <3>1, <3>3, SleepCounted DEF WaitInv, WaitersCounted
  <2>3. CASE ~Barred(t)
    BY <1>1, <2>1, <2>3, TakeWaits DEF Acquire
  <2> QED BY <2>2, <2>3
<1>2. CASE WakeUp(t)
  <2>1. at[t] = Returning /\ Asks(at[t]) /\ at[t] # Out /\ \A e \in {0, 1} : ~AsleepAt(at[t], e)
    BY <1>2, NewPlaces, NewSleepers DEF WakeUp
  <2>2. CASE Barred(t)
    <3>1. SleepCS(t) /\ UNCHANGED counts
      BY <1>2, <2>2 DEF WakeUp
    <3>2. PICK place \in Places : Go(t, place) /\ Asks(place)
      BY <2>1, <3>1, SleepCounted
    <3>3. /\ readersWaiting' = Cardinality(Asking(Readers)')
          /\ writersWaiting' = Cardinality(Asking(Writers)')
      BY <2>1, <3>1, <3>2, AskingStays
    <3> QED BY <2>1, <3>1, <3>3, SleepCounted DEF WaitInv, WaitersCounted
  <2>3. CASE ~Barred(t)
    BY <1>2, <2>1, <2>3, TakeWaits DEF WakeUp
  <2> QED BY <2>2, <2>3
<1>3. CASE WaitReturns(t)
  <2>1. PICK e \in {0, 1} : e = at[t].e /\ at[t].at = "asleep"
    BY <1>3, PlaceFields DEF WaitReturns, WaitInv
  <2>2. PICK reason \in {"wake", "all"} : reason = Reason(cond[Side(t)])
    BY SideOf, ConditionFields
  <2> DEFINE place == Woken(e, reason)
  <2>3. Go(t, place) /\ UNCHANGED counts
    BY <1>3, <2>1, <2>2 DEF WaitReturns
  <2>4. /\ place \in Places /\ Asks(place) /\ Asks(at[t])
        /\ \A d \in {0, 1} : AsleepAt(at[t], d) <=> AsleepAt(place, d)
    BY <2>1, NewPlaces, NewSleepers DEF Asks, AsleepAt
  <2>5. /\ cond' \in [Sides -> Condition]
        /\ \A side \in Sides : cond'[side].waiters = cond[side].waiters
    BY <1>3, SideOf, ConditionFields DEF WaitReturns, WaitInv
  <2> HIDE DEF place
  <2>6. /\ at' \in [Threads -> Places]
        /\ \A side \in Sides, d \in {0, 1} :
             cond'[side].waiters[d] = Cardinality(Sleeping(side, d)')
    BY <2>3, <2>4, <2>5, SleepersKept
  <2>7. /\ readersWaiting' = Cardinality(Asking(Readers)')
        /\ writersWaiting' = Cardinality(Asking(Writers)')
    BY <2>3, <2>4, AskingStays
  <2> QED BY <2>5, <2>6, <2>7 DEF WaitInv, WaitersCounted
<1>4. CASE CountsOut(t)
  <2>1. PICK s \in Sides : s = Side(t)
    BY SideOf
  <2>2. PICK e \in {0, 1} : e = at[t].e /\ at[t].at = "woken"
    BY <1>4, PlaceFields DEF CountsOut, WaitInv
  <2>3. PICK c \in Condition : c = CountOut(cond[s], e) /\ cond' = [cond EXCEPT ![s] = c]
    BY <1>4, <2>1, <2>2, ConditionFields DEF CountsOut
  <2>4. \E place \in {Resetting(e), Returning} : Go(t, place)
    BY <1>4, <2>2 DEF CountsOut
  <2>5. PICK place : Go(t, place) /\ place \in {Resetting(e), Returning}
    BY <2>4
  <2>6. /\ place \in Places /\ Asks(place) /\ Asks(at[t])
        /\ \A d \in {0, 1} : ~AsleepAt(place, d) /\ (AsleepAt(at[t], d) <=> d = e)
    BY <2>2, <2>5, NewPlaces, NewSleepers DEF Asks, AsleepAt
  <2>7. at' \in [Threads -> Places] /\ cond' \in [Sides -> Condition]
    BY <2>3, <2>5, <2>6 DEF Go, WaitInv
  <2>8. ASSUME NEW side \in Sides, NEW d \in {0, 1}
        PROVE  cond'[side].waiters[d] = Cardinality(Sleeping(side, d)')
    <3>1. Sleeping(side, d)' = Sleeping(side, d) \ {t}
      BY <2>5, <2>6, SleepingMoves DEF WaitInv
    <3>2. t \in Sleeping(side, d) <=> s = side /\ d = e
      BY <2>1, <2>6 DEF Sleeping, AsleepAt
    <3>3. cond[side].waiters[d] = Cardinality(Sleeping(side, d)) /\ cond[side] \in Condition
      BY DEF WaitInv, WaitersCounted
    <3>4. cond'[side].waiters[d] = IF s = side /\ d = e THEN cond[side].waiters[d] - 1
                                   ELSE cond[side].waiters[d]
      BY <2>3, <3>3 DEF CountOut, Condition, WaitInv
    <3>5. CASE s = side /\ d = e
      <4>1. Cardinality(Sleeping(side, d) \ {t}) = Cardinality(Sleeping(side, d)) - 1
        BY <3>2, <3>5, WaitersFinite, FS_RemoveElement
      <4> QED BY <3>1, <3>3, <3>4, <3>5, <4>1
    <3>6. CASE ~(s = side /\ d = e)
      <4>1. Sleeping(side, d) \ {t} = Sleeping(side, d)
        BY <3>2, <3>6
      <4> QED BY <3>1, <3>3, <3>4, <3>6, <4>1
    <3> QED BY <3>5, <3>6
  <2>9. /\ readersWaiting' = Cardinality(Asking(Readers)')
        /\ writersWaiting' = Cardinality(Asking(Writers)')
    BY <1>4, <2>5, <2>6, AskingStays DEF CountsOut
  <2> QED BY <2>7, <2>8, <2>9 DEF WaitInv, WaitersCounted
<1>5. CASE Resets(t)
  <2>1. PICK e \in {0, 1} : e = at[t].e /\ at[t].at = "resetting"
    BY <1>5, PlaceFields DEF Resets, WaitInv
  <2>2. Go(t, Returning) /\ UNCHANGED counts
    BY <1>5 DEF Resets
  <2>3. /\ Returning \in Places /\ Asks(Returning) /\ Asks(at[t])
        /\ \A d \in {0, 1} : ~AsleepAt(at[t], d) /\ ~AsleepAt(Returning, d)
    BY <2>1, NewPlaces, NewSleepers DEF Asks, AsleepAt
  <2>4. /\ cond' \in [Sides -> Condition]
        /\ \A side \in Sides : cond'[side].waiters = cond[side].waiters
    BY <1>5, <2>1, SideOf, ConditionFields DEF Resets, WaitInv
  <2>5. /\ at' \in [Threads -> Places]
        /\ \A side \in Sides, d \in {0, 1} :
             cond'[side].waiters[d] = Cardinality(Sleeping(side, d)')
    BY <2>2, <2>3, <2>4, SleepersKept
  <2>6. /\ readersWaiting' = Cardinality(Asking(Readers)')
        /\ writersWaiting' = Cardinality(Asking(Writers)')
    BY <2>2, <2>3, AskingStays
  <2> QED BY <2>4, <2>5, <2>6 DEF WaitInv, WaitersCounted
<1>6. CASE ReleaseLockExclusive(t) \/ ReleaseLockShared(t)
  <2>1. ~Asks(at[t]) /\ UNCHANGED <<readersWaiting, writersWaiting>>
    BY <1>6, NewPlaces DEF ReleaseLockExclusive, ReleaseLockShared
  <2>2. \E place \in Places : Go(t, place) /\ ~Asks(place)
    BY <1>6, NewPlaces DEF ReleaseLockExclusive, ReleaseLockShared, CallWake, CallWakeAll
  <2>3. /\ cond' \in [Sides -> Condition]
        /\ \A side \in Sides : cond'[side].waiters = cond[side].waiters
    <3>1. cond' = cond \/ cond' = [cond EXCEPT !["read"] = Turn(cond["read"])]
      BY <1>6 DEF ReleaseLockExclusive, ReleaseLockShared, CallWake, CallWakeAll
    <3>2. "read" \in Sides
      BY DEF Sides
    <3> QED BY <3>1, <3>2, ConditionFields DEF WaitInv
  <2> QED BY <2>1, <2>2, <2>3, ElsewhereWaits
<1>7. CASE Signal(t)
  <2>1. ~Asks(at[t]) /\ Out \in Places /\ ~Asks(Out)
    BY <1>7, NewPlaces DEF Signal, Asks
  <2>2. Go(t, Out) /\ UNCHANGED <<readersWaiting, writersWaiting>>
    BY <1>7 DEF Signal
  <2>3. "read" \in Sides /\ "write" \in Sides
    BY DEF Sides
  <2>4. \/ cond' = [cond EXCEPT !["read"] = SetAll(cond["read"], cond["read"].eventID)]
        \/ cond' = [cond EXCEPT !["write"] = SetWake(cond["write"])]
    BY <1>7 DEF Signal
  <2>5. /\ cond' \in [Sides -> Condition]
        /\ \A side \in Sides : cond'[side].waiters = cond[side].waiters
    <3>1. ASSUME NEW s \in Sides, NEW c \in Condition, c.waiters = cond[s].waiters,
                 cond' = [cond EXCEPT ![s] = c]
          PROVE  <2>5!1 /\ <2>5!2
      BY <3>1 DEF WaitInv
    <3>2. CASE cond' = [cond EXCEPT !["read"] = SetAll(cond["read"], cond["read"].eventID)]
      BY <2>3, <3>1, <3>2, ConditionFields
    <3>3. CASE cond' = [cond EXCEPT !["write"] = SetWake(cond["write"])]
      BY <2>3, <3>1, <3>3, ConditionFields
    <3> QED BY <2>4, <3>2, <3>3
  <2> QED BY <2>1, <2>2, <2>5, ElsewhereWaits
<1> QED BY <1>1, <1>2, <1>3, <1>4, <1>5, <1>6, <1>7 DEF Step

LEMMA StepWaits == WaitInv /\ [Next]_vars => WaitInv'
<1>1. CASE Next
  BY <1>1, StepKeepsWaits DEF Next
<1>2. CASE UNCHANGED vars
  BY <1>2 DEF vars, counts, WaitInv, WaitersCounted, Asking, Sleeping
<1> QED BY <1>1, <1>2

(* The counts of the lock are the numbers of threads that are inside and    *)
(* that wait, and the counts of the conditions those that sleep, whatever   *)
(* events are set (RWLockGeneric, ConditionVariableEventWin::SleepCS).      *)
THEOREM TypeCorrect == Spec => []TypeOK
<1>1. WaitInv /\ LockInv => TypeOK
  <2> SUFFICES ASSUME WaitInv, LockInv PROVE TypeOK
    OBVIOUS
  <2>1. \A side \in {"read", "write"}, e \in {0, 1} :
          /\ cond[side].eventID \in {0, 1} /\ cond[side].wake \in BOOLEAN
          /\ cond[side].all[e] \in BOOLEAN
    BY DEF WaitInv, Condition, Sides
  <2> QED BY <2>1 DEF WaitInv, WaitersCounted, LockInv, CountsInside, TypeOK, Sides
<1> QED BY <1>1, InitWaits, StepWaits, LockInvariant, PTL DEF Spec

(***************************************************************************)
(* Who wakes a writer                                                       *)
(***************************************************************************)
(* Another thread's move leaves whoever attends the writers where it is.    *)
LEMMA AttendedStays ==
  ASSUME WaitInv, Attended, NEW t \in Threads, NEW place, Go(t, place),
         at[t].at # "inside", at[t] # Signalling("wake"),
         t \in Asking(Writers) => at[t].at = "asleep",
         cond'["write"].wake = cond["write"].wake
  PROVE  Attended'
<1>1. \A u \in Threads : u # t => at'[u] = at[u]
  BY DEF Go, WaitInv
<1> QED BY <1>1 DEF Attended, At, Asking, Threads

(* A barred writer sees someone inside.                                     *)
LEMMA BarredWriter ==
  ASSUME LockInv, NEW t \in Writers, Barred(t)
  PROVE  At("inside", Threads) # {}
<1>1. CASE writerActive
  BY <1>1 DEF LockInv, CountsInside, At, Threads
<1>2. CASE readersActive > 0
  <2>1. At("inside", Readers) # {}
    BY <1>2, FS_EmptySet DEF LockInv, CountsInside
  <2> QED BY <2>1 DEF At, Threads
<1> QED BY <1>1, <1>2 DEF Barred

(* Wake() finds a writer that sleeps counted, and sets its event.           *)
LEMMA SleeperCounted ==
  ASSUME WaitInv, NEW w \in Writers, at[w].at = "asleep"
  PROVE  writersWaiting > 0 /\ HasWaiters(cond["write"])
<1>1. w \in Threads /\ Side(w) = "write"
  BY ThreadsAssumption DEF Threads, Side
<1>2. writersWaiting > 0
  <2>1. w \in Asking(Writers)
    BY DEF Asking
  <2>2. Cardinality(Asking(Writers)) # 0 /\ Cardinality(Asking(Writers)) \in Nat
    BY <2>1, WaitersFinite, FS_EmptySet
  <2> QED BY <2>2 DEF WaitInv, WaitersCounted
<1>3. HasWaiters(cond["write"])
  <2>1. PICK e \in {0, 1} : e = at[w].e
    BY <1>1, PlaceFields DEF WaitInv
  <2>2. w \in Sleeping("write", e) /\ "write" \in Sides
    BY <1>1, <2>1 DEF Sleeping, Sides
  <2>3. Cardinality(Sleeping("write", e)) # 0 /\ Cardinality(Sleeping("write", e)) \in Nat
    BY <2>2, WaitersFinite, FS_EmptySet
  <2> QED BY <2>2, <2>3 DEF WaitInv, WaitersCounted, HasWaiters
<1> QED BY <1>2, <1>3

(* Every step leaves someone who attends a writer that sleeps.              *)
LEMMA StepAttends ==
  ASSUME LockInv, LockInv', WaitInv, WriterAttended, NEW t \in Threads, Step(t)
  PROVE  WriterAttended'
<1> SUFFICES ASSUME NEW w \in Writers, at'[w].at = "asleep"
             PROVE  Attended'
  BY DEF WriterAttended, At
<1> USE DEF counts
<1>1. w \in Threads /\ t \in DOMAIN at /\ Side(w) = "write"
  BY ThreadsAssumption DEF WaitInv, Threads, Side
<1>2. \A u \in Threads : u # t => at'[u] = at[u]
  BY DEF Step, Acquire, WakeUp, WaitReturns, CountsOut, Resets, ReleaseLockExclusive,
         ReleaseLockShared, Signal, SleepCS, Take, CallWake, CallWakeAll, Go, WaitInv
<1>3. w # t => at[w].at = "asleep" /\ Attended
  BY <1>1, <1>2 DEF WriterAttended, At
<1>4. at'[t].at = "inside" => Attended'
  BY DEF Attended, At
<1>5. t \in Writers /\ at'[t].at \in {"woken", "resetting", "returning"} => Attended'
  BY DEF Attended, Asking
<1>6. t \in Readers => w # t
  BY ThreadsAssumption
<1>7. \A place : Go(t, place) => at'[t] = place
  BY <1>1 DEF Go
<1>8. t \in Writers \/ (t \in Readers /\ Side(t) = "read")
  BY DEF Threads, Side
<1>9. ASSUME at[t].at # "inside", Barred(t), SleepCS(t), t \in Readers => at[t].at # "signalling"
      PROVE  Attended'
  <2>1. CASE t \in Writers
    <3>1. PICK u \in Threads : at[u].at = "inside"
      BY <1>9, <2>1, BarredWriter DEF At
    <3>2. at'[u].at = "inside"
      BY <1>2, <1>9, <3>1
    <3> QED BY <3>1, <3>2 DEF Attended, At
  <2>2. CASE t \in Readers
    <3>1. cond'["write"].wake = cond["write"].wake
      BY <1>8, <1>9, <2>2, ThreadsAssumption DEF SleepCS, WaitInv, Sides
    <3>2. t \notin Asking(Writers) /\ at[t] # Signalling("wake")
      BY <1>9, <2>2, ThreadsAssumption DEF Asking, Signalling
    <3>3. \E place : Go(t, place)
      BY <1>9 DEF SleepCS
    <3> QED BY <1>3, <1>6, <1>9, <2>2, <3>1, <3>2, <3>3, AttendedStays
  <2> QED BY <1>8, <2>1, <2>2
<1>10. CASE Acquire(t)
  <2>1. at[t].at = "out"
    BY <1>10 DEF Acquire, Out
  <2>2. Barred(t) \/ Go(t, Inside)
    BY <1>10 DEF Acquire, Take
  <2> QED BY <1>4, <1>7, <1>9, <1>10, <2>1, <2>2 DEF Acquire, Inside
<1>11. CASE WakeUp(t)
  <2>1. at[t].at = "returning"
    BY <1>11 DEF WakeUp, Returning
  <2>2. Barred(t) \/ Go(t, Inside)
    BY <1>11 DEF WakeUp, Take
  <2> QED BY <1>4, <1>7, <1>9, <1>11, <2>1, <2>2 DEF WakeUp, Inside
<1>12. CASE WaitReturns(t) \/ CountsOut(t) \/ Resets(t)
  <2>1. /\ at[t].at \in {"asleep", "woken", "resetting"}
        /\ at'[t].at \in {"woken", "resetting", "returning"}
        /\ \E place : Go(t, place)
    BY <1>7, <1>12 DEF WaitReturns, CountsOut, Resets, Woken, Resetting, Returning
  <2>2. CASE t \in Readers
    <3>1. cond'["write"].wake = cond["write"].wake
      BY <1>8, <1>12, <2>2, ThreadsAssumption DEF WaitReturns, CountsOut, Resets, WaitInv, Sides
    <3>2. t \notin Asking(Writers) /\ at[t] # Signalling("wake")
      BY <2>1, <2>2, ThreadsAssumption DEF Asking, Signalling
    <3> QED BY <1>3, <1>6, <2>1, <2>2, <3>1, <3>2, AttendedStays
  <2> QED BY <1>5, <1>8, <2>1, <2>2
<1>13. CASE ReleaseLockExclusive(t) \/ ReleaseLockShared(t)
  <2>1. w # t
    <3>1. at'[t].at # "asleep"
      BY <1>7, <1>13 DEF ReleaseLockExclusive, ReleaseLockShared, CallWake, CallWakeAll,
                         Signalling, Out
    <3> QED BY <3>1
  <2>2. writersWaiting > 0 /\ HasWaiters(cond["write"])
    BY <1>3, <2>1, SleeperCounted
  <2>3. CallWake(t, "write") => Attended'
    BY <1>7, <2>2 DEF CallWake, Attended
  <2>4. CASE CallWake(t, "write")
    BY <2>3, <2>4
  <2>5. CASE ~CallWake(t, "write")
    <3>1. readersActive' # 0 /\ readersActive' = Cardinality(At("inside", Readers)')
      BY <1>13, <2>2, <2>5 DEF ReleaseLockExclusive, ReleaseLockShared, LockInv, CountsInside
    <3>2. At("inside", Readers)' # {}
      BY <3>1, FS_EmptySet
    <3> QED BY <3>2 DEF Attended, At, Threads
  <2> QED BY <2>4, <2>5
<1>14. CASE Signal(t)
  <2>1. at[t].at = "signalling" /\ Go(t, Out) /\ w # t
    BY <1>7, <1>14 DEF Signal, Out
  <2>2. CASE at[t].call = "wakeAll"
    <3>1. cond'["write"].wake = cond["write"].wake
      BY <1>14, <2>2 DEF Signal, WaitInv, Sides
    <3>2. t \notin Asking(Writers) /\ at[t] # Signalling("wake")
      BY <2>1, <2>2 DEF Asking, Signalling
    <3> QED BY <1>3, <2>1, <3>1, <3>2, AttendedStays
  <2>3. CASE at[t].call # "wakeAll"
    <3>1. cond'["write"] = SetWake(cond["write"]) /\ cond["write"] \in Condition
      BY <1>14, <2>3 DEF Signal, WaitInv, Sides
    <3>2. cond'["write"].wake
      BY <3>1 DEF SetWake, Condition
    <3> QED BY <3>2 DEF Attended
  <2> QED BY <2>2, <2>3
<1> QED BY <1>10, <1>11, <1>12, <1>13, <1>14 DEF Step

(* A writer that sleeps is woken when the lock is free (Wake,               *)
(* ReleaseLockShared, ReleaseLockExclusive): the event that two calls set   *)
(* only once loses nobody, for any number of readers and writers.           *)
THEOREM WritersWoken == Spec => []NoWriterForgotten
<1>1. Init => WriterAttended
  BY DEF Init, WriterAttended, At, Out, Threads
<1>2. LockInv /\ LockInv' /\ WaitInv /\ WriterAttended /\ [Next]_vars => WriterAttended'
  <2>1. ASSUME LockInv, LockInv', WaitInv, WriterAttended, Next PROVE WriterAttended'
    BY <2>1, StepAttends DEF Next
  <2>2. CASE UNCHANGED vars
    BY <2>2 DEF vars, counts, WriterAttended, Attended, At, Asking
  <2> QED BY <2>1, <2>2
<1>3. WriterAttended => NoWriterForgotten
  <2> SUFFICES ASSUME WriterAttended, Still, NEW w \in Writers, at[w].at = "asleep"
               PROVE  FALSE
    BY DEF NoWriterForgotten
  <2>1. w \in Threads /\ Side(w) = "write" /\ Attended
    BY ThreadsAssumption DEF WriterAttended, At, Threads, Side
  <2>2. ~cond["write"].wake
    BY <2>1 DEF Still, Out, Signalled
  <2>3. \A t \in Threads : at[t].at \in {"out", "asleep"}
    BY DEF Still, Out
  <2> QED BY <2>1, <2>2, <2>3 DEF Attended, At, Asking, Threads, Signalling
<1> QED BY <1>1, <1>2, <1>3, InitWaits, StepWaits, LockInvariant, PTL DEF Spec
=============================================================================
