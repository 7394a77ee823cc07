----------------------------- MODULE ProcessThread -----------------------------
(***************************************************************************)
(* ProcessThreadImpl (process_thread_impl.cc) on ThreadWindows              *)
(* (thread_win.cc) and an auto-reset event (event_win.cc): one thread calls *)
(* the registered modules when they are due.  Stop gives a thread up after  *)
(* two seconds, and returns without the lock, so the thread before may run  *)
(* on beside the one of the next Start.  What is done under _critSectModules*)
(* is one step, but for the pass over the modules, which calls them with the*)
(* lock held.                                                               *)
(***************************************************************************)
EXTENDS Integers, SequencesExt

CONSTANTS
  Modules,    \* modules that may be registered
  Threads,    \* threads, one for each Start
  Intervals,  \* times until a module wants to be called next
  MaxWait,    \* the hundred milliseconds that the thread waits at most
  NoThread    \* NULL

ASSUME ProcessThreadAssumption ==
  /\ Intervals \subseteq Nat \ {0} /\ Intervals # {}
  /\ MaxWait \in Nat \ {0}
  /\ NoThread \notin Threads

VARIABLES
  modules,  \* _modules, the one registered last in front
  thread,   \* _thread
  lock,     \* the thread that is in its pass with _critSectModules
  event,    \* _timeEvent is set
  at,       \* where each thread is
  alive,    \* alive_ of each thread
  timer,    \* time left of the wait of each thread
  todo,     \* modules the pass has yet to look at
  until     \* TimeUntilNextProcess of each module

vars == <<modules, thread, lock, event, at, alive, timer, todo, until>>

Registered == {modules[i] : i \in DOMAIN modules}
Free == lock = NoThread

(***************************************************************************)
(* The calls of other threads                                               *)
(***************************************************************************)
\* ThreadWindows::Start returns when the thread runs, here with the lock held.
Start(t) ==
  /\ Free
  /\ thread = NoThread
  /\ at[t] = "none"
  /\ thread' = t
  /\ at' = [at EXCEPT ![t] = "top"]
  /\ alive' = [alive EXCEPT ![t] = TRUE]
  /\ UNCHANGED <<modules, lock, event, timer, todo, until>>

\* Mutant: _thread is not set to NULL.
Stop_KeepsThread ==
  /\ Free
  /\ thread # NoThread
  /\ alive' = [alive EXCEPT ![thread] = FALSE]
  /\ event' = TRUE
  /\ UNCHANGED <<modules, thread, lock, at, timer, todo, until>>

\* What Stop does under the lock; then it waits for the thread to end, or gives up.
Stop ==
  /\ Free
  /\ thread # NoThread
  /\ alive' = [alive EXCEPT ![thread] = FALSE]
  /\ thread' = NoThread
  /\ event' = TRUE
  /\ UNCHANGED <<modules, lock, at, timer, todo, until>>

\* Mutant: the thread is not woken.
RegisterModule_NoSet(m) ==
  /\ Free
  /\ m \notin Registered
  /\ modules' = <<m>> \o modules
  /\ \E i \in Intervals : until' = [until EXCEPT ![m] = i]
  /\ UNCHANGED <<thread, lock, event, at, alive, timer, todo>>

RegisterModule(m) ==
  /\ Free
  /\ m \notin Registered
  /\ modules' = <<m>> \o modules
  /\ event' = TRUE
  /\ \E i \in Intervals : until' = [until EXCEPT ![m] = i]
  /\ UNCHANGED <<thread, lock, at, alive, timer, todo>>

\* Mutant: the list is changed without the lock.
DeRegisterModule_NoLock(m) ==
  /\ \E i \in DOMAIN modules : modules[i] = m /\ modules' = RemoveAt(modules, i)
  /\ UNCHANGED <<thread, lock, event, at, alive, timer, todo, until>>

DeRegisterModule(m) ==
  /\ Free
  /\ \E i \in DOMAIN modules : modules[i] = m /\ modules' = RemoveAt(modules, i)
  /\ UNCHANGED <<thread, lock, event, at, alive, timer, todo, until>>

(***************************************************************************)
(* The thread: Process, and the loop around it in ThreadWindows::Run        *)
(***************************************************************************)
\* The time to wait: until the first module is due, at most MaxWait.
TimeToWait ==
  LET times == {until[m] : m \in Registered} \cup {MaxWait}
  IN  CHOOSE w \in times : \A o \in times : w <= o

\* Without time to wait _thread is not looked at.
ComputeWait(t) ==
  /\ at[t] = "top" /\ Free
  /\ at' = [at EXCEPT ![t] = IF TimeToWait > 0 THEN "wait" ELSE "ready"]
  /\ timer' = [timer EXCEPT ![t] = TimeToWait]
  /\ UNCHANGED <<modules, thread, lock, event, alive, todo, until>>

\* Mutant: the wait has no end but the event.
WaitReturns_EventOnly(t) ==
  /\ at[t] = "wait"
  /\ event /\ event' = FALSE
  /\ at' = [at EXCEPT ![t] = "woken"]
  /\ UNCHANGED <<modules, thread, lock, alive, timer, todo, until>>

\* The event is reset for the thread that it wakes.
WaitReturns(t) ==
  /\ at[t] = "wait"
  /\ \/ event /\ event' = FALSE
     \/ timer[t] = 0 /\ UNCHANGED event
  /\ at' = [at EXCEPT ![t] = "woken"]
  /\ UNCHANGED <<modules, thread, lock, alive, timer, todo, until>>

\* Process returns false, and Run ends.
FindsNoThread(t) ==
  /\ at[t] = "woken" /\ Free
  /\ thread = NoThread
  /\ at' = [at EXCEPT ![t] = "ended"]
  /\ alive' = [alive EXCEPT ![t] = FALSE]
  /\ UNCHANGED <<modules, thread, lock, event, timer, todo, until>>

\* The thread there is may be the next one.
FindsThread(t) ==
  /\ at[t] = "woken" /\ Free
  /\ thread # NoThread
  /\ at' = [at EXCEPT ![t] = "ready"]
  /\ UNCHANGED <<modules, thread, lock, event, alive, timer, todo, until>>

BeginPass(t) ==
  /\ at[t] = "ready" /\ Free
  /\ lock' = t
  /\ todo' = [todo EXCEPT ![t] = modules]
  /\ at' = [at EXCEPT ![t] = "pass"]
  /\ UNCHANGED <<modules, thread, event, alive, timer, until>>

\* The module at the iterator is called if it is due.
CallModule(t) ==
  /\ at[t] = "pass" /\ todo[t] # <<>>
  /\ todo' = [todo EXCEPT ![t] = Tail(@)]
  /\ IF until[Head(todo[t])] < 1
     THEN \E i \in Intervals : until' = [until EXCEPT ![Head(todo[t])] = i]
     ELSE UNCHANGED until
  /\ UNCHANGED <<modules, thread, lock, event, at, alive, timer>>

EndPass(t) ==
  /\ at[t] = "pass" /\ todo[t] = <<>>
  /\ lock' = NoThread
  /\ at' = [at EXCEPT ![t] = IF alive[t] THEN "top" ELSE "ended"]
  /\ UNCHANGED <<modules, thread, event, alive, timer, todo, until>>

\* A millisecond passes.
Less(n) == IF n > 0 THEN n - 1 ELSE 0
Tick ==
  /\ until' = [m \in Modules |-> Less(until[m])]
  /\ timer' = [t \in Threads |-> Less(timer[t])]
  /\ UNCHANGED <<modules, thread, lock, event, at, alive, todo>>

Init ==
  /\ modules = <<>> /\ thread = NoThread /\ lock = NoThread /\ event = FALSE
  /\ at = [t \in Threads |-> "none"]
  /\ alive = [t \in Threads |-> FALSE]
  /\ timer = [t \in Threads |-> 0]
  /\ todo = [t \in Threads |-> <<>>]
  /\ until = [m \in Modules |-> 0]

\* The steps that need the lock, and those that do not.
Locks(t) == ComputeWait(t) \/ FindsNoThread(t) \/ FindsThread(t) \/ BeginPass(t)
Runs(t) == WaitReturns(t) \/ CallModule(t) \/ EndPass(t)

Next ==
  \/ \E t \in Threads : Start(t) \/ Locks(t) \/ Runs(t)
  \/ Stop
  \/ \E m \in Modules : RegisterModule(m) \/ DeRegisterModule(m)
  \/ Tick

Spec == Init /\ [][Next]_vars
=============================================================================
