-------------------------- MODULE ProcessThreadProps --------------------------
(***************************************************************************)
(* What must hold of the process thread.                                    *)
(***************************************************************************)
EXTENDS ProcessThread

Places == {"none", "top", "wait", "woken", "ready", "pass", "ended"}

(* Types.  A module is registered once, _thread is a thread that runs, and  *)
(* every other thread was told to stop.                                     *)
TypeOK ==
  /\ modules \in Seq(Modules)
  /\ \A i, j \in DOMAIN modules : modules[i] = modules[j] => i = j
  /\ thread \in Threads \cup {NoThread} /\ lock \in Threads \cup {NoThread}
  /\ event \in BOOLEAN
  /\ at \in [Threads -> Places]
  /\ alive \in [Threads -> BOOLEAN] /\ \A t \in Threads : alive[t] <=> t = thread
  /\ thread # NoThread => at[thread] \notin {"none", "ended"}
  /\ timer \in [Threads -> 0 .. MaxWait]
  /\ todo \in [Threads -> Seq(Modules)]
  /\ until \in [Modules -> Nat]

(* A thread calls only modules that are registered, and no two threads call *)
(* modules at a time: after DeRegisterModule returned the module is not     *)
(* called, not by a thread that Stop gave up either (Process).              *)
CallsOnlyRegistered ==
  \A t \in Threads :
    /\ at[t] = "pass" <=> lock = t
    /\ at[t] = "pass" => \A i \in DOMAIN todo[t] : todo[t][i] \in Registered

\* The thread wakes up before a registered module is due.
Covered(t) == event \/ \A m \in Registered : timer[t] <= until[m]

(* The thread does not sleep past the time a module is due, whenever the    *)
(* module was registered: between the computation of the time and the wait, *)
(* or during the wait.  Only a thread that was told to stop, and sleeps as  *)
(* well, may take the event away (RegisterModule, Process).                 *)
PromptWake ==
  [][\A t \in Threads :
       at'[t] = "wait" /\ alive'[t] /\ (at[t] = "wait" => Covered(t))
       => \/ Covered(t)'
          \/ \E o \in Threads \ {t} : ~alive[o] /\ at[o] = "wait" /\ at'[o] = "woken"]_vars

(* A thread that was told to stop ends, also when the next thread takes the *)
(* event that was set for it (Stop, Process).                               *)
StopEnds == \A t \in Threads : at[t] # "none" /\ ~alive[t] ~> at[t] = "ended"

(* A module that is due is called, unless it is deregistered or the thread  *)
(* told to stop (Process).                                                  *)
DueServed ==
  \A m \in Modules :
    m \in Registered /\ until[m] = 0 /\ thread # NoThread
      ~> m \notin Registered \/ until[m] > 0 \/ thread = NoThread

(* Threads end and modules are served.                                      *)
Progress == StopEnds /\ DueServed

(* Threads run, modules return, time passes, and a thread that waits for    *)
(* the lock gets it some day.                                               *)
Fairness ==
  /\ \A t \in Threads : SF_vars(Locks(t)) /\ WF_vars(Runs(t))
  /\ WF_vars(Tick)

FairSpec == Spec /\ Fairness
=============================================================================
