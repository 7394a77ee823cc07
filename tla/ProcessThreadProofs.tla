-------------------------- MODULE ProcessThreadProofs --------------------------
(***************************************************************************)
(* For any modules, threads and times: the process thread calls registered  *)
(* modules only, one thread at a time, and never sleeps past the time a     *)
(* module is due unless a thread told to stop took the event away.          *)
(***************************************************************************)
EXTENDS ProcessThreadProps, WellFoundedInduction, SequenceTheorems, TLAPS

(***************************************************************************)
(* Facts about numbers and sequences                                        *)
(***************************************************************************)
(* A non-empty set of natural numbers has a least element: a CHOOSE of the  *)
(* least, as in a linear search or a minimum of times, has a witness.       *)
LEMMA LeastElement ==
  ASSUME NEW S \in SUBSET Nat, S # {}
  PROVE  \E i \in S : \A j \in S : i <= j
<1> DEFINE R == OpToRel(<, Nat)
<1>1. \A x, y \in S : <<y, x>> \in R <=> y < x
  BY SMT DEF OpToRel
<1>2. IsWellFoundedOn(R, Nat)
  BY NatLessThanWellFounded
<1> HIDE DEF R
<1>3. PICK x \in S : \A y \in S : ~(<<y, x>> \in R)
  BY <1>2, WFMin
<1>4. \A y \in S : ~(y < x)
  BY <1>1, <1>3
<1> QED BY <1>4

(* Without its element at i.                                                *)
LEMMA TakeOut ==
  ASSUME NEW S, NEW s \in Seq(S), NEW i \in DOMAIN s
  PROVE  LET u == SubSeq(s, 1, i - 1) \o SubSeq(s, i + 1, Len(s))
         IN  /\ u \in Seq(S)
             /\ Len(u) = Len(s) - 1
             /\ DOMAIN u = 1 .. Len(s) - 1
             /\ \A j \in 1 .. Len(s) - 1 : u[j] = IF j < i THEN s[j] ELSE s[j + 1]
<1> DEFINE l == SubSeq(s, 1, i - 1)
           r == SubSeq(s, i + 1, Len(s))
<1>1. i \in 1 .. Len(s) /\ Len(s) \in Nat
  OBVIOUS
<1>2. /\ l \in Seq(S) /\ Len(l) = i - 1
      /\ \A j \in 1 .. i - 1 : l[j] = s[j]
  <2>1. \A j \in 1 .. i - 1 : s[j] \in S
    BY <1>1
  <2> QED BY <1>1, <2>1
<1>3. /\ r \in Seq(S) /\ Len(r) = Len(s) - i
      /\ \A j \in 1 .. Len(s) - i : r[j] = s[i + j]
  <2>1. \A j \in i + 1 .. Len(s) : s[j] \in S
    BY <1>1
  <2> QED BY <1>1, <2>1
<1> HIDE DEF l, r
<1>4. /\ l \o r \in Seq(S) /\ Len(l \o r) = Len(s) - 1
      /\ \A j \in 1 .. Len(s) - 1 : (l \o r)[j] = IF j < i THEN s[j] ELSE s[j + 1]
  BY <1>1, <1>2, <1>3, ConcatProperties, SMTT(30)
<1>5. DOMAIN (l \o r) = 1 .. Len(s) - 1
  BY <1>4
<1> QED BY <1>4, <1>5, Zenon DEF l, r

(* The two invariants are inductive together.                               *)
Inv == TypeOK /\ CallsOnlyRegistered

(* The wait is at most MaxWait, and no longer than any module's time.       *)
LEMMA TimeToWaitIsLeast ==
  ASSUME TypeOK
  PROVE  /\ TimeToWait \in 0 .. MaxWait
         /\ \A m \in Registered : TimeToWait <= until[m]
<1> DEFINE times == {until[m] : m \in Registered} \cup {MaxWait}
<1>1. Registered \subseteq Modules
  BY DEF TypeOK, Registered
<1>2. times \in SUBSET Nat /\ times # {} /\ MaxWait \in times
  BY <1>1, ProcessThreadAssumption DEF TypeOK
<1>3. \E w \in times : \A o \in times : w <= o
  BY <1>2, LeastElement
<1> HIDE DEF times
<1>4. DEFINE w == CHOOSE w \in times : \A o \in times : w <= o
<1>5. w \in times /\ \A o \in times : w <= o
  BY <1>3
<1>6. TimeToWait = w
  BY DEF TimeToWait, times
<1>7. w \in Nat /\ w <= MaxWait
  BY <1>2, <1>5
<1>8. \A m \in Registered : w <= until[m]
  BY <1>5 DEF times
<1> HIDE DEF w
<1> QED BY <1>6, <1>7, <1>8, ProcessThreadAssumption

(* What is left when an element is taken out of a sequence.                 *)
LEMMA RemoveAtShape ==
  ASSUME NEW S, NEW s \in Seq(S), NEW i \in DOMAIN s
  PROVE  /\ RemoveAt(s, i) \in Seq(S)
         /\ Len(RemoveAt(s, i)) = Len(s) - 1
         /\ DOMAIN RemoveAt(s, i) = 1 .. Len(s) - 1
         /\ \A j \in 1 .. Len(s) - 1 : RemoveAt(s, i)[j] = IF j < i THEN s[j] ELSE s[j + 1]
<1>1. RemoveAt(s, i) = SubSeq(s, 1, i - 1) \o SubSeq(s, i + 1, Len(s))
  BY DEF RemoveAt
<1> QED BY <1>1, TakeOut, ZenonT(60)

(* A list without duplicates is still one when a module is taken out.       *)
LEMMA RemoveAtList ==
  ASSUME NEW S, NEW s \in Seq(S), NEW i \in DOMAIN s,
         \A j, k \in DOMAIN s : s[j] = s[k] => j = k
  PROVE  \A j, k \in DOMAIN RemoveAt(s, i) :
           RemoveAt(s, i)[j] = RemoveAt(s, i)[k] => j = k
<1> DEFINE u == RemoveAt(s, i)
<1>1. /\ DOMAIN u = 1 .. Len(s) - 1
      /\ \A j \in 1 .. Len(s) - 1 : u[j] = IF j < i THEN s[j] ELSE s[j + 1]
  BY RemoveAtShape
<1>2. DOMAIN s = 1 .. Len(s) /\ i \in 1 .. Len(s) /\ Len(s) \in Nat
  OBVIOUS
<1> HIDE DEF u
<1> SUFFICES ASSUME NEW j \in 1 .. Len(s) - 1, NEW k \in 1 .. Len(s) - 1, u[j] = u[k]
             PROVE  j = k
  BY <1>1 DEF u
<1> DEFINE from(n) == IF n < i THEN n ELSE n + 1
<1>3. from(j) \in DOMAIN s /\ from(k) \in DOMAIN s
  BY <1>2
<1>4. u[j] = s[from(j)] /\ u[k] = s[from(k)]
  BY <1>1
<1>5. from(j) = from(k)
  BY <1>3, <1>4
<1> QED BY <1>2, <1>5

(* Taking a module out of a list brings no other into it.                   *)
LEMMA RemoveAtElements ==
  ASSUME NEW S, NEW s \in Seq(S), NEW i \in DOMAIN s
  PROVE  {RemoveAt(s, i)[j] : j \in DOMAIN RemoveAt(s, i)} \subseteq {s[j] : j \in DOMAIN s}
<1>1. /\ Len(RemoveAt(s, i)) = Len(s) - 1
      /\ DOMAIN RemoveAt(s, i) = 1 .. Len(s) - 1
      /\ \A j \in 1 .. Len(s) - 1 : RemoveAt(s, i)[j] = IF j < i THEN s[j] ELSE s[j + 1]
  BY RemoveAtShape
<1>2. \A j \in 1 .. Len(s) - 1 : j \in DOMAIN s /\ j + 1 \in DOMAIN s
  OBVIOUS
<1> QED BY <1>1, <1>2

(* A module in front of a list that does not have it.                       *)
LEMMA FrontList ==
  ASSUME NEW S, NEW s \in Seq(S), NEW m \in S, \A j \in DOMAIN s : s[j] # m,
         \A j, k \in DOMAIN s : s[j] = s[k] => j = k
  PROVE  /\ <<m>> \o s \in Seq(S)
         /\ \A j, k \in DOMAIN (<<m>> \o s) : (<<m>> \o s)[j] = (<<m>> \o s)[k] => j = k
<1>1. /\ <<m>> \o s \in Seq(S) /\ Len(<<m>> \o s) = Len(s) + 1
      /\ \A j \in 1 .. Len(s) + 1 : (<<m>> \o s)[j] = IF j = 1 THEN m ELSE s[j - 1]
  BY ConcatProperties
<1>2. DOMAIN (<<m>> \o s) = 1 .. Len(s) + 1
  BY <1>1
<1> QED BY <1>1, <1>2

LEMMA InitInv == Init => Inv
<1> SUFFICES ASSUME Init PROVE Inv
  OBVIOUS
<1> USE ProcessThreadAssumption DEF Init
<1>1. /\ at \in [Threads -> Places]
      /\ \A t \in Threads : at[t] = "none" /\ lock # t /\ thread # t
  BY DEF Places
<1>2. alive \in [Threads -> BOOLEAN] /\ \A t \in Threads : ~alive[t]
  OBVIOUS
<1>3. /\ modules \in Seq(Modules) /\ DOMAIN modules = {}
      /\ todo \in [Threads -> Seq(Modules)]
  OBVIOUS
<1>4. timer \in [Threads -> 0 .. MaxWait] /\ until \in [Modules -> Nat]
  OBVIOUS
<1>5. TypeOK
  BY <1>1, <1>2, <1>3, <1>4 DEF TypeOK
<1>6. CallsOnlyRegistered
  BY <1>1 DEF CallsOnlyRegistered
<1> QED BY <1>5, <1>6 DEF Inv

LEMMA StepInv == Inv /\ [Next]_vars => Inv'
<1> SUFFICES ASSUME Inv, [Next]_vars PROVE Inv'
  OBVIOUS
<1> USE ProcessThreadAssumption DEF Inv, TypeOK, Places
<1>1. ASSUME NEW t \in Threads, Start(t) PROVE Inv'
  BY <1>1 DEF Start, CallsOnlyRegistered, Free, Registered
<1>2. CASE Stop
  BY <1>2 DEF Stop, CallsOnlyRegistered, Free, Registered
<1>3. ASSUME NEW m \in Modules, RegisterModule(m) PROVE Inv'
  <2>1. /\ modules' \in Seq(Modules)
        /\ \A i, j \in DOMAIN modules' : modules'[i] = modules'[j] => i = j
    BY <1>3, FrontList, SMTT(30) DEF RegisterModule, Registered
  <2>2. until' \in [Modules -> Nat]
    BY <1>3 DEF RegisterModule
  <2> QED BY <1>3, <2>1, <2>2 DEF RegisterModule, CallsOnlyRegistered, Free
<1>4. ASSUME NEW m \in Modules, DeRegisterModule(m) PROVE Inv'
  <2>1. PICK i \in DOMAIN modules : modules' = RemoveAt(modules, i)
    BY <1>4 DEF DeRegisterModule
  <2>2. /\ modules' \in Seq(Modules)
        /\ \A j, k \in DOMAIN modules' : modules'[j] = modules'[k] => j = k
    <3> HIDE DEF Inv, TypeOK
    <3>1. /\ modules \in Seq(Modules)
          /\ \A j, k \in DOMAIN modules : modules[j] = modules[k] => j = k
      BY DEF Inv, TypeOK
    <3>2. RemoveAt(modules, i) \in Seq(Modules)
      BY <3>1, RemoveAtShape
    <3>3. \A j, k \in DOMAIN RemoveAt(modules, i) :
            RemoveAt(modules, i)[j] = RemoveAt(modules, i)[k] => j = k
      BY <3>1, RemoveAtList
    <3> QED BY <2>1, <3>2, <3>3
  <2> QED BY <1>4, <2>2 DEF DeRegisterModule, CallsOnlyRegistered, Free
<1>5. ASSUME NEW t \in Threads, ComputeWait(t) PROVE Inv'
  BY <1>5, TimeToWaitIsLeast DEF ComputeWait, CallsOnlyRegistered, Free, Registered
<1>6. ASSUME NEW t \in Threads, WaitReturns(t) PROVE Inv'
  <2>1. event' \in BOOLEAN
    BY <1>6 DEF WaitReturns
  <2>2. /\ at[t] = "wait" /\ at' = [at EXCEPT ![t] = "woken"]
        /\ UNCHANGED <<modules, thread, lock, alive, timer, todo, until>>
    BY <1>6 DEF WaitReturns
  <2> QED BY <2>1, <2>2 DEF CallsOnlyRegistered, Registered
<1>7. ASSUME NEW t \in Threads, FindsNoThread(t) PROVE Inv'
  BY <1>7 DEF FindsNoThread, CallsOnlyRegistered, Free, Registered
<1>8. ASSUME NEW t \in Threads, FindsThread(t) PROVE Inv'
  BY <1>8 DEF FindsThread, CallsOnlyRegistered, Free, Registered
<1>9. ASSUME NEW t \in Threads, BeginPass(t) PROVE Inv'
  BY <1>9 DEF BeginPass, CallsOnlyRegistered, Free, Registered
<1>10. ASSUME NEW t \in Threads, CallModule(t) PROVE Inv'
  <2>1. /\ Tail(todo[t]) \in Seq(Modules)
        /\ \A i \in DOMAIN Tail(todo[t]) : Tail(todo[t])[i] \in Registered
    BY <1>10, HeadTailProperties, SMTT(30) DEF CallModule, CallsOnlyRegistered
  <2>2. until' \in [Modules -> Nat]
    BY <1>10 DEF CallModule
  <2>3. /\ at[t] = "pass"
        /\ todo' = [todo EXCEPT ![t] = Tail(todo[t])]
        /\ UNCHANGED <<modules, thread, lock, event, at, alive, timer>>
    BY <1>10 DEF CallModule
  <2>4. TypeOK'
    <3>1. todo' \in [Threads -> Seq(Modules)]
      BY <2>1, <2>3
    <3> QED BY <2>2, <2>3, <3>1
  <2>5. CallsOnlyRegistered'
    <3> SUFFICES ASSUME NEW u \in Threads
                 PROVE  /\ at[u] = "pass" <=> lock = u
                        /\ at[u] = "pass" =>
                             \A i \in DOMAIN todo'[u] : todo'[u][i] \in Registered
      BY <2>3 DEF CallsOnlyRegistered, Registered
    <3>1. at[u] = "pass" <=> lock = u
      BY DEF CallsOnlyRegistered
    <3>2. CASE u = t
      BY <2>1, <2>3, <3>1, <3>2
    <3>3. CASE u # t
      BY <2>3, <3>1, <3>3 DEF CallsOnlyRegistered
    <3> QED BY <3>2, <3>3, <3>1
  <2> QED BY <2>4, <2>5
<1>11. ASSUME NEW t \in Threads, EndPass(t) PROVE Inv'
  BY <1>11 DEF EndPass, CallsOnlyRegistered, Registered
<1>12. CASE Tick
  BY <1>12 DEF Tick, Less, CallsOnlyRegistered, Registered
<1>13. CASE UNCHANGED vars
  BY <1>13 DEF vars, CallsOnlyRegistered, Registered
<1> QED BY <1>1, <1>2, <1>3, <1>4, <1>5, <1>6, <1>7, <1>8, <1>9, <1>10, <1>11, <1>12, <1>13
        DEF Next, Locks, Runs

(* A thread calls only modules that are registered, one thread at a time.   *)
THEOREM CallsRegistered == Spec => []CallsOnlyRegistered
<1>1. Inv => CallsOnlyRegistered
  BY DEF Inv
<1> QED BY InitInv, StepInv, <1>1, PTL DEF Spec

(* What PromptWake says of one step.                                        *)
PromptStep(t) ==
  at'[t] = "wait" /\ alive'[t] /\ (at[t] = "wait" => Covered(t))
  => \/ Covered(t)'
     \/ \E o \in Threads \ {t} : ~alive[o] /\ at[o] = "wait" /\ at'[o] = "woken"

(* A step keeps a sleeping thread's wake-up ahead of every module's time.   *)
LEMMA StepPrompt ==
  ASSUME Inv, Inv', [Next]_vars, NEW t \in Threads
  PROVE  PromptStep(t)
<1> SUFFICES ASSUME at'[t] = "wait", alive'[t], at[t] = "wait" => Covered(t)
             PROVE  \/ Covered(t)'
                    \/ \E o \in Threads \ {t} : ~alive[o] /\ at[o] = "wait" /\ at'[o] = "woken"
  BY DEF PromptStep
<1> USE ProcessThreadAssumption DEF Inv, TypeOK
<1>0. Registered \subseteq Modules
  BY DEF Registered
<1>1. ASSUME NEW u \in Threads, Start(u) PROVE Covered(t)'
  BY <1>1 DEF Start, Covered, Registered
<1>2. CASE Stop
  BY <1>2 DEF Stop, Covered
<1>3. ASSUME NEW m \in Modules, RegisterModule(m) PROVE Covered(t)'
  BY <1>3 DEF RegisterModule, Covered
<1>4. ASSUME NEW m \in Modules, DeRegisterModule(m) PROVE Covered(t)'
  <2>1. PICK i \in DOMAIN modules : modules' = RemoveAt(modules, i)
    BY <1>4 DEF DeRegisterModule
  <2>2. Registered' \subseteq Registered
    <3> HIDE DEF Inv, TypeOK
    <3>1. modules \in Seq(Modules)
      BY DEF Inv, TypeOK
    <3>2. {RemoveAt(modules, i)[j] : j \in DOMAIN RemoveAt(modules, i)}
            \subseteq {modules[j] : j \in DOMAIN modules}
      BY <3>1, RemoveAtElements
    <3> QED BY <2>1, <3>2 DEF Registered
  <2>3. at[t] = "wait" /\ UNCHANGED <<event, timer, until>>
    BY <1>4 DEF DeRegisterModule
  <2> QED BY <2>2, <2>3 DEF Covered
<1>5. ASSUME NEW u \in Threads, ComputeWait(u) PROVE Covered(t)'
  <2>1. /\ TimeToWait \in 0 .. MaxWait
        /\ \A m \in Registered : TimeToWait <= until[m]
    BY TimeToWaitIsLeast
  <2>2. CASE u = t
    BY <1>5, <2>1, <2>2 DEF ComputeWait, Covered, Registered
  <2>3. CASE u # t
    BY <1>5, <2>3 DEF ComputeWait, Covered, Registered
  <2> QED BY <2>2, <2>3
<1>6. ASSUME NEW u \in Threads, WaitReturns(u)
      PROVE  \E o \in Threads \ {t} : ~alive[o] /\ at[o] = "wait" /\ at'[o] = "woken"
  <2>1. at[u] = "wait" /\ at' = [at EXCEPT ![u] = "woken"] /\ alive' = alive
    BY <1>6 DEF WaitReturns
  <2>2. u # t /\ at'[u] = "woken"
    BY <2>1
  <2>3. ~alive[u]
    BY <2>1, <2>2
  <2> QED BY <2>1, <2>2, <2>3
<1>7. ASSUME NEW u \in Threads, FindsNoThread(u) PROVE Covered(t)'
  BY <1>7 DEF FindsNoThread, Covered, Registered
<1>8. ASSUME NEW u \in Threads, FindsThread(u) PROVE Covered(t)'
  BY <1>8 DEF FindsThread, Covered, Registered
<1>9. ASSUME NEW u \in Threads, BeginPass(u) PROVE Covered(t)'
  BY <1>9 DEF BeginPass, Covered, Registered
<1>10. ASSUME NEW u \in Threads, CallModule(u) PROVE Covered(t)'
  <2>1. /\ at[t] = "wait"
        /\ UNCHANGED <<modules, event, timer>>
    BY <1>10 DEF CallModule
  <2>2. \A m \in Modules : until'[m] = until[m] \/ until[m] = 0
    BY <1>10, SMTT(30) DEF CallModule
  <2>3. ASSUME NEW m \in Modules, timer[t] <= until[m] PROVE timer[t] <= until'[m]
    <3>1. timer[t] \in Nat /\ until'[m] \in Nat
      OBVIOUS
    <3> HIDE DEF Inv, TypeOK
    <3>2. CASE until'[m] = until[m]
      BY <2>3, <3>2
    <3>3. CASE until[m] = 0
      BY <2>3, <3>1, <3>3
    <3> QED BY <2>2, <3>2, <3>3
  <2> QED BY <1>0, <2>1, <2>3 DEF Covered, Registered
<1>11. ASSUME NEW u \in Threads, EndPass(u) PROVE Covered(t)'
  BY <1>11 DEF EndPass, Covered, Registered
<1>12. CASE Tick
  <2>1. /\ at[t] = "wait"
        /\ UNCHANGED <<modules, event>>
        /\ timer'[t] = Less(timer[t])
        /\ \A m \in Modules : until'[m] = Less(until[m])
    BY <1>12 DEF Tick
  <2>2. \A m \in Modules : timer[t] <= until[m] => Less(timer[t]) <= Less(until[m])
    BY SMTT(30) DEF Less
  <2> QED BY <1>0, <2>1, <2>2 DEF Covered, Registered
<1>13. CASE UNCHANGED vars
  BY <1>13 DEF vars, Covered, Registered
<1> QED BY <1>1, <1>2, <1>3, <1>4, <1>5, <1>6, <1>7, <1>8, <1>9, <1>10, <1>11, <1>12, <1>13
        DEF Next, Locks, Runs

(* Whenever a module is registered, the thread that sleeps wakes up before  *)
(* the module is due, unless a thread told to stop took the event away.     *)
THEOREM WakesInTime == Spec => PromptWake
<1>1. Inv /\ Inv' /\ [Next]_vars
      => [\A t \in Threads :
            at'[t] = "wait" /\ alive'[t] /\ (at[t] = "wait" => Covered(t))
            => \/ Covered(t)'
               \/ \E o \in Threads \ {t} : ~alive[o] /\ at[o] = "wait" /\ at'[o] = "woken"]_vars
  BY StepPrompt DEF PromptStep
<1> QED BY InitInv, StepInv, <1>1, PTL DEF Spec, PromptWake

(* Every variable keeps its type, and _thread is always a thread that runs. *)
THEOREM TypeCorrect == Spec => []TypeOK
<1>1. Inv => TypeOK
  BY DEF Inv
<1> QED BY InitInv, StepInv, <1>1, PTL DEF Spec
=============================================================================
