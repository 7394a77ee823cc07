----------------------------- MODULE EventCondVar -----------------------------
(***************************************************************************)
(* ConditionVariableEventWin (webrtc/system_wrappers/source/                *)
(* condition_variable_event_win.cc): a condition variable made of three     *)
(* Windows events.  The fields of the object are one record c, and each     *)
(* operator is a piece of a method that happens at once: what a thread does *)
(* inside the critical section of the counts, or one call on an event.      *)
(***************************************************************************)
EXTENDS Integers

(* WakeAll uses two manual-reset events in turn, so that threads that come  *)
(* after it wait for the other one; Wake has an event that resets itself.   *)
New == [eventID |-> 0, waiters |-> [e \in {0, 1} |-> 0],
        all |-> [e \in {0, 1} |-> FALSE], wake |-> FALSE]

Other(e) == 1 - e

\* The event that the next WakeAll() will set.
EventToWaitFor(c) == Other(c.eventID)

CountIn(c) == [c EXCEPT !.waiters[EventToWaitFor(c)] = @ + 1]

\* WaitForMultipleObjects: Wake's event is asked first, and resets itself.
Signalled(c, e) == c.wake \/ c.all[e]
Reason(c) == IF c.wake THEN "wake" ELSE "all"
Return(c) == [c EXCEPT !.wake = FALSE]

CountOut(c, e) == [c EXCEPT !.waiters[e] = @ - 1]
LastWaiter(c, e, reason) == reason = "all" /\ CountOut(c, e).waiters[e] = 0

ResetEvent(c, e) == [c EXCEPT !.all[e] = FALSE]

HasWaiters(c) == \E e \in {0, 1} : c.waiters[e] > 0
SetWake(c) == [c EXCEPT !.wake = TRUE]

Turn(c) == [c EXCEPT !.eventID = Other(@)]
SetAll(c, e) == [c EXCEPT !.all[e] = TRUE]
=============================================================================
