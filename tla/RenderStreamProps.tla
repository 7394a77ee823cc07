--------------------------- MODULE RenderStreamProps ---------------------------
(***************************************************************************)
(* What must hold of the render stream.                                     *)
(***************************************************************************)
EXTENDS RenderStream

(* Types; frames wait in order of arrival, a thread has a frame only while  *)
(* it shows it or returns it, and the stream has a thread while it runs,    *)
(* until Stop has taken it (Start, Stop).                                   *)
TypeOK ==
  /\ \A i \in DOMAIN incoming :
       incoming[i].id \in 1 .. delivered /\ incoming[i].left \in RenderTimes
  /\ \A i, j \in DOMAIN incoming : i < j => incoming[i].id < incoming[j].id
  /\ empty \in Nat /\ delay \in Delays
  /\ event \in BOOLEAN /\ timer \in Off .. Larger(MaxWait, Startup)
  /\ running \in BOOLEAN /\ stopping \in BOOLEAN
  /\ current \in 0 .. Len(threads) /\ (current = NoThread <=> stopping \/ ~running)
  /\ \A t \in DOMAIN threads :
       /\ threads[t].at \in {"waiting", "woken", "callback", "returning", "ended"}
       /\ threads[t].frame \in 0 .. delivered
       /\ threads[t].frame # NoFrame => threads[t].at \in {"callback", "returning"}
  /\ delivered \in 0 .. MaxFrames /\ shown \in Seq(1 .. delivered)

(* Frames are shown in the order they were delivered and none twice, over   *)
(* restarts, and also when a thread that Stop did not wait for wakes up     *)
(* beside its successor.                                                    *)
ShownInOrder == \A i, j \in DOMAIN shown : i < j => shown[i] < shown[j]

(* From the moment Stop has given up the thread until the next Start no     *)
(* thread is in a callback, also when Stop returned without having waited   *)
(* long enough (the check of incoming_render_thread_ under the thread lock).*)
SilentWhenStopped ==
  stopping \/ ~running => \A t \in DOMAIN threads : threads[t].at # "callback"

(* The buffers ever in use at once stay within the limit, one, and one for  *)
(* each render thread, whatever order frames are added, dropped, shown,     *)
(* returned and released in (AddFrame, ReturnFrame, ReleaseAllFrames).      *)
Shown == {t \in DOMAIN threads : threads[t].frame # NoFrame}
BuffersBounded ==
  Len(incoming) + empty + Cardinality(Shown) <= MaxNumber + 1 + Len(threads)

(* While all threads wait and the event is not set, the timer is set to     *)
(* wake one by the time the first frame is due, or by the startup time of a *)
(* thread that finds frames from before: RenderFrame sets the event for the *)
(* first frame of the queue only, and one timer serves both threads.        *)
Live == {t \in DOMAIN threads : threads[t].at # "ended"}
WakesForHead ==
  /\ running /\ ~stopping /\ ~event /\ incoming # <<>>
  /\ \A t \in Live : threads[t].at = "waiting"
  => timer \in 0 .. Larger(TimeToNextFrameRelease(incoming), Startup)

(* Threads run, callbacks return, time passes and timers fire; that Wait    *)
(* returns without the event is not relied on.                              *)
Progress(t) ==
  \/ event /\ WaitReturns(t)
  \/ Terminate(t) \/ Process(t) \/ CallbackReturns(t) \/ ReturnFrame(t)

Fairness ==
  /\ \A t \in 1 .. MaxStarts : WF_vars(t \in DOMAIN threads /\ Progress(t))
  /\ WF_vars(TimerFires) /\ WF_vars(Tick)

FairSpec == Spec /\ Fairness

(* While the stream stays running, every frame leaves the queue in the end: *)
(* it is shown, passed over for a later one, or dropped by Reset.           *)
QueueServed ==
  <>[](running /\ ~stopping) => \A f \in Frames :
    (\E i \in DOMAIN incoming : incoming[i].id = f)
      ~> (\A i \in DOMAIN incoming : incoming[i].id # f)
=============================================================================
