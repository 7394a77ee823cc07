----------------------------- MODULE RenderStream -----------------------------
(***************************************************************************)
(* IncomingVideoStream and its VideoRenderFrames                            *)
(* (webrtc/modules/video_render): the decode thread queues frames, the      *)
(* render thread shows each when it is due, and a control thread starts,    *)
(* stops and resets the stream.                                             *)
(*                                                                          *)
(* A frame is its number in order of arrival, and carries the time left     *)
(* until its render time.  What one thread does under a lock is one step;   *)
(* the thread lock is held over the callback, the stream lock while Stop    *)
(* waits for the render thread.  Frames with a texture, and a failure to     *)
(* create the thread, are left out.                                         *)
(***************************************************************************)
EXTENDS Integers, Sequences, FiniteSets

CONSTANTS
  Delays,       \* values of render_delay_ms_
  Old,          \* KOldRenderTimestampMS
  Future,       \* KFutureRenderTimestampMS
  MaxWait,      \* KEventMaxWaitTimeMs
  Startup,      \* KEventStartupTimeMS
  MaxNumber,    \* KMaxNumberOfFrames
  MaxFrames,    \* bound on the frames delivered
  MaxStarts     \* bound on the render threads created

ASSUME RenderStreamAssumption ==
  /\ Delays \subseteq Nat /\ Delays # {}
  /\ {Old, Future, MaxNumber, MaxFrames, MaxStarts} \subseteq Nat
  /\ {MaxWait, Startup} \subseteq Nat \ {0}

VARIABLES
  incoming,     \* incoming_frames_
  empty,        \* the number of empty_frames_
  delay,        \* render_delay_ms_
  event, timer, \* deliver_buffer_event_, and the time left of its timer
  running,      \* running_
  current,      \* incoming_render_thread_
  stopping,     \* Stop is waiting for the thread, with the stream lock
  threads,      \* the render threads that were created, in order
  delivered,    \* number of frames that were delivered
  shown         \* the frames given to the callback, in order

queueVars == <<incoming, empty, delivered>>
vars == <<incoming, empty, delay, event, timer, running, current, stopping,
          threads, delivered, shown>>

Frames == 1 .. MaxFrames
NoThread == 0
NoFrame == 0
Off == -1
RenderTimes == -(Old + 1) .. Future + 1

Smaller(a, b) == IF a < b THEN a ELSE b
Larger(a, b) == IF a < b THEN b ELSE a

StreamLockFree == ~stopping
ThreadLockFree == \A t \in DOMAIN threads : threads[t].at # "callback"

(***************************************************************************)
(* VideoRenderFrames                                                        *)
(***************************************************************************)
Due(frame) == frame.left <= delay

\* Mutant: a frame that is late is not due any more.
DueFrames_OnTimeOnly ==
  {n \in 0 .. Len(incoming) : \A i \in 1 .. n : incoming[i].left = delay}

\* The numbers of frames at the front of which each is due.
DueFrames == {n \in 0 .. Len(incoming) : \A i \in 1 .. n : Due(incoming[i])}
DueCount == CHOOSE n \in DueFrames : \A k \in DueFrames : k <= n

\* Mutant: the frame that is shown stays in the queue.
FrameToRender_KeepsShown ==
  /\ incoming' = SubSeq(incoming, Larger(DueCount, 1), Len(incoming))
  /\ empty' = empty + Larger(DueCount - 1, 0)

\* Only the newest of them is shown; the others' buffers are free again.
FrameToRender ==
  /\ incoming' = SubSeq(incoming, DueCount + 1, Len(incoming))
  /\ empty' = empty + Larger(DueCount - 1, 0)
Released == IF DueCount = 0 THEN NoFrame ELSE incoming[DueCount].id

TimeToNextFrameRelease(queue) ==
  IF queue = <<>> THEN MaxWait
  ELSE Smaller(Larger(Head(queue).left - delay, 0), MaxWait)

Refused(left) ==
  \/ incoming # <<>> /\ left < -Old
  \/ left > Future
  \/ empty = 0 /\ Len(incoming) > MaxNumber

\* Mutant: a free buffer is not used again.
Buffers_NeverReused == empty

\* Mutant: the list of free buffers is not asked whether it is empty.
Buffers_Unasked == empty - 1

\* A free buffer is taken, or a new one allocated.
Buffers == Larger(empty - 1, 0)

AddFrame(left) ==
  IF Refused(left) THEN UNCHANGED <<incoming, empty>>
  ELSE /\ incoming' = Append(incoming, [id |-> delivered + 1, left |-> left])
       /\ empty' = Buffers

(***************************************************************************)
(* The decode thread                                                        *)
(***************************************************************************)
\* Mutant: the event is set for the second frame of the queue, not the first.
RenderFrame_LateSet(left) ==
  /\ StreamLockFree /\ running /\ delivered < MaxFrames
  /\ AddFrame(left)
  /\ event' = (event \/ (~Refused(left) /\ Len(incoming') = 2))
  /\ delivered' = delivered + 1
  /\ UNCHANGED <<delay, timer, running, current, stopping, threads, shown>>

RenderFrame(left) ==
  /\ StreamLockFree /\ running /\ delivered < MaxFrames
  /\ AddFrame(left)
  /\ event' = (event \/ (~Refused(left) /\ Len(incoming') = 1))
  /\ delivered' = delivered + 1
  /\ UNCHANGED <<delay, timer, running, current, stopping, threads, shown>>

(***************************************************************************)
(* The render threads                                                       *)
(***************************************************************************)
At(t, state) == threads' = [threads EXCEPT ![t].at = state, ![t].frame = NoFrame]
Showing(t, state, frame) ==
  threads' = [threads EXCEPT ![t].at = state, ![t].frame = frame]

\* ThreadWindows::Run calls the function again while the thread is alive.
Again(t) == At(t, IF threads[t].alive THEN "waiting" ELSE "ended")

\* Wait returns with the event, which it resets, or after MaxWait.
WaitReturns(t) ==
  /\ threads[t].at = "waiting"
  /\ event' = FALSE
  /\ At(t, "woken")
  /\ UNCHANGED <<queueVars, delay, timer, running, current, stopping, shown>>

\* Mutant: the thread does not look whether the stream is being stopped.
Process_NoCheck(t) ==
  /\ threads[t].at = "woken" /\ ThreadLockFree
  /\ FrameToRender
  /\ timer' = TimeToNextFrameRelease(incoming')
  /\ IF Released = NoFrame THEN Again(t) /\ UNCHANGED shown
     ELSE Showing(t, "callback", Released) /\ shown' = Append(shown, Released)
  /\ UNCHANGED <<delivered, delay, event, running, current, stopping>>

Terminate(t) ==
  /\ threads[t].at = "woken" /\ ThreadLockFree
  /\ current = NoThread
  /\ At(t, "ended")
  /\ UNCHANGED <<queueVars, delay, event, timer, running, current, stopping, shown>>

\* With no frame to show, the start or timeout image may be.
Process(t) ==
  /\ threads[t].at = "woken" /\ ThreadLockFree
  /\ current # NoThread
  /\ FrameToRender
  /\ timer' = TimeToNextFrameRelease(incoming')
  /\ \/ Released = NoFrame /\ Again(t)
     \/ Showing(t, "callback", Released)
  /\ shown' = IF Released = NoFrame THEN shown ELSE Append(shown, Released)
  /\ UNCHANGED <<delivered, delay, event, running, current, stopping>>

CallbackReturns(t) ==
  /\ threads[t].at = "callback"
  /\ IF threads[t].frame = NoFrame THEN Again(t)
     ELSE Showing(t, "returning", threads[t].frame)
  /\ UNCHANGED <<queueVars, delay, event, timer, running, current, stopping, shown>>

ReturnFrame(t) ==
  /\ threads[t].at = "returning"
  /\ empty' = empty + 1
  /\ Again(t)
  /\ UNCHANGED <<incoming, delivered, delay, event, timer, running, current,
                 stopping, shown>>

(***************************************************************************)
(* The control thread                                                       *)
(***************************************************************************)
Start ==
  /\ StreamLockFree /\ ~running /\ ThreadLockFree
  /\ Len(threads) < MaxStarts
  /\ threads' = Append(threads, [at |-> "waiting", alive |-> TRUE, frame |-> NoFrame])
  /\ current' = Len(threads')
  /\ timer' = Startup
  /\ running' = TRUE
  /\ UNCHANGED <<queueVars, delay, event, stopping, shown>>

\* Stop up to the wait for the thread.
Stop ==
  /\ StreamLockFree /\ running /\ ThreadLockFree
  /\ threads' = [threads EXCEPT ![current].alive = FALSE]
  /\ current' = NoThread
  /\ timer' = Off
  /\ stopping' = TRUE
  /\ UNCHANGED <<queueVars, delay, event, running, shown>>

\* The thread has ended, or two seconds are over and it is leaked.
StopReturns ==
  /\ stopping
  /\ stopping' = FALSE
  /\ running' = FALSE
  /\ UNCHANGED <<queueVars, delay, event, timer, current, threads, shown>>

Reset ==
  /\ StreamLockFree
  /\ incoming' = <<>> /\ empty' = 0
  /\ UNCHANGED <<delivered, delay, event, timer, running, current, stopping, threads, shown>>

SetExpectedRenderDelay(d) ==
  /\ StreamLockFree /\ ~running
  /\ delay' = d
  /\ UNCHANGED <<queueVars, event, timer, running, current, stopping, threads, shown>>

(***************************************************************************)
(* Time                                                                     *)
(***************************************************************************)
TimerFires ==
  /\ timer = 0
  /\ event' = TRUE /\ timer' = Off
  /\ UNCHANGED <<queueVars, delay, running, current, stopping, threads, shown>>

\* A time left is counted down to where no comparison tells it apart.
Tick ==
  /\ timer # 0
  /\ timer' = Larger(timer - 1, Off)
  /\ incoming' = [i \in DOMAIN incoming |->
                   [incoming[i] EXCEPT !.left = Larger(@ - 1, -1)]]
  /\ UNCHANGED <<empty, delivered, delay, event, running, current, stopping, threads, shown>>

Init ==
  /\ incoming = <<>> /\ empty = 0 /\ delay \in Delays
  /\ event = FALSE /\ timer = Off
  /\ running = FALSE /\ current = NoThread /\ stopping = FALSE
  /\ threads = <<>> /\ delivered = 0 /\ shown = <<>>

RenderThread(t) ==
  WaitReturns(t) \/ Terminate(t) \/ Process(t) \/ CallbackReturns(t) \/ ReturnFrame(t)

Next ==
  \/ \E left \in RenderTimes : RenderFrame(left)
  \/ \E t \in DOMAIN threads : RenderThread(t)
  \/ Start \/ Stop \/ StopReturns \/ Reset
  \/ \E d \in Delays : SetExpectedRenderDelay(d)
  \/ TimerFires \/ Tick

Spec == Init /\ [][Next]_vars
=============================================================================
