--------------------------- MODULE RenderStreamProofs ---------------------------
(***************************************************************************)
(* For any delays, limits and number of render threads: frames are shown in *)
(* order, none is shown after Stop, a thread wakes up for the first frame,  *)
(* and the buffers stay bounded.  The invariant says where the frames shown *)
(* stand to those that wait, when incoming_render_thread_ is there, and that*)
(* the timer is right as long as no thread is about to set it.              *)
(***************************************************************************)
EXTENDS RenderStreamProps, WellFoundedInduction, SequenceTheorems,
        FiniteSetTheorems, TLAPS

(***************************************************************************)
(* Facts about numbers and sequences                                        *)
(***************************************************************************)
(* A non-empty set of natural numbers has a least element: a CHOOSE of the  *)
(* least, as in a linear search or a minimum of times, has a witness.       *)
LEMMA LeastElement ==
  ASSUME NEW S \in SUBSET Nat, S # {}
  PROVE  \E i \in S : \A j \in S : i <= j
<1> DEFINE R == OpToRel(<, Nat)
<1>1. \A x, y \in S : <<y, x>> \in R <=> y < x
  BY SMT DEF OpToRel
<1>2. IsWellFoundedOn(R, Nat)
  BY NatLessThanWellFounded
<1> HIDE DEF R
<1>3. PICK x \in S : \A y \in S : ~(<<y, x>> \in R)
  BY <1>2, WFMin
<1>4. \A y \in S : ~(y < x)
  BY <1>1, <1>3
<1> QED BY <1>4

(* Without its first n elements.                                            *)
LEMMA DropFirst ==
  ASSUME NEW S, NEW s \in Seq(S), NEW n \in 0 .. Len(s)
  PROVE  /\ SubSeq(s, n + 1, Len(s)) \in Seq(S)
         /\ Len(SubSeq(s, n + 1, Len(s))) = Len(s) - n
         /\ \A i \in 1 .. Len(s) - n : SubSeq(s, n + 1, Len(s))[i] = s[n + i]
<1>1. \A i \in n + 1 .. Len(s) : s[i] \in S
  OBVIOUS
<1> QED BY <1>1

Places == {"waiting", "woken", "callback", "returning", "ended"}
Frame == [id : Nat, left : Int]
Thread == [at : Places, alive : BOOLEAN, frame : Nat]

(* What was shown was delivered before what waits.                          *)
QueueInv ==
  /\ incoming \in Seq(Frame)
  /\ delivered \in 0 .. MaxFrames
  /\ \A i \in DOMAIN incoming :
       incoming[i].id \in 1 .. delivered /\ incoming[i].left \in RenderTimes
  /\ \A i, j \in DOMAIN incoming : i < j => incoming[i].id < incoming[j].id
  /\ shown \in Seq(1 .. delivered)
  /\ ShownInOrder
  /\ \A i \in DOMAIN shown, j \in DOMAIN incoming : shown[i] < incoming[j].id

(* incoming_render_thread_ is there while the stream runs and is not being  *)
(* stopped, and without it no thread is in a callback.                      *)
ControlInv ==
  /\ threads \in Seq(Thread)
  /\ \A t \in DOMAIN threads :
       /\ threads[t].frame \in 0 .. delivered
       /\ threads[t].frame # NoFrame => threads[t].at \in {"callback", "returning"}
       /\ threads[t].at = "returning" => threads[t].frame # NoFrame
  /\ current \in 0 .. Len(threads)
  /\ running \in BOOLEAN /\ stopping \in BOOLEAN
  /\ current = NoThread <=> stopping \/ ~running
  /\ current = NoThread => ThreadLockFree

(* Once no thread is about to set it, the timer is right for the first frame.*)
WakeInv ==
  /\ event \in BOOLEAN /\ timer \in Off .. Larger(MaxWait, Startup)
  /\ delay \in Delays /\ empty \in Nat
  /\ /\ running /\ ~stopping /\ ~event /\ incoming # <<>>
     /\ \A t \in DOMAIN threads : threads[t].at # "woken"
     => timer \in 0 .. Larger(TimeToNextFrameRelease(incoming), Startup)

Inv == QueueInv /\ ControlInv /\ WakeInv

(***************************************************************************)
(* Lemmas about the steps                                                   *)
(***************************************************************************)
LEMMA DueCountRange ==
  ASSUME incoming \in Seq(Frame)
  PROVE  DueCount \in 0 .. Len(incoming)
<1> DEFINE n == Len(incoming)
           rest == {n - k : k \in DueFrames}
<1>1. n \in Nat /\ DueFrames \subseteq 0 .. n /\ 0 \in DueFrames
  BY DEF DueFrames
<1>2. rest \in SUBSET Nat /\ rest # {}
  BY <1>1
<1>3. PICK r \in rest : \A o \in rest : r <= o
  BY <1>2, LeastElement
<1>4. PICK g \in DueFrames : r = n - g
  BY <1>3
<1>5. \A k \in DueFrames : k <= g
  <2> SUFFICES ASSUME NEW k \in DueFrames PROVE k <= g
    OBVIOUS
  <2>1. n - k \in rest
    OBVIOUS
  <2>2. k \in Nat /\ g \in Nat
    BY <1>1
  <2>3. n - g <= n - k
    BY <1>3, <1>4, <2>1
  <2> HIDE DEF n
  <2> QED BY <1>1, <2>2, <2>3
<1>6. DueCount \in DueFrames
  BY <1>5 DEF DueCount
<1> QED BY <1>1, <1>6

(* One render thread changes its place.                                     *)
LEMMA OneThreadMoves ==
  ASSUME threads \in Seq(Thread), NEW t \in DOMAIN threads
  PROVE  \A a \in Places, f \in Nat :
           threads' = [threads EXCEPT ![t].at = a, ![t].frame = f] =>
             /\ threads' \in Seq(Thread)
             /\ Len(threads') = Len(threads) /\ DOMAIN threads' = DOMAIN threads
             /\ \A u \in DOMAIN threads :
                  threads'[u] = IF u = t THEN [at |-> a, alive |-> threads[t].alive, frame |-> f]
                                ELSE threads[u]
<1> TAKE a \in Places, f \in Nat
<1> HAVE threads' = [threads EXCEPT ![t].at = a, ![t].frame = f]
<1> DEFINE r == [at |-> a, alive |-> threads[t].alive, frame |-> f]
<1>1. threads[t] \in Thread
  OBVIOUS
<1>2. r \in Thread
  BY <1>1 DEF Thread
<1>3. [[threads[t] EXCEPT !.at = a] EXCEPT !.frame = f] = r
  <2>1. threads[t] = [at |-> threads[t].at, alive |-> threads[t].alive, frame |-> threads[t].frame]
    BY <1>1 DEF Thread
  <2>2. [threads[t] EXCEPT !.at = a] = [at |-> a, alive |-> threads[t].alive, frame |-> threads[t].frame]
    BY <2>1
  <2>3. [[at |-> a, alive |-> threads[t].alive, frame |-> threads[t].frame] EXCEPT !.frame = f] = r
    OBVIOUS
  <2> QED BY <2>2, <2>3
<1>4. threads' = [threads EXCEPT ![t] = r]
  BY <1>1, <1>3
<1> HIDE DEF r
<1>5. t \in 1 .. Len(threads) /\ DOMAIN threads = 1 .. Len(threads)
  OBVIOUS
<1>6. /\ threads' \in Seq(Thread) /\ Len(threads') = Len(threads)
      /\ \A u \in 1 .. Len(threads) : threads'[u] = IF u = t THEN r ELSE threads[u]
  <2> HIDE DEF Thread
  <2>1. threads \in Seq(Thread) /\ r \in Thread
    BY <1>2
  <2>2. /\ [threads EXCEPT ![t] = r] \in Seq(Thread)
        /\ Len([threads EXCEPT ![t] = r]) = Len(threads)
        /\ \A u \in 1 .. Len(threads) : [threads EXCEPT ![t] = r][u] = IF u = t THEN r ELSE threads[u]
    BY <1>5, <2>1, ExceptSeq
  <2> QED BY <1>4, <2>2
<1>7. DOMAIN threads' = 1 .. Len(threads)
  BY <1>6
<1> QED BY <1>5, <1>6, <1>7 DEF r

LEMMA AddFrameQueue ==
  ASSUME QueueInv, NEW left \in RenderTimes, delivered < MaxFrames, AddFrame(left),
         delivered' = delivered + 1, shown' = shown
  PROVE  QueueInv'
<1> DEFINE new == [id |-> delivered + 1, left |-> left]
<1>1. /\ delivered \in Nat /\ delivered' \in 0 .. MaxFrames /\ 1 .. delivered \subseteq 1 .. delivered'
      /\ RenderTimes' = RenderTimes /\ RenderTimes \subseteq Int
  BY RenderStreamAssumption DEF QueueInv, RenderTimes
<1>2. new \in Frame /\ new.id = delivered' /\ new.left = left
  BY <1>1 DEF Frame, RenderTimes
<1>3. shown' \in Seq(1 .. delivered') /\ ShownInOrder'
  BY <1>1 DEF QueueInv, ShownInOrder
<1>4. CASE incoming' = incoming
  BY <1>1, <1>3, <1>4 DEF QueueInv
<1>5. CASE incoming' = Append(incoming, new)
  <2> HIDE DEF new
  <2>1. /\ incoming' \in Seq(Frame) /\ Len(incoming') = Len(incoming) + 1
        /\ \A i \in 1 .. Len(incoming) + 1 :
             incoming'[i] = IF i <= Len(incoming) THEN incoming[i] ELSE new
    BY <1>2, <1>5 DEF QueueInv
  <2>2. DOMAIN incoming' = 1 .. Len(incoming) + 1 /\ DOMAIN incoming = 1 .. Len(incoming)
        /\ Len(incoming) \in Nat
    BY <2>1 DEF QueueInv
  <2>3. \A i \in DOMAIN incoming' :
          incoming'[i].id \in 1 .. delivered' /\ incoming'[i].left \in RenderTimes
    BY <1>1, <1>2, <2>1, <2>2 DEF QueueInv
  <2>4. \A i, j \in DOMAIN incoming' : i < j => incoming'[i].id < incoming'[j].id
    BY <1>1, <1>2, <2>1, <2>2 DEF QueueInv
  <2>5. \A i \in DOMAIN shown', j \in DOMAIN incoming' : shown'[i] < incoming'[j].id
    BY <1>1, <1>2, <2>1, <2>2, SMTT(30) DEF QueueInv
  <2> QED BY <1>1, <1>3, <2>1, <2>3, <2>4, <2>5 DEF QueueInv
<1> QED BY <1>4, <1>5 DEF AddFrame

(* The frame that is released is newer than what was shown, and older than  *)
(* what stays.                                                              *)
LEMMA ReleaseQueue ==
  ASSUME QueueInv, FrameToRender, delivered' = delivered,
         shown' = IF Released = NoFrame THEN shown ELSE Append(shown, Released)
  PROVE  QueueInv' /\ Released \in 0 .. delivered
<1> DEFINE n == DueCount
<1>1. n \in 0 .. Len(incoming) /\ Len(incoming) \in Nat /\ delivered \in Nat
      /\ incoming \in Seq(Frame) /\ DOMAIN incoming = 1 .. Len(incoming)
  BY DueCountRange, RenderStreamAssumption DEF QueueInv
<1>2. incoming' = SubSeq(incoming, n + 1, Len(incoming))
  BY DEF FrameToRender
<1>3. Released = IF n = 0 THEN 0 ELSE incoming[n].id
  BY DEF Released, NoFrame
<1> HIDE DEF n
<1>4. /\ incoming' \in Seq(Frame) /\ Len(incoming') = Len(incoming) - n
      /\ \A i \in 1 .. Len(incoming) - n : incoming'[i] = incoming[n + i]
  <2> HIDE DEF Frame
  <2> QED BY <1>1, <1>2, DropFirst
<1>5. /\ DOMAIN incoming' = 1 .. Len(incoming) - n
      /\ \A i \in DOMAIN incoming' : n + i \in DOMAIN incoming /\ incoming'[i] = incoming[n + i]
  BY <1>1, <1>4
<1>6. \A i \in DOMAIN incoming' :
        incoming'[i].id \in 1 .. delivered /\ incoming'[i].left \in RenderTimes
  BY <1>5 DEF QueueInv
<1>7. \A i, j \in DOMAIN incoming' : i < j => incoming'[i].id < incoming'[j].id
  <2> SUFFICES ASSUME NEW i \in DOMAIN incoming', NEW j \in DOMAIN incoming', i < j
               PROVE  incoming'[i].id < incoming'[j].id
    OBVIOUS
  <2>1. n + i < n + j
    BY <1>1, <1>5
  <2> QED BY <1>5, <2>1 DEF QueueInv
<1>8. shown \in Seq(1 .. delivered) /\ Len(shown) \in Nat /\ DOMAIN shown = 1 .. Len(shown)
  BY DEF QueueInv
<1>9. CASE n = 0
  <2>1. shown' = shown /\ Released = 0
    BY <1>3, <1>9 DEF NoFrame
  <2>2. \A i \in DOMAIN shown', j \in DOMAIN incoming' : shown'[i] < incoming'[j].id
    BY <1>5, <2>1 DEF QueueInv
  <2> QED BY <1>1, <1>4, <1>6, <1>7, <2>1, <2>2 DEF QueueInv, ShownInOrder, RenderTimes
<1>10. CASE n # 0
  <2>1. n \in DOMAIN incoming /\ Released = incoming[n].id /\ Released \in 1 .. delivered
    BY <1>1, <1>3, <1>10 DEF QueueInv
  <2>2. shown' = Append(shown, Released)
    BY <2>1 DEF NoFrame
  <2>3. /\ shown' \in Seq(1 .. delivered) /\ DOMAIN shown' = 1 .. Len(shown) + 1
        /\ \A i \in 1 .. Len(shown) + 1 :
             shown'[i] = IF i <= Len(shown) THEN shown[i] ELSE Released
    <3> HIDE DEF Released
    <3>1. Released \in 1 .. delivered
      BY <2>1
    <3>2. /\ shown' \in Seq(1 .. delivered) /\ Len(shown') = Len(shown) + 1
          /\ \A i \in 1 .. Len(shown) : shown'[i] = shown[i]
          /\ shown'[Len(shown) + 1] = Released
      <4>1. shown \in Seq(1 .. delivered)
        BY <1>8
      <4> DEFINE S == 1 .. delivered
      <4> HIDE DEF S
      <4>2. shown \in Seq(S) /\ Released \in S
        BY <3>1, <4>1 DEF S
      <4>3. /\ shown' \in Seq(S) /\ Len(shown') = Len(shown) + 1
            /\ \A i \in 1 .. Len(shown) : shown'[i] = shown[i]
            /\ shown'[Len(shown) + 1] = Released
        BY <2>2, <4>2, AppendProperties
      <4> QED BY <4>3 DEF S
    <3> QED BY <1>8, <3>2
  <2>4. \A i \in DOMAIN shown : shown[i] < Released /\ shown[i] \in Nat
    BY <1>8, <2>1 DEF QueueInv
  <2>5. \A j \in DOMAIN incoming' : Released < incoming'[j].id
    <3> SUFFICES ASSUME NEW j \in DOMAIN incoming' PROVE Released < incoming'[j].id
      OBVIOUS
    <3>1. n < n + j
      BY <1>1, <1>5
    <3> QED BY <1>5, <2>1, <3>1 DEF QueueInv
  <2>6. ShownInOrder'
    BY <1>8, <2>3, <2>4 DEF ShownInOrder, QueueInv
  <2>7. \A i \in DOMAIN shown', j \in DOMAIN incoming' : shown'[i] < incoming'[j].id
    <3> SUFFICES ASSUME NEW i \in DOMAIN shown', NEW j \in DOMAIN incoming'
                 PROVE  shown'[i] < incoming'[j].id
      OBVIOUS
    <3>1. CASE i <= Len(shown)
      BY <1>5, <1>8, <2>3, <3>1 DEF QueueInv
    <3>2. CASE ~(i <= Len(shown))
      BY <2>3, <2>5, <3>2
    <3> QED BY <3>1, <3>2
  <2>8. QueueInv'
    BY <1>4, <1>6, <1>7, <2>3, <2>6, <2>7 DEF QueueInv, RenderTimes
  <2> QED BY <1>1, <2>1, <2>8
<1> QED BY <1>9, <1>10

LEMMA TickQueue ==
  ASSUME QueueInv, Tick
  PROVE  /\ QueueInv'
         /\ Len(incoming') = Len(incoming)
         /\ \A i \in DOMAIN incoming : incoming'[i].left = Larger(incoming[i].left - 1, -1)
<1>1. /\ incoming \in Seq(Frame) /\ Len(incoming) \in Nat /\ DOMAIN incoming = 1 .. Len(incoming)
      /\ \A i \in DOMAIN incoming : incoming[i] \in Frame /\ incoming[i].left \in RenderTimes
  BY DEF QueueInv
<1>2. incoming' = [i \in DOMAIN incoming |-> [incoming[i] EXCEPT !.left = Larger(@ - 1, -1)]]
      /\ UNCHANGED <<delivered, shown>>
  BY DEF Tick
<1>3. \A i \in DOMAIN incoming :
        /\ incoming'[i].id = incoming[i].id
        /\ incoming'[i].left = Larger(incoming[i].left - 1, -1)
        /\ incoming'[i] = [id |-> incoming[i].id, left |-> Larger(incoming[i].left - 1, -1)]
  <2> TAKE i \in DOMAIN incoming
  <2>1. incoming[i] = [id |-> incoming[i].id, left |-> incoming[i].left]
    BY <1>1 DEF Frame
  <2> QED BY <1>2, <2>1
<1>4. \A i \in DOMAIN incoming :
        incoming[i].id \in Nat /\ Larger(incoming[i].left - 1, -1) \in RenderTimes
        /\ Larger(incoming[i].left - 1, -1) \in Int
  <2>1. Old \in Nat /\ Future \in Nat
    BY RenderStreamAssumption
  <2> TAKE i \in DOMAIN incoming
  <2>2. incoming[i].id \in Nat /\ incoming[i].left \in -(Old + 1) .. Future + 1
    BY <1>1 DEF Frame, RenderTimes
  <2>3. Larger(incoming[i].left - 1, -1) \in -(Old + 1) .. Future + 1
    BY <2>1, <2>2 DEF Larger
  <2> QED BY <2>1, <2>2, <2>3 DEF RenderTimes
<1>5. \A i \in DOMAIN incoming : incoming'[i] \in Frame
  <2> TAKE i \in DOMAIN incoming
  <2> DEFINE l == Larger(incoming[i].left - 1, -1)
             d == incoming[i].id
  <2>1. incoming'[i] = [id |-> d, left |-> l] /\ d \in Nat /\ l \in Int
    BY <1>3, <1>4
  <2> HIDE DEF l, d
  <2> QED BY <2>1 DEF Frame
<1>6. incoming' \in Seq(Frame) /\ Len(incoming') = Len(incoming) /\ DOMAIN incoming' = DOMAIN incoming
  BY <1>1, <1>2, <1>5
<1>7. QueueInv'
  <2>1. \A i \in DOMAIN incoming' :
          incoming'[i].id \in 1 .. delivered' /\ incoming'[i].left \in RenderTimes
    BY <1>2, <1>3, <1>4, <1>6 DEF QueueInv
  <2>2. \A i, j \in DOMAIN incoming' : i < j => incoming'[i].id < incoming'[j].id
    BY <1>3, <1>6 DEF QueueInv
  <2>3. \A i \in DOMAIN shown', j \in DOMAIN incoming' : shown'[i] < incoming'[j].id
    BY <1>2, <1>3, <1>6 DEF QueueInv
  <2>4. ShownInOrder' /\ shown' \in Seq(1 .. delivered') /\ delivered' \in 0 .. MaxFrames
    BY <1>2 DEF QueueInv, ShownInOrder
  <2> QED BY <1>6, <2>1, <2>2, <2>3, <2>4 DEF QueueInv, RenderTimes
<1> QED BY <1>3, <1>6, <1>7

LEMMA MoveControl ==
  ASSUME ControlInv, delivered \in Nat, NEW t \in DOMAIN threads,
         NEW a \in Places, NEW f \in 0 .. delivered,
         f # NoFrame => a \in {"callback", "returning"}, a = "returning" => f # NoFrame,
         a = "callback" => current # NoThread,
         threads' = [threads EXCEPT ![t].at = a, ![t].frame = f],
         UNCHANGED <<current, running, stopping, delivered>>
  PROVE  /\ ControlInv'
         /\ DOMAIN threads' = DOMAIN threads /\ threads'[t].at = a
         /\ \A u \in DOMAIN threads : u # t => threads'[u] = threads[u]
<1>1. /\ threads' \in Seq(Thread)
      /\ Len(threads') = Len(threads) /\ DOMAIN threads' = DOMAIN threads
      /\ \A u \in DOMAIN threads :
           threads'[u] = IF u = t THEN [at |-> a, alive |-> threads[t].alive, frame |-> f]
                         ELSE threads[u]
  <2>1. f \in Nat /\ threads \in Seq(Thread)
    BY DEF ControlInv
  <2> HIDE DEF Thread, Places
  <2>2. \A b \in Places, g \in Nat :
          threads' = [threads EXCEPT ![t].at = b, ![t].frame = g] =>
            /\ threads' \in Seq(Thread)
            /\ Len(threads') = Len(threads) /\ DOMAIN threads' = DOMAIN threads
            /\ \A u \in DOMAIN threads :
                 threads'[u] = IF u = t THEN [at |-> b, alive |-> threads[t].alive, frame |-> g]
                               ELSE threads[u]
    BY ONLY <2>1, OneThreadMoves, t \in DOMAIN threads, Zenon
  <2> QED BY <2>1, <2>2, Zenon
<1>2. threads'[t].at = a /\ threads'[t].frame = f
  BY <1>1
<1>3. \A u \in DOMAIN threads' :
        /\ threads'[u].frame \in 0 .. delivered'
        /\ threads'[u].frame # NoFrame => threads'[u].at \in {"callback", "returning"}
        /\ threads'[u].at = "returning" => threads'[u].frame # NoFrame
  BY <1>1, <1>2 DEF ControlInv
<1>4. current' = NoThread => ThreadLockFree'
  BY <1>1, <1>2 DEF ControlInv, ThreadLockFree
<1>5. current' \in 0 .. Len(threads') /\ running' \in BOOLEAN /\ stopping' \in BOOLEAN
      /\ (current' = NoThread <=> stopping' \/ ~running')
  BY <1>1 DEF ControlInv
<1> QED BY <1>1, <1>2, <1>3, <1>4, <1>5 DEF ControlInv

(* The timer that Process sets is right for the queue it leaves.            *)
LEMMA ReleaseTimer ==
  ASSUME QueueInv, WakeInv
  PROVE  /\ TimeToNextFrameRelease(incoming) \in 0 .. MaxWait
         /\ TimeToNextFrameRelease(incoming) \in 0 .. Larger(TimeToNextFrameRelease(incoming), Startup)
         /\ TimeToNextFrameRelease(incoming) \in Off .. Larger(MaxWait, Startup)
<1>1. MaxWait \in Nat /\ Startup \in Nat /\ delay \in Nat
  BY RenderStreamAssumption DEF WakeInv
<1>2. incoming # <<>> => Head(incoming).left \in Int
  <2>1. incoming # <<>> => Head(incoming) \in Frame
    BY DEF QueueInv
  <2> QED BY <2>1 DEF Frame
<1>3. TimeToNextFrameRelease(incoming) \in 0 .. MaxWait
  BY <1>1, <1>2 DEF TimeToNextFrameRelease, Larger, Smaller
<1> QED BY <1>1, <1>3 DEF Larger, Off

LEMMA InitInv == Init => Inv
<1> SUFFICES ASSUME Init PROVE Inv
  OBVIOUS
<1> USE DEF Init
<1>1. /\ incoming = <<>> /\ shown = <<>> /\ threads = <<>> /\ delivered = 0 /\ MaxFrames \in Nat
  BY RenderStreamAssumption
<1>2. QueueInv
  BY <1>1 DEF QueueInv, ShownInOrder
<1>3. ControlInv
  <2>1. threads \in Seq(Thread) /\ DOMAIN threads = {} /\ Len(threads) = 0
    BY <1>1
  <2>2. current = 0 /\ running = FALSE /\ stopping = FALSE
    BY DEF NoThread
  <2> HIDE DEF Init
  <2>3. ThreadLockFree
    BY <2>1 DEF ThreadLockFree
  <2>4. current \in 0 .. Len(threads)
    BY <2>1, <2>2
  <2>5. current = NoThread
    BY <2>2 DEF NoThread
  <2> QED BY <2>1, <2>2, <2>3, <2>4, <2>5, Zenon DEF ControlInv
<1>4. WakeInv
  <2>1. Off \in Off .. Larger(MaxWait, Startup)
    BY RenderStreamAssumption DEF Off, Larger
  <2>2. event \in BOOLEAN /\ delay \in Delays /\ empty \in Nat /\ timer = Off /\ ~running
    OBVIOUS
  <2> QED BY <2>1, <2>2 DEF WakeInv
<1> QED BY <1>2, <1>3, <1>4 DEF Inv

LEMMA DecodeStep ==
  ASSUME Inv, NEW left \in RenderTimes, RenderFrame(left)
  PROVE  Inv'
<1>1. /\ AddFrame(left) /\ delivered' = delivered + 1 /\ delivered < MaxFrames
      /\ UNCHANGED <<delay, timer, running, current, stopping, threads, shown>>
  BY DEF RenderFrame
<1>2. QueueInv'
  BY <1>1, AddFrameQueue DEF Inv
<1>3. ControlInv'
  <2>1. 0 .. delivered \subseteq 0 .. delivered'
    BY <1>1 DEF Inv, QueueInv
  <2> QED BY <1>1, <2>1 DEF Inv, ControlInv, ThreadLockFree
<1>4. WakeInv'
  <2>1. event' \in BOOLEAN
    BY DEF RenderFrame, Inv, WakeInv
  <2>2. empty' \in Nat
    BY <1>1 DEF AddFrame, Buffers, Larger, Inv, WakeInv
  <2>3. CASE Refused(left)
    BY <1>1, <2>1, <2>2, <2>3 DEF RenderFrame, AddFrame, Inv, WakeInv, TimeToNextFrameRelease
  <2>4. CASE ~Refused(left)
    <3>1. incoming' = Append(incoming, [id |-> delivered + 1, left |-> left])
          /\ event' = (event \/ Len(incoming') = 1)
      BY <1>1, <2>4 DEF AddFrame, RenderFrame
    <3>2. CASE incoming = <<>>
      <4>1. event'
        <5>1. Len(incoming') = 1
          BY <3>1, <3>2
        <5> QED BY <3>1, <5>1
      <4> QED BY <1>1, <2>1, <2>2, <4>1 DEF Inv, WakeInv
    <3>3. CASE incoming # <<>>
      <4>1. Head(incoming') = Head(incoming) /\ incoming' # <<>> /\ Len(incoming') # 1
        <5> DEFINE new == [id |-> delivered + 1, left |-> left]
        <5>1. incoming \in Seq(Frame) /\ new \in Frame
          BY DEF Inv, QueueInv, Frame, RenderTimes
        <5> HIDE DEF new
        <5>2. incoming' = Append(incoming, new)
          BY <3>1 DEF new
        <5> QED BY <3>3, <5>1, <5>2
      <4>2. event' = event
        BY <3>1, <4>1 DEF Inv, WakeInv
      <4>3. TimeToNextFrameRelease(incoming)' = TimeToNextFrameRelease(incoming)
        BY <1>1, <3>3, <4>1 DEF TimeToNextFrameRelease
      <4> QED BY <1>1, <2>1, <2>2, <3>3, <4>2, <4>3 DEF Inv, WakeInv
    <3> QED BY <3>2, <3>3
  <2> QED BY <2>3, <2>4
<1> QED BY <1>2, <1>3, <1>4 DEF Inv

(* A step of a render thread that leaves the queue and the timer alone.     *)
LEMMA QuietMove ==
  ASSUME Inv, NEW t \in DOMAIN threads, NEW a \in Places, NEW f \in 0 .. delivered,
         f # NoFrame => a \in {"callback", "returning"}, a = "returning" => f # NoFrame,
         a = "callback" => current # NoThread,
         a # "woken" => threads[t].at # "woken" \/ current = NoThread,
         threads' = [threads EXCEPT ![t].at = a, ![t].frame = f],
         UNCHANGED <<incoming, delivered, shown, delay, timer, running, current, stopping>>,
         event' \in BOOLEAN, event' = event \/ a = "woken", empty' \in Nat
  PROVE  Inv'
<1>1. QueueInv'
  BY DEF Inv, QueueInv, ShownInOrder
<1>2. /\ ControlInv'
      /\ DOMAIN threads' = DOMAIN threads /\ threads'[t].at = a
      /\ \A u \in DOMAIN threads : u # t => threads'[u] = threads[u]
  <2>1. ControlInv /\ delivered \in Nat
    BY DEF Inv, QueueInv
  <2> HIDE DEF Places
  <2> QED BY <2>1, MoveControl
<1>3. WakeInv'
  <2> SUFFICES ASSUME running', ~stopping', ~event', incoming' # <<>>,
                      \A u \in DOMAIN threads' : threads'[u].at # "woken"
               PROVE  timer' \in 0 .. Larger(TimeToNextFrameRelease(incoming)', Startup)
    BY DEF Inv, WakeInv
  <2>1. a # "woken"
    BY <1>2
  <2>2. ~event /\ current # NoThread
    BY <2>1 DEF Inv, WakeInv, ControlInv
  <2>3. \A u \in DOMAIN threads : threads[u].at # "woken"
    BY <1>2, <2>1, <2>2
  <2>4. timer \in 0 .. Larger(TimeToNextFrameRelease(incoming), Startup)
    BY <2>2, <2>3 DEF Inv, WakeInv
  <2> QED BY <2>4 DEF TimeToNextFrameRelease
<1> QED BY <1>1, <1>2, <1>3 DEF Inv

LEMMA AgainMove ==
  ASSUME Inv, NEW t \in DOMAIN threads, Again(t)
  PROVE  \E a \in {"waiting", "ended"} :
           threads' = [threads EXCEPT ![t].at = a, ![t].frame = 0]
<1>1. CASE threads[t].alive
  BY <1>1 DEF Again, At, NoFrame
<1>2. CASE ~threads[t].alive
  BY <1>2 DEF Again, At, NoFrame
<1> QED BY <1>1, <1>2

LEMMA ProcessStep ==
  ASSUME Inv, NEW t \in DOMAIN threads, Process(t)
  PROVE  Inv'
<1>1. /\ FrameToRender /\ current # NoThread
      /\ timer' = TimeToNextFrameRelease(incoming')
      /\ shown' = IF Released = NoFrame THEN shown ELSE Append(shown, Released)
      /\ UNCHANGED <<delivered, delay, event, running, current, stopping>>
  BY DEF Process
<1>2. QueueInv' /\ Released \in 0 .. delivered
  BY <1>1, ReleaseQueue DEF Inv
<1>3. PICK a \in Places, f \in 0 .. delivered :
        /\ threads' = [threads EXCEPT ![t].at = a, ![t].frame = f]
        /\ f # NoFrame => a \in {"callback", "returning"}
        /\ a = "returning" => f # NoFrame
  <2>1. 0 \in 0 .. delivered
    BY DEF Inv, QueueInv
  <2>2. CASE Again(t)
    BY <2>1, <2>2, AgainMove DEF Places, NoFrame
  <2>3. CASE Showing(t, "callback", Released)
    BY <1>2, <2>3 DEF Showing, Places
  <2> QED BY <2>2, <2>3 DEF Process
<1>4. ControlInv'
  <2>1. ControlInv /\ delivered \in Nat
    BY DEF Inv, QueueInv
  <2> HIDE DEF Places
  <2> QED BY <1>1, <1>3, <2>1, MoveControl
<1>5. WakeInv'
  <2>1. MaxWait \in Nat /\ Startup \in Nat /\ delay \in Nat /\ event \in BOOLEAN /\ delay \in Delays
    BY RenderStreamAssumption DEF Inv, WakeInv
  <2>2. incoming' # <<>> => Head(incoming').left \in Int
    <3>1. incoming' # <<>> => Head(incoming') \in Frame
      BY <1>2 DEF QueueInv
    <3> QED BY <3>1 DEF Frame
  <2>3. timer' \in 0 .. MaxWait
    BY <1>1, <2>1, <2>2 DEF TimeToNextFrameRelease, Larger, Smaller
  <2>4. TimeToNextFrameRelease(incoming)' = timer'
    BY <1>1 DEF TimeToNextFrameRelease
  <2>5. timer' \in 0 .. Larger(timer', Startup) /\ timer' \in Off .. Larger(MaxWait, Startup)
    BY <2>1, <2>3 DEF Larger, Off
  <2>6. empty' \in Nat
    <3>1. DueCount \in Nat /\ empty \in Nat
      BY DueCountRange DEF Inv, QueueInv, WakeInv
    <3> QED BY <1>1, <3>1 DEF FrameToRender, Larger
  <2> QED BY <1>1, <2>1, <2>4, <2>5, <2>6 DEF WakeInv
<1> QED BY <1>2, <1>4, <1>5 DEF Inv

LEMMA RenderThreadStep ==
  ASSUME Inv, NEW t \in DOMAIN threads, RenderThread(t)
  PROVE  Inv'
<1>0. /\ event \in BOOLEAN /\ empty \in Nat /\ 0 \in 0 .. delivered
      /\ {"waiting", "woken", "callback", "returning", "ended"} = Places
      /\ threads[t].frame \in 0 .. delivered
  BY DEF Inv, WakeInv, QueueInv, ControlInv, Places
<1>1. CASE WaitReturns(t)
  <2>1. /\ threads' = [threads EXCEPT ![t].at = "woken", ![t].frame = 0] /\ event' = FALSE
        /\ UNCHANGED <<incoming, delivered, shown, delay, timer, running, current, stopping, empty>>
    BY <1>1 DEF WaitReturns, At, NoFrame, queueVars
  <2> QED BY <1>0, <2>1, QuietMove DEF NoFrame
<1>2. CASE Terminate(t)
  <2>1. /\ threads' = [threads EXCEPT ![t].at = "ended", ![t].frame = 0] /\ current = NoThread
        /\ UNCHANGED <<incoming, delivered, shown, delay, timer, running, current, stopping, empty, event>>
    BY <1>2 DEF Terminate, At, NoFrame, queueVars
  <2> QED BY <1>0, <2>1, QuietMove DEF NoFrame
<1>3. CASE Process(t)
  BY <1>3, ProcessStep
<1>4. CASE CallbackReturns(t)
  <2>1. /\ threads[t].at = "callback"
        /\ UNCHANGED <<incoming, delivered, shown, delay, timer, running, current, stopping, empty, event>>
    BY <1>4 DEF CallbackReturns, queueVars
  <2>2. CASE threads[t].frame = NoFrame
    <3>1. PICK a \in {"waiting", "ended"} : threads' = [threads EXCEPT ![t].at = a, ![t].frame = 0]
      BY <1>4, <2>2, AgainMove DEF CallbackReturns
    <3> QED BY <1>0, <2>1, <3>1, QuietMove DEF NoFrame
  <2>3. CASE threads[t].frame # NoFrame
    <3>1. threads' = [threads EXCEPT ![t].at = "returning", ![t].frame = threads[t].frame]
      BY <1>4, <2>3 DEF CallbackReturns, Showing
    <3>2. "returning" \in Places /\ "returning" # "callback" /\ "returning" # "woken"
      BY DEF Places
    <3> HIDE DEF Places
    <3> QED BY <1>0, <2>1, <2>3, <3>1, <3>2, QuietMove
  <2> QED BY <2>2, <2>3
<1>5. CASE ReturnFrame(t)
  <2>1. /\ threads[t].at = "returning" /\ empty' = empty + 1
        /\ UNCHANGED <<incoming, delivered, shown, delay, timer, running, current, stopping, event>>
    BY <1>5 DEF ReturnFrame
  <2>2. PICK a \in {"waiting", "ended"} : threads' = [threads EXCEPT ![t].at = a, ![t].frame = 0]
    BY <1>5, AgainMove DEF ReturnFrame
  <2>3. empty' \in Nat
    BY <1>0, <2>1
  <2> QED BY <1>0, <2>1, <2>2, <2>3, QuietMove DEF NoFrame
<1> QED BY <1>1, <1>2, <1>3, <1>4, <1>5 DEF RenderThread

LEMMA StartStep == ASSUME Inv, Start PROVE Inv'
<1> DEFINE new == [at |-> "waiting", alive |-> TRUE, frame |-> NoFrame]
<1>1. /\ ThreadLockFree /\ ~stopping
      /\ threads' = Append(threads, new) /\ current' = Len(threads') /\ timer' = Startup
      /\ running' = TRUE
      /\ UNCHANGED <<incoming, empty, delivered, shown, delay, event, stopping>>
  BY DEF Start, StreamLockFree, queueVars
<1>2. QueueInv'
  BY <1>1 DEF Inv, QueueInv, ShownInOrder
<1>3. ControlInv'
  <2>1. new \in Thread /\ new.frame = 0 /\ new.at = "waiting"
    BY DEF Thread, Places, NoFrame
  <2> HIDE DEF new
  <2>2. threads \in Seq(Thread) /\ delivered \in Nat /\ stopping \in BOOLEAN
    BY DEF Inv, ControlInv, QueueInv
  <2>3. /\ threads' \in Seq(Thread) /\ Len(threads') = Len(threads) + 1
        /\ \A t \in 1 .. Len(threads) : threads'[t] = threads[t]
        /\ threads'[Len(threads) + 1] = new
    <3> HIDE DEF Thread
    <3> QED BY <1>1, <2>1, <2>2, AppendProperties
  <2>4. DOMAIN threads' = 1 .. Len(threads) + 1 /\ DOMAIN threads = 1 .. Len(threads)
        /\ Len(threads) \in Nat
    BY <2>2, <2>3
  <2>5. \A t \in DOMAIN threads' :
          /\ threads'[t].frame \in 0 .. delivered
          /\ threads'[t].frame # NoFrame => threads'[t].at \in {"callback", "returning"}
          /\ threads'[t].at = "returning" => threads'[t].frame # NoFrame
    <3> SUFFICES ASSUME NEW t \in DOMAIN threads'
                 PROVE  /\ threads'[t].frame \in 0 .. delivered
                        /\ threads'[t].frame # NoFrame => threads'[t].at \in {"callback", "returning"}
                        /\ threads'[t].at = "returning" => threads'[t].frame # NoFrame
      OBVIOUS
    <3>1. CASE t \in DOMAIN threads
      BY <2>3, <2>4, <3>1 DEF Inv, ControlInv
    <3>2. CASE t = Len(threads) + 1
      BY <2>1, <2>2, <2>3, <3>2 DEF NoFrame
    <3> QED BY <2>4, <3>1, <3>2
  <2>6. current' \in 0 .. Len(threads') /\ current' # NoThread
    BY <1>1, <2>3, <2>4 DEF NoThread
  <2> QED BY <1>1, <2>2, <2>3, <2>5, <2>6 DEF ControlInv
<1>4. WakeInv'
  <2>1. MaxWait \in Nat /\ Startup \in Nat
    BY RenderStreamAssumption
  <2>2. QueueInv /\ WakeInv
    BY DEF Inv
  <2>3. TimeToNextFrameRelease(incoming) \in 0 .. MaxWait
    BY <2>2, ReleaseTimer
  <2>4. TimeToNextFrameRelease(incoming)' = TimeToNextFrameRelease(incoming)
    BY <1>1 DEF TimeToNextFrameRelease
  <2>5. /\ timer' \in Off .. Larger(MaxWait, Startup)
        /\ timer' \in 0 .. Larger(TimeToNextFrameRelease(incoming)', Startup)
    BY <1>1, <2>1, <2>3, <2>4 DEF Off, Larger
  <2> QED BY <1>1, <2>2, <2>5 DEF WakeInv
<1> QED BY <1>2, <1>3, <1>4 DEF Inv

LEMMA StopStep == ASSUME Inv, Stop PROVE Inv'
<1>1. /\ ThreadLockFree /\ running
      /\ threads' = [threads EXCEPT ![current].alive = FALSE]
      /\ current' = NoThread /\ timer' = Off /\ stopping' = TRUE
      /\ UNCHANGED <<incoming, empty, delivered, shown, delay, event, running>>
  BY DEF Stop, queueVars
<1>2. QueueInv'
  BY <1>1 DEF Inv, QueueInv, ShownInOrder
<1>3. current \in DOMAIN threads
  <2>1. current \in 0 .. Len(threads) /\ current # NoThread /\ threads \in Seq(Thread)
    BY <1>1 DEF Inv, ControlInv, Stop, StreamLockFree
  <2> QED BY <2>1 DEF NoThread
<1>4. /\ threads' \in Seq(Thread) /\ DOMAIN threads' = DOMAIN threads
      /\ \A t \in DOMAIN threads :
           threads'[t].at = threads[t].at /\ threads'[t].frame = threads[t].frame
  <2> DEFINE r == [threads[current] EXCEPT !.alive = FALSE]
  <2>1. threads \in Seq(Thread) /\ threads[current] \in Thread
    BY <1>3 DEF Inv, ControlInv
  <2>2. r \in Thread
    BY <2>1 DEF Thread
  <2>4. threads' = [threads EXCEPT ![current] = r]
    BY <1>1, <1>3
  <2>5. r.at = threads[current].at /\ r.frame = threads[current].frame
    BY <2>1 DEF Thread
  <2> HIDE DEF r
  <2>6. DOMAIN threads = 1 .. Len(threads)
    BY <2>1
  <2>7. /\ threads' \in Seq(Thread) /\ Len(threads') = Len(threads)
        /\ \A t \in 1 .. Len(threads) : threads'[t] = IF t = current THEN r ELSE threads[t]
    <3> HIDE DEF Thread
    <3> QED BY <1>3, <2>1, <2>2, <2>4, <2>6, ExceptSeq
  <2> QED BY <2>5, <2>6, <2>7
<1>5. ControlInv'
  <2>1. ThreadLockFree'
    BY <1>1, <1>4 DEF ThreadLockFree
  <2>2. current' \in 0 .. Len(threads')
    BY <1>1, <1>4 DEF NoThread
  <2> QED BY <1>1, <1>4, <2>1, <2>2 DEF Inv, ControlInv
<1>6. WakeInv'
  <2>1. Off \in Off .. Larger(MaxWait, Startup)
    BY RenderStreamAssumption DEF Off, Larger
  <2> QED BY <1>1, <2>1 DEF Inv, WakeInv
<1> QED BY <1>2, <1>5, <1>6 DEF Inv

LEMMA ControlStep ==
  ASSUME Inv, \/ StopReturns \/ Reset \/ \E d \in Delays : SetExpectedRenderDelay(d)
              \/ TimerFires \/ UNCHANGED vars
  PROVE  Inv'
<1>0. incoming \in Seq(Frame)
  BY DEF Inv, QueueInv
<1>1. CASE StopReturns
  BY <1>1 DEF StopReturns, queueVars, Inv, QueueInv, ShownInOrder, ControlInv, ThreadLockFree, WakeInv,
              TimeToNextFrameRelease
<1>2. CASE Reset
  <2>1. incoming' = <<>> /\ empty' = 0
        /\ UNCHANGED <<delivered, shown, delay, event, timer, running, current, stopping, threads>>
    BY <1>2 DEF Reset
  <2>2. QueueInv'
    BY <2>1 DEF Inv, QueueInv, ShownInOrder
  <2>3. ControlInv' /\ WakeInv'
    BY <2>1 DEF Inv, ControlInv, ThreadLockFree, WakeInv
  <2> QED BY <2>2, <2>3 DEF Inv
<1>3. ASSUME NEW d \in Delays, SetExpectedRenderDelay(d) PROVE Inv'
  BY <1>3 DEF SetExpectedRenderDelay, queueVars, Inv, QueueInv, ShownInOrder, ControlInv,
              ThreadLockFree, WakeInv
<1>4. CASE TimerFires
  <2>1. event' = TRUE /\ timer' = Off
        /\ UNCHANGED <<incoming, empty, delivered, shown, delay, running, current, stopping, threads>>
    BY <1>4 DEF TimerFires, queueVars
  <2>2. Off \in Off .. Larger(MaxWait, Startup)
    BY RenderStreamAssumption DEF Off, Larger
  <2>3. QueueInv' /\ ControlInv'
    BY <2>1 DEF Inv, QueueInv, ShownInOrder, ControlInv, ThreadLockFree
  <2>4. WakeInv'
    BY <2>1, <2>2 DEF Inv, WakeInv
  <2> QED BY <2>3, <2>4 DEF Inv
<1>5. CASE UNCHANGED vars
  BY <1>5 DEF vars, Inv, QueueInv, ShownInOrder, ControlInv, ThreadLockFree, WakeInv,
              TimeToNextFrameRelease
<1> QED BY <1>1, <1>2, <1>3, <1>4, <1>5

LEMMA TickStep == ASSUME Inv, Tick PROVE Inv'
<1>1. /\ timer # 0 /\ timer' = Larger(timer - 1, Off)
      /\ UNCHANGED <<empty, delivered, shown, delay, event, running, current, stopping, threads>>
  BY DEF Tick
<1>2. /\ QueueInv' /\ Len(incoming') = Len(incoming)
      /\ \A i \in DOMAIN incoming : incoming'[i].left = Larger(incoming[i].left - 1, -1)
  BY TickQueue DEF Inv
<1>3. ControlInv'
  BY <1>1 DEF Inv, ControlInv, ThreadLockFree
<1>4. WakeInv'
  <2>0. timer \in Off .. Larger(MaxWait, Startup) /\ delay \in Nat /\ MaxWait \in Nat /\ Startup \in Nat
    BY RenderStreamAssumption DEF Inv, WakeInv
  <2>1. timer' \in Off .. Larger(MaxWait, Startup)
    BY <1>1, <2>0 DEF Larger, Off
  <2> SUFFICES ASSUME running, ~stopping, ~event, incoming' # <<>>,
                      \A u \in DOMAIN threads : threads[u].at # "woken"
               PROVE  timer' \in 0 .. Larger(TimeToNextFrameRelease(incoming)', Startup)
    BY <1>1, <2>1 DEF Inv, WakeInv
  <2>2. incoming \in Seq(Frame) /\ incoming' \in Seq(Frame)
    BY <1>2 DEF Inv, QueueInv
  <2>3. incoming # <<>>
    BY <1>2, <2>2
  <2>4. timer \in 0 .. Larger(TimeToNextFrameRelease(incoming), Startup)
    BY <2>3 DEF Inv, WakeInv
  <2> DEFINE l == Head(incoming).left
  <2>5. l \in Int /\ Head(incoming').left = Larger(l - 1, -1)
    <3>1. Head(incoming) = incoming[1] /\ Head(incoming') = incoming'[1] /\ 1 \in DOMAIN incoming
          /\ incoming[1] \in Frame
      BY <1>2, <2>2, <2>3
    <3> QED BY <1>2, <3>1 DEF Frame
  <2>6. /\ TimeToNextFrameRelease(incoming) = Smaller(Larger(l - delay, 0), MaxWait)
        /\ TimeToNextFrameRelease(incoming)' = Smaller(Larger(Larger(l - 1, -1) - delay, 0), MaxWait)
    BY <1>1, <2>3, <2>5 DEF TimeToNextFrameRelease
  <2> HIDE DEF l
  <2> QED BY <1>1, <2>0, <2>4, <2>5, <2>6 DEF Larger, Smaller, Off
<1> QED BY <1>2, <1>3, <1>4 DEF Inv

LEMMA StepInv == Inv /\ [Next]_vars => Inv'
<1> QED BY DecodeStep, RenderThreadStep, StartStep, StopStep, ControlStep, TickStep DEF Next

(* Frames wait in the order they were delivered, the counts and the timer   *)
(* stay in their ranges, a thread has a frame only while it shows it or     *)
(* returns it, and the stream has a thread exactly while it runs and is not *)
(* being stopped (IncomingVideoStreamProcess, ReturnFrame, Start, Stop).    *)
THEOREM TypeCorrect == Spec => []TypeOK
<1>1. Inv => TypeOK
  <2> SUFFICES ASSUME Inv PROVE TypeOK
    OBVIOUS
  <2> USE DEF Inv
  <2>1. ASSUME NEW t \in DOMAIN threads
        PROVE  threads[t].at \in {"waiting", "woken", "callback", "returning", "ended"}
    <3>1. threads[t] \in Thread
      BY DEF ControlInv
    <3> QED BY <3>1 DEF Thread, Places
  <2> QED BY <2>1 DEF QueueInv, ControlInv, WakeInv, TypeOK
<1> QED BY <1>1, InitInv, StepInv, PTL DEF Spec

(* Frames are shown in the order they were delivered, and none twice, over  *)
(* restarts and with two render threads (FrameToRender).                    *)
THEOREM ShowsInOrder == Spec => []ShownInOrder
<1>1. Inv => ShownInOrder
  BY DEF Inv, QueueInv
<1> QED BY InitInv, StepInv, <1>1, PTL DEF Spec

(* Between Stop and the next Start no thread is in a callback (Stop).       *)
THEOREM StopsSilently == Spec => []SilentWhenStopped
<1>1. Inv => SilentWhenStopped
  BY DEF Inv, ControlInv, SilentWhenStopped, ThreadLockFree
<1> QED BY InitInv, StepInv, <1>1, PTL DEF Spec

(* When all threads wait and the event is not set, the timer wakes one for  *)
(* the first frame (RenderFrame, IncomingVideoStreamProcess).               *)
THEOREM WakesInTime == Spec => []WakesForHead
<1>1. Inv => WakesForHead
  <2> SUFFICES ASSUME Inv, running, ~stopping, ~event, incoming # <<>>,
                      \A t \in Live : threads[t].at = "waiting"
               PROVE  timer \in 0 .. Larger(TimeToNextFrameRelease(incoming), Startup)
    BY DEF WakesForHead
  <2>1. \A t \in DOMAIN threads : threads[t].at # "woken"
    BY DEF Live
  <2> QED BY <2>1 DEF Inv, WakeInv
<1> QED BY InitInv, StepInv, <1>1, PTL DEF Spec

(***************************************************************************)
(* The buffers                                                              *)
(***************************************************************************)
LEMMA ShownFinite ==
  ASSUME ControlInv
  PROVE  /\ IsFiniteSet(Shown) /\ Cardinality(Shown) \in Nat
         /\ Cardinality(Shown) <= Len(threads)
<1>1. threads \in Seq(Thread) /\ Len(threads) \in Nat /\ DOMAIN threads = 1 .. Len(threads)
  BY DEF ControlInv
<1>2. IsFiniteSet(1 .. Len(threads)) /\ Cardinality(1 .. Len(threads)) = Len(threads)
  BY <1>1, FS_Interval
<1>3. Shown \in SUBSET (1 .. Len(threads))
  BY <1>1 DEF Shown
<1> QED BY <1>2, <1>3, FS_Subset, FS_CardinalityType

(* The set of threads that hold a frame, after one moved.                   *)
LEMMA ShownMoves ==
  ASSUME ControlInv, NEW t \in DOMAIN threads, NEW a \in Places, NEW f \in Nat,
         threads' = [threads EXCEPT ![t].at = a, ![t].frame = f]
  PROVE  /\ Shown' = IF f = NoFrame THEN Shown \ {t} ELSE Shown \cup {t}
         /\ Len(threads') = Len(threads)
<1>1. threads \in Seq(Thread)
  BY DEF ControlInv
<1>2. /\ Len(threads') = Len(threads) /\ DOMAIN threads' = DOMAIN threads
      /\ \A u \in DOMAIN threads :
           threads'[u] = IF u = t THEN [at |-> a, alive |-> threads[t].alive, frame |-> f]
                         ELSE threads[u]
  <2>1. \A b \in Places, g \in Nat :
          threads' = [threads EXCEPT ![t].at = b, ![t].frame = g] =>
            /\ threads' \in Seq(Thread)
            /\ Len(threads') = Len(threads) /\ DOMAIN threads' = DOMAIN threads
            /\ \A u \in DOMAIN threads :
                 threads'[u] = IF u = t THEN [at |-> b, alive |-> threads[t].alive, frame |-> g]
                               ELSE threads[u]
    BY ONLY <1>1, OneThreadMoves, t \in DOMAIN threads, Zenon
  <2> QED BY <2>1, Zenon
<1>3. threads'[t].frame = f /\ \A u \in DOMAIN threads : u # t => threads'[u].frame = threads[u].frame
  BY <1>2
<1>4. Shown' = {u \in DOMAIN threads : threads'[u].frame # NoFrame}
  BY <1>2 DEF Shown
<1> QED BY <1>2, <1>3, <1>4 DEF Shown

LEMMA BoundInit == Init => BuffersBounded
<1> SUFFICES ASSUME Init PROVE BuffersBounded
  OBVIOUS
<1>1. Shown = {} /\ Len(incoming) = 0 /\ empty = 0 /\ Len(threads) = 0
  BY DEF Init, Shown
<1> QED BY <1>1, FS_EmptySet, RenderStreamAssumption DEF BuffersBounded

LEMMA BoundStep ==
  ASSUME Inv, BuffersBounded, [Next]_vars
  PROVE  BuffersBounded'
<1> DEFINE c == Cardinality(Shown)
           n == Len(incoming)
<1>1. /\ n \in Nat /\ empty \in Nat /\ c \in Nat /\ c <= Len(threads) /\ Len(threads) \in Nat
      /\ n + empty + c <= MaxNumber + 1 + Len(threads) /\ IsFiniteSet(Shown)
      /\ incoming \in Seq(Frame) /\ ControlInv /\ MaxNumber \in Nat
  BY ShownFinite, RenderStreamAssumption, SMTT(30) DEF Inv, QueueInv, ControlInv, WakeInv, BuffersBounded
<1>2. ASSUME NEW k \in Nat, NEW e \in Nat, NEW d \in Nat, NEW l \in Nat,
             k = Len(incoming'), e = empty', d = Cardinality(Shown'), l = Len(threads'),
             k + e + d <= MaxNumber + 1 + l
      PROVE  BuffersBounded'
  BY <1>2 DEF BuffersBounded
<1> HIDE DEF c, n
<1>3. ASSUME UNCHANGED <<incoming, empty, threads>> PROVE BuffersBounded'
  BY <1>3 DEF BuffersBounded, Shown
<1>4. ASSUME NEW left \in RenderTimes, RenderFrame(left) PROVE BuffersBounded'
  <2>1. AddFrame(left) /\ threads' = threads
    BY <1>4 DEF RenderFrame
  <2>2. Shown' = Shown /\ Len(threads') = Len(threads)
    BY <2>1 DEF Shown
  <2>3. CASE Refused(left)
    BY <1>3, <2>1, <2>3 DEF AddFrame
  <2>4. CASE ~Refused(left)
    <3>1. incoming' = Append(incoming, [id |-> delivered + 1, left |-> left]) /\ empty' = Larger(empty - 1, 0)
      BY <2>1, <2>4 DEF AddFrame, Buffers
    <3>2. Len(incoming') = n + 1
      BY <1>1, <3>1 DEF n
    <3>3. empty = 0 => n <= MaxNumber
      BY <1>1, <2>4 DEF Refused, n
    <3>4. empty' \in Nat /\ n + 1 + empty' + c <= MaxNumber + 1 + Len(threads)
      BY <1>1, <3>1, <3>3 DEF Larger
    <3>5. n + 1 \in Nat /\ c = Cardinality(Shown')
      BY <1>1, <2>2 DEF c
    <3> QED BY <1>1, <1>2, <2>2, <3>2, <3>4, <3>5
  <2> QED BY <2>3, <2>4
<1>5. ASSUME NEW t \in DOMAIN threads, RenderThread(t) PROVE BuffersBounded'
  <2>0. /\ threads[t].frame \in 0 .. delivered /\ delivered \in Nat
        /\ threads[t].frame # NoFrame => threads[t].at \in {"callback", "returning"}
        /\ threads[t].at = "returning" => threads[t].frame # NoFrame
        /\ {"waiting", "woken", "callback", "returning", "ended"} = Places
    BY DEF Inv, ControlInv, QueueInv, Places
  <2>1. ASSUME NEW a \in Places, threads' = [threads EXCEPT ![t].at = a, ![t].frame = 0],
               incoming' = incoming, empty' = empty
        PROVE  BuffersBounded'
    <3>1. Shown' = Shown \ {t} /\ Len(threads') = Len(threads)
      BY <1>1, <2>1, ShownMoves DEF NoFrame
    <3>2. Cardinality(Shown') \in Nat /\ Cardinality(Shown') <= c
      BY <1>1, <3>1, FS_RemoveElement, FS_Subset, FS_CardinalityType DEF c
    <3>3. n + empty + Cardinality(Shown') <= MaxNumber + 1 + Len(threads)
      BY <1>1, <3>2
    <3> QED BY <1>1, <1>2, <2>1, <3>1, <3>2, <3>3 DEF n
  <2>2. CASE WaitReturns(t)
    BY <2>0, <2>1, <2>2 DEF WaitReturns, At, NoFrame, queueVars
  <2>3. CASE Terminate(t)
    BY <2>0, <2>1, <2>3 DEF Terminate, At, NoFrame, queueVars
  <2>4. CASE Process(t)
    <3>1. FrameToRender /\ threads[t].frame = NoFrame
      BY <2>0, <2>4 DEF Process
    <3>2. DueCount \in 0 .. n
      BY <1>1, DueCountRange DEF n
    <3>3. Len(incoming') = n - DueCount
      <4> HIDE DEF Frame
      <4> QED BY <1>1, <3>1, <3>2, DropFirst DEF FrameToRender, n
    <3>4. empty' = empty + Larger(DueCount - 1, 0)
      BY <3>1 DEF FrameToRender
    <3>5. Released \in 0 .. delivered
      BY <2>4, ReleaseQueue DEF Process, Inv
    <3>6. PICK f \in {0, Released}, a \in Places :
            /\ threads' = [threads EXCEPT ![t].at = a, ![t].frame = f]
            /\ DueCount = 0 => f = 0
      <4>1. CASE Again(t) /\ Released = NoFrame
        BY <2>0, <4>1, AgainMove
      <4>2. CASE Showing(t, "callback", Released)
        BY <2>0, <4>2 DEF Showing, Released, NoFrame
      <4> QED BY <2>4, <4>1, <4>2 DEF Process
    <3>7. Shown' = (IF f = NoFrame THEN Shown \ {t} ELSE Shown \cup {t}) /\ Len(threads') = Len(threads)
      <4>1. f \in Nat
        BY <2>0, <3>5, <3>6
      <4> HIDE DEF Released
      <4> QED BY <1>1, <3>6, <4>1, ShownMoves
    <3>8. t \notin Shown
      BY <3>1 DEF Shown
    <3>9. CASE f = 0
      <4>1. Shown' = Shown
        BY <3>7, <3>8, <3>9 DEF NoFrame
      <4>2. n - DueCount + empty' + c <= MaxNumber + 1 + Len(threads) /\ empty' \in Nat
            /\ n - DueCount \in Nat
        BY <1>1, <3>2, <3>4 DEF Larger
      <4> QED BY <1>1, <1>2, <3>3, <3>7, <4>1, <4>2 DEF c
    <3>10. CASE f # 0
      <4>1. Cardinality(Shown') = c + 1
        BY <1>1, <3>7, <3>8, <3>10, FS_AddElement DEF NoFrame, c
      <4>2. n - DueCount + empty' + (c + 1) <= MaxNumber + 1 + Len(threads) /\ empty' \in Nat
            /\ n - DueCount \in Nat /\ c + 1 \in Nat
        <5>1. DueCount # 0
          BY <3>6, <3>10
        <5> HIDE DEF c, n
        <5>2. empty' = empty + (DueCount - 1)
          BY <3>2, <3>4, <5>1, <1>1 DEF Larger
        <5> QED BY <1>1, <3>2, <5>1, <5>2
      <4> QED BY <1>1, <1>2, <3>3, <3>7, <4>1, <4>2
    <3> QED BY <3>9, <3>10
  <2>5. CASE CallbackReturns(t)
    <3>1. incoming' = incoming /\ empty' = empty
      BY <2>5 DEF CallbackReturns, queueVars
    <3>2. CASE threads[t].frame = NoFrame
      BY <2>0, <2>1, <2>5, <3>1, <3>2, AgainMove DEF CallbackReturns
    <3>3. CASE threads[t].frame # NoFrame
      <4>1. threads' = [threads EXCEPT ![t].at = "returning", ![t].frame = threads[t].frame]
        BY <2>5, <3>3 DEF CallbackReturns, Showing
      <4>2. Shown' = Shown \cup {t} /\ Len(threads') = Len(threads)
        <5>1. threads[t].frame \in Nat /\ "returning" \in Places
          BY <2>0
        <5> QED BY <1>1, <3>3, <4>1, <5>1, ShownMoves
      <4>3. Shown' = Shown
        BY <3>3, <4>2 DEF Shown
      <4> QED BY <1>1, <1>2, <3>1, <4>2, <4>3 DEF c, n
    <3> QED BY <3>2, <3>3
  <2>6. CASE ReturnFrame(t)
    <3>1. threads[t].at = "returning" /\ empty' = empty + 1 /\ incoming' = incoming
      BY <2>6 DEF ReturnFrame
    <3>2. PICK a \in {"waiting", "ended"} : threads' = [threads EXCEPT ![t].at = a, ![t].frame = 0]
      BY <2>6, AgainMove DEF ReturnFrame
    <3>3. Shown' = Shown \ {t} /\ Len(threads') = Len(threads)
      BY <1>1, <2>0, <3>2, ShownMoves DEF NoFrame
    <3>4. t \in Shown
      BY <2>0, <3>1 DEF Shown
    <3>5. Cardinality(Shown') = c - 1 /\ c # 0
      <4>1. Cardinality(Shown') = c - 1 /\ Cardinality(Shown') \in Nat
        BY <1>1, <3>3, <3>4, FS_RemoveElement, FS_CardinalityType DEF c
      <4> QED BY <1>1, <4>1
    <3>6. n + empty' + (c - 1) <= MaxNumber + 1 + Len(threads) /\ empty' \in Nat /\ c - 1 \in Nat
      BY <1>1, <3>1, <3>5
    <3> QED BY <1>1, <1>2, <3>1, <3>3, <3>5, <3>6 DEF n
  <2> QED BY <1>5, <2>2, <2>3, <2>4, <2>5, <2>6 DEF RenderThread
<1>6. CASE Start
  <2>1. /\ Len(threads') = Len(threads) + 1 /\ Shown' = Shown
        /\ UNCHANGED <<incoming, empty>>
    <3>1. threads' = Append(threads, [at |-> "waiting", alive |-> TRUE, frame |-> NoFrame])
          /\ UNCHANGED <<incoming, empty>>
      BY <1>6 DEF Start, queueVars
    <3> DEFINE new == [at |-> "waiting", alive |-> TRUE, frame |-> NoFrame]
    <3>2. new.frame = NoFrame
      OBVIOUS
    <3> HIDE DEF new
    <3>3. threads \in Seq(Thread) /\ threads' = Append(threads, new)
      BY <1>1, <3>1 DEF ControlInv, new
    <3>4. /\ Len(threads') = Len(threads) + 1 /\ DOMAIN threads' = 1 .. Len(threads) + 1
          /\ DOMAIN threads = 1 .. Len(threads) /\ threads'[Len(threads) + 1] = new
          /\ \A t \in DOMAIN threads : threads'[t] = threads[t]
      BY <3>3
    <3>5. Shown' = Shown
      BY <1>1, <3>2, <3>4 DEF Shown
    <3> QED BY <3>1, <3>4, <3>5
  <2> QED BY <1>1, <1>2, <2>1 DEF c, n
<1>7. CASE Stop
  <2>1. threads' = [threads EXCEPT ![current].alive = FALSE] /\ UNCHANGED <<incoming, empty>>
    BY <1>7 DEF Stop, queueVars
  <2>2. /\ Len(threads') = Len(threads) /\ DOMAIN threads' = DOMAIN threads
        /\ \A t \in DOMAIN threads : threads'[t].frame = threads[t].frame
    BY <1>1, <2>1 DEF ControlInv, Thread
  <2>3. Shown' = Shown
    BY <2>2 DEF Shown
  <2> QED BY <1>1, <1>2, <2>1, <2>2, <2>3 DEF c, n
<1>8. CASE Reset
  <2>1. incoming' = <<>> /\ empty' = 0 /\ threads' = threads
    BY <1>8 DEF Reset
  <2>2. Shown' = Shown /\ Len(incoming') = 0 /\ Len(threads') = Len(threads)
    BY <2>1 DEF Shown
  <2>3. 0 + 0 + c <= MaxNumber + 1 + Len(threads) /\ 0 \in Nat
    BY <1>1
  <2> QED BY <1>1, <1>2, <2>1, <2>2, <2>3 DEF c
<1>9. CASE Tick
  <2>1. Len(incoming') = n /\ UNCHANGED <<empty, threads>>
    BY <1>9, TickQueue DEF Inv, Tick, n
  <2>2. Shown' = Shown
    BY <2>1 DEF Shown
  <2> QED BY <1>1, <1>2, <2>1, <2>2 DEF c
<1>10. CASE StopReturns \/ TimerFires \/ UNCHANGED vars
  BY <1>3, <1>10 DEF StopReturns, TimerFires, vars, queueVars
<1>11. ASSUME NEW d \in Delays, SetExpectedRenderDelay(d) PROVE BuffersBounded'
  BY <1>3, <1>11 DEF SetExpectedRenderDelay, queueVars
<1> QED BY <1>4, <1>5, <1>6, <1>7, <1>8, <1>9, <1>10, <1>11 DEF Next

(* The buffers in use stay within the limit, one, and one for each render   *)
(* thread (AddFrame, ReturnFrame).                                          *)
THEOREM BuffersStayBounded == Spec => []BuffersBounded
<1>1. Inv /\ BuffersBounded /\ [Next]_vars => BuffersBounded'
  BY BoundStep
<1> QED BY InitInv, StepInv, BoundInit, <1>1, PTL DEF Spec
=============================================================================
