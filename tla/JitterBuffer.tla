----------------------------- MODULE JitterBuffer -----------------------------
(***************************************************************************)
(* VCMJitterBuffer with its frame buffers, session infos and decoding state *)
(* (webrtc/modules/video_coding/main/source), as VCMReceiver drives it for  *)
(* H.264 without decoding errors.  The network thread inserts packets, the  *)
(* decode thread takes one frame at a time, the process thread collects the *)
(* list of packets to ask for again; each call holds crit_sect_.            *)
(*                                                                          *)
(* A packet is its number in the stream that was sent, far from half the    *)
(* number space; the stream gives its frame (the RTP timestamp), its kind   *)
(* and its marks.  Packets come in any order, again, or never.              *)
(* Size limits, rates, the jitter estimate and the wait for a frame are left*)
(* out; so is what happens once a buffer is used twice or none is left.     *)
(***************************************************************************)
EXTENDS Integers, Sequences, FiniteSetsExt, Functions

CONSTANTS
  Streams,             \* streams sent: packets [frame, kind, first, marker] in order
  MaxNumberOfFrames,   \* kMaxNumberOfFrames
  MaxOldPackets,       \* kMaxConsecutiveOldPackets
  MaxNackListSize,     \* max_nack_list_size_
  MaxPacketAge,        \* max_packet_age_to_nack_
  NackModes            \* whether packets are asked for again: values of nack_mode_

ASSUME JitterBufferAssumption ==
  /\ {MaxOldPackets, MaxNackListSize, MaxPacketAge} \subseteq Nat
  /\ MaxNumberOfFrames \in Nat \ {0}
  /\ NackModes \subseteq BOOLEAN /\ NackModes # {}
  /\ Streams \subseteq Seq([frame : Nat \ {0}, kind : {"key", "delta", "empty"},
                           first : BOOLEAN, marker : BOOLEAN])

\* Packets are sent in the order of their timestamps, padding after its frame; the
\* packets of a frame are of one kind, as headers share a packet and it has their first's.
ASSUME StreamAssumption ==
  \A s \in Streams : \A m, n \in DOMAIN s : m < n =>
    /\ s[m].frame <= s[n].frame
    /\ s[m].frame = s[n].frame => s[n].kind \in {s[m].kind, "empty"}

VARIABLES
  stream,     \* the stream that is received
  jb,         \* the lists and the state of the buffer, see Init
  lost,       \* number of frame buffers in no list and in nobody's hands
  fault,      \* "aliased": a buffer was freed that is in use; "starved": assert(*frame)
  resetting,  \* the network thread is on its way to ResetDecoder
  picked,     \* timestamp FrameForDecoding waits to extract, or 0
  held,       \* the frame the decode thread has, or NoHeld
  newest      \* timestamp of the newest frame handed over, or 0

vars == <<stream, jb, lost, fault, resetting, picked, held, newest>>

Packets == DOMAIN stream
Initial == [initial |-> TRUE, seq |-> 0, ts |-> 0]
NoFrames == [t \in {} |-> 0]
NoHeld == [ts |-> 0]

Oldest(list) == Min(DOMAIN list)
Listed(b) == DOMAIN b.dec \cup DOMAIN b.inc
Without(list, t) == Restrict(list, DOMAIN list \ {t})
With(list, t, f) == [u \in DOMAIN list \cup {t} |-> IF u = t THEN f ELSE list[u]]

(***************************************************************************)
(* VCMSessionInfo and VCMFrameBuffer.  media and pads are the numbers of    *)
(* the packets with and without payload; complete is kStateComplete, which  *)
(* a frame does not leave.                                                  *)
(***************************************************************************)
EmptyFrame == [media |-> {}, pads |-> {}, kind |-> "delta", complete |-> FALSE]

LowSequenceNumber(f) ==
  IF f.media \cup f.pads = {} THEN -1 ELSE Min(IF f.media # {} THEN f.media ELSE f.pads)
HighSequenceNumber(f) ==
  IF f.media \cup f.pads = {} THEN -1 ELSE Max(f.media \cup f.pads)
HaveFirstPacket(f) == \E n \in f.media : stream[n].first
IsEmptyState(f) == f.media = {}

\* Each NAL unit starts with a first packet: the lowest need not be the frame's.
SessionComplete(f) ==
  /\ HaveFirstPacket(f)
  /\ \E n \in f.media : stream[n].marker
  /\ f.media = Min(f.media) .. Max(f.media)

InsertIntoFrame(f, n) ==
  IF stream[n].kind = "empty" THEN [f EXCEPT !.pads = @ \cup {n}, !.complete = @ \/ SessionComplete(f)]
  ELSE IF n \in f.media THEN f
  ELSE LET g == [f EXCEPT !.media = @ \cup {n}, !.kind = stream[n].kind]
       IN  [g EXCEPT !.complete = @ \/ SessionComplete(g)]

(***************************************************************************)
(* VCMDecodingState                                                         *)
(***************************************************************************)
\* Mutant: the frame decoded last is not old.
IsOld_Strict(last, t) == ~last.initial /\ t < last.ts

IsOld(last, t) == ~last.initial /\ t <= last.ts
StateAfter(f, t) == [initial |-> FALSE, seq |-> HighSequenceNumber(f), ts |-> t]

\* Mutant: a delta frame may start the decoding.
ContinuousFrame_AnyStart(f, last) ==
  \/ f.kind = "key"
  \/ last.initial
  \/ LowSequenceNumber(f) = last.seq + 1

ContinuousFrame(f, last) ==
  \/ f.kind = "key"
  \/ ~last.initial /\ LowSequenceNumber(f) = last.seq + 1

\* UpdateEmptyFrame: whether the frame can be dropped, and the state after it.
CanDropEmpty(f, last) ==
  \/ /\ HighSequenceNumber(f) = LowSequenceNumber(f)
     /\ last.initial \/ HighSequenceNumber(f) = last.seq + 1
  \/ ContinuousFrame(f, last)
StateAfterEmpty(f, t, last) ==
  IF last.initial THEN last ELSE [last EXCEPT !.seq = HighSequenceNumber(f), !.ts = t]

\* The state when packet n belongs to a frame that was decoded.
UpdateOldPacket(last, n) ==
  IF stream[n].frame = last.ts /\ n > last.seq THEN [last EXCEPT !.seq = n] ELSE last

(***************************************************************************)
(* The list of numbers to ask for again                                     *)
(***************************************************************************)
DropPackets(b, upTo) == [b EXCEPT !.missing = {n \in @ : n > upTo}]

EstimatedLowSequenceNumber(f) ==
  IF HaveFirstPacket(f) THEN LowSequenceNumber(f) ELSE LowSequenceNumber(f) - 1

\* A list without the frames before its first key frame, and never its front.
UntilKeyFrame(list) ==
  LET keys == {t \in DOMAIN list : list[t].kind = "key" /\ t # Oldest(list)}
  IN  IF keys = {} THEN NoFrames ELSE Restrict(list, {t \in DOMAIN list : t >= Min(keys)})

\* found tells whether the last call found a key frame.
RecycleFramesUntilKeyFrame(b) ==
  LET rest == UntilKeyFrame(IF b.inc # NoFrames THEN b.inc ELSE b.dec)
      c    == [b EXCEPT !.inc = IF b.inc # NoFrames THEN rest ELSE @,
                        !.dec = IF b.inc # NoFrames THEN @ ELSE rest,
                        !.found = rest # NoFrames]
  IN  IF c.found
      THEN DropPackets([c EXCEPT !.last = Initial], EstimatedLowSequenceNumber(rest[Oldest(rest)]))
      ELSE IF c.dec = NoFrames THEN [c EXCEPT !.last = Initial, !.missing = {}]
      ELSE c

\* found is of no use between two calls.
Settled(b) == [b EXCEPT !.found = TRUE]

\* The rounds of the two loops: with no frame left the list gets empty.
Rounds(b) == Cardinality(Listed(b)) + 1

TooLargeNackList(b) == Cardinality(b.missing) > MaxNackListSize
HandleTooLargeNackList(b) ==
  LET after[i \in 0 .. Rounds(b)] ==
        IF i = 0 THEN Settled(b)
        ELSE IF TooLargeNackList(after[i - 1]) THEN RecycleFramesUntilKeyFrame(after[i - 1])
        ELSE after[i - 1]
  IN  after[Rounds(b)]

MissingTooOldPacket(b, n) == b.missing # {} /\ n - Min(b.missing) > MaxPacketAge
HandleTooOldPackets(b, n) ==
  LET after[i \in 0 .. Rounds(b)] ==
        IF i = 0 THEN Settled(b)
        ELSE IF MissingTooOldPacket(after[i - 1], n) THEN RecycleFramesUntilKeyFrame(after[i - 1])
        ELSE after[i - 1]
  IN  after[Rounds(b)]

\* Mutant: a number that arrived stays in the list.
Arrived_Stays(b, n) == b

Arrived(b, n) == [b EXCEPT !.missing = @ \ {n}]

\* found afterwards is the result: without it a key frame is needed.
UpdateNackList(b, n) ==
  LET latest == IF b.last.initial \/ b.latest > b.last.seq THEN b.latest ELSE b.last.seq
      longer == [b EXCEPT !.missing = @ \cup latest + 1 .. n - 1]
      small  == HandleTooLargeNackList(longer)
  IN  IF n <= latest THEN [Arrived(b, n) EXCEPT !.found = TRUE]
      ELSE IF ~small.found THEN small
      ELSE HandleTooOldPackets(small, n)

\* latest_received_sequence_number_ and the list after packet n.
Received(b, n) ==
  IF b.fresh THEN [b EXCEPT !.latest = n, !.fresh = FALSE, !.found = TRUE]
  ELSE LET c == IF b.nack THEN UpdateNackList(b, n) ELSE [b EXCEPT !.found = TRUE]
           seen == IF b.nack /\ ~b.last.initial THEN {b.latest, b.last.seq, n} ELSE {b.latest, n}
       IN  [c EXCEPT !.latest = Max(seen)]

(***************************************************************************)
(* The two lists                                                            *)
(***************************************************************************)
Flush(b) ==
  [b EXCEPT !.dec = NoFrames, !.inc = NoFrames, !.last = Initial, !.old = 0,
            !.fresh = TRUE, !.missing = {}]

\* Mutant: a frame need not be complete.
IsContinuousInState_AnyState(f, last) == ContinuousFrame(f, last)

IsContinuousInState(f, last) == f.complete /\ ContinuousFrame(f, last)

IsContinuous(b, f, t) ==
  \/ IsContinuousInState(f, b.last)
  \/ \E u \in DOMAIN b.dec : u <= t /\ IsContinuousInState(f, StateAfter(b.dec[u], u))

\* The waiting frames that follow frame f of time t, in order, each the one before.  One
\* that does not is passed over: its TemporalId is kNoTemporalIdx, 255, and not below 1.
Followers(inc, f, t) ==
  LET after[i \in 0 .. Cardinality(DOMAIN inc)] ==
        IF i = 0 THEN [last |-> StateAfter(f, t), moved |-> {}]
        ELSE LET c    == after[i - 1]
                 next == {u \in DOMAIN inc : u > c.last.ts /\ IsContinuousInState(inc[u], c.last)}
             IN  IF next = {} THEN c
                 ELSE [last |-> StateAfter(inc[Min(next)], Min(next)), moved |-> c.moved \cup {Min(next)}]
  IN  after[Cardinality(DOMAIN inc)].moved

\* The new frame becomes decodable, and the waiting frames that follow it.
InsertDecodable(b, f, t) ==
  LET moved == Followers(b.inc, f, t)
  IN  [b EXCEPT !.dec = [u \in DOMAIN b.dec \cup moved \cup {t} |->
                           IF u \in moved THEN b.inc[u] ELSE IF u = t THEN f ELSE b.dec[u]],
                !.inc = Restrict(b.inc, DOMAIN b.inc \ (moved \cup {t}))]

\* One round of CleanUpOldOrEmptyFrames on the incomplete list.
CleanUpFront(b) ==
  LET t == Oldest(b.inc)  f == b.inc[t]
      rest == [b EXCEPT !.inc = Without(b.inc, t)]
  IN  IF IsEmptyState(f) /\ Cardinality(DOMAIN b.inc) > 1
      THEN IF CanDropEmpty(f, b.last) THEN [rest EXCEPT !.last = StateAfterEmpty(f, t, b.last)] ELSE b
      ELSE IF IsOld(b.last, t) THEN rest ELSE b

CleanUpOldOrEmptyFrames(b) ==
  LET start == [b EXCEPT !.dec = Restrict(b.dec, {t \in DOMAIN b.dec : ~IsOld(b.last, t)})]
      after[i \in 0 .. Cardinality(DOMAIN b.inc)] ==
        IF i = 0 THEN start
        ELSE IF after[i - 1].inc = NoFrames THEN after[i - 1] ELSE CleanUpFront(after[i - 1])
      c == after[Cardinality(DOMAIN b.inc)]
  IN  IF c.last.initial THEN c ELSE DropPackets(c, c.last.seq)
(***************************************************************************)
(* InsertPacket: the network thread                                         *)
(***************************************************************************)
Room(b) == Cardinality(Listed(b)) + lost + (IF held = NoHeld THEN 0 ELSE 1) < MaxNumberOfFrames

\* GetFrame for a packet that is not old; whether a key frame was found is not used.
GetFrame(b, t) ==
  IF t \in Listed(b) \/ Room(b) THEN b ELSE RecycleFramesUntilKeyFrame(b)

FrameOf(b, t) == IF t \in DOMAIN b.inc THEN b.inc[t] ELSE b.dec[t]
PutFrame(b, t, f) ==
  IF t \in DOMAIN b.inc THEN [b EXCEPT !.inc[t] = f] ELSE [b EXCEPT !.dec[t] = f]

\* What every packet of a frame that was not decoded does: it is put into its frame,
\* and the list of missing numbers follows, which may recycle that very frame.
Arrival(n) ==
  LET t      == stream[n].frame
      found  == GetFrame([jb EXCEPT !.old = 0], t)
      new    == t \notin Listed(found)
      before == IF new THEN EmptyFrame ELSE FrameOf(found, t)
      frame  == InsertIntoFrame(before, n)
      b      == Received(IF new THEN found ELSE PutFrame(found, t, frame), n)
  IN  [b |-> b, ts |-> t, new |-> new, before |-> before,
       starved |-> new /\ ~Room(found),
       duplicate |-> n \in before.media,
       whole |-> SessionComplete(frame),
       frame |-> IF new \/ t \in Listed(b) THEN frame ELSE EmptyFrame]

\* assert(*frame) in GetFrame.
NoBufferLeft(a) ==
  /\ a.starved
  /\ fault' = "starved"
  /\ UNCHANGED <<stream, jb, lost, resetting, picked, held, newest>>

\* The frame a first packet was put into gets into no list.
InsertAndFlush(n, a) ==
  /\ ~a.starved
  /\ ~a.b.found /\ stream[n].kind # "key"
  /\ jb' = Settled(a.b)
  /\ lost' = IF a.new THEN lost + 1 ELSE lost
  /\ resetting' = TRUE
  /\ UNCHANGED <<stream, fault, picked, held, newest>>

Accepted(n, a) ==
  /\ ~a.starved
  /\ a.b.found \/ stream[n].kind = "key"
  /\ UNCHANGED <<stream, lost, resetting, picked, held, newest>>

\* A continuous frame that gets complete, and was not before, can be decoded.
InsertContinuous(n, a) ==
  /\ Accepted(n, a) /\ ~a.duplicate
  /\ a.whole /\ ~a.before.complete /\ IsContinuous(a.b, a.frame, a.ts)
  /\ jb' = InsertDecodable(Settled(a.b), a.frame, a.ts)
  /\ UNCHANGED fault

DropsEmpty(a) == ~a.whole /\ IsEmptyState(a.frame) /\ CanDropEmpty(a.frame, a.b.last)

\* An empty frame is freed at once; one that was in a list, or recycled, is then twice in use.
InsertEmpty(n, a) ==
  /\ Accepted(n, a) /\ ~a.duplicate
  /\ DropsEmpty(a)
  /\ jb' = [Settled(a.b) EXCEPT !.last = StateAfterEmpty(a.frame, a.ts, @)]
  /\ fault' = IF a.new THEN fault ELSE "aliased"

\* A frame that waits: for its packets, or for the frames before it.  A frame that
\* was complete stays in its list, whatever list that is.
InsertWaiting(n, a) ==
  /\ Accepted(n, a)
  /\ \/ a.duplicate
     \/ a.whole /\ (a.before.complete \/ ~IsContinuous(a.b, a.frame, a.ts))
     \/ ~a.whole /\ ~DropsEmpty(a)
  /\ jb' = IF a.new THEN [Settled(a.b) EXCEPT !.inc = With(@, a.ts, a.frame)] ELSE Settled(a.b)
  /\ UNCHANGED fault

\* A packet of a frame that was not decoded.
InsertNewPacket(n) ==
  /\ fault = "none" /\ ~resetting
  /\ ~IsOld(jb.last, stream[n].frame)
  /\ \E a \in {Arrival(n)} :
       \/ NoBufferLeft(a) \/ InsertAndFlush(n, a)
       \/ InsertContinuous(n, a) \/ InsertEmpty(n, a) \/ InsertWaiting(n, a)

\* A packet of a frame decoded, or passed, already.
InsertOldPacket(n) ==
  LET b == DropPackets([jb EXCEPT !.last = UpdateOldPacket(@, n)], UpdateOldPacket(jb.last, n).seq)
      old == IF stream[n].kind = "empty" THEN jb.old ELSE jb.old + 1
  IN  /\ fault = "none" /\ ~resetting
      /\ IsOld(jb.last, stream[n].frame)
      /\ jb' = IF old > MaxOldPackets THEN Flush(b) ELSE [b EXCEPT !.old = old]
      /\ resetting' = (old > MaxOldPackets)
      /\ UNCHANGED <<stream, lost, fault, picked, held, newest>>

InsertPacket(n) == InsertNewPacket(n) \/ InsertOldPacket(n)

\* After the flush indicator IncomingPacket resets the receiver, if there is a decoder.
ResetDecoder ==
  /\ fault = "none" /\ resetting
  /\ resetting' = FALSE
  /\ jb' \in {jb, Flush(jb)}
  /\ UNCHANGED <<stream, lost, fault, picked, held, newest>>

(***************************************************************************)
(* FrameForDecoding and ReleaseFrame: the decode thread                     *)
(***************************************************************************)
NextCompleteTimestamp ==
  LET b == CleanUpOldOrEmptyFrames(jb)
  IN  /\ fault = "none" /\ picked = 0 /\ held = NoHeld
      /\ jb' = b
      /\ picked' = IF b.dec = NoFrames THEN 0 ELSE Oldest(b.dec)
      /\ UNCHANGED <<stream, lost, fault, resetting, held, newest>>

\* The frame is not due before the time to wait is over.
NotDueYet ==
  /\ fault = "none" /\ picked # 0
  /\ picked' = 0
  /\ UNCHANGED <<stream, jb, lost, fault, resetting, held, newest>>

\* The render time is out of bounds.
TimingError ==
  /\ fault = "none" /\ picked # 0
  /\ jb' = Flush(jb) /\ picked' = 0
  /\ UNCHANGED <<stream, lost, fault, resetting, held, newest>>

\* The frame picked may have been recycled, or recycled and begun again.
ExtractAndSetDecode ==
  /\ fault = "none" /\ picked # 0
  /\ picked' = 0
  /\ IF picked \notin Listed(jb) THEN UNCHANGED <<jb, held, newest>>
     ELSE LET f == IF picked \in DOMAIN jb.dec THEN jb.dec[picked] ELSE jb.inc[picked]
              b == [jb EXCEPT !.dec = Without(@, picked),
                              !.inc = IF picked \in DOMAIN jb.dec THEN @ ELSE Without(@, picked),
                              !.last = StateAfter(f, picked)]
          IN  /\ jb' = DropPackets(b, b.last.seq)
              /\ held' = [ts |-> picked, frame |-> f,
                          missing |-> picked \notin DOMAIN jb.dec /\ ~ContinuousFrame(f, jb.last)]
              /\ newest' = IF picked > newest THEN picked ELSE newest
  /\ UNCHANGED <<stream, lost, fault, resetting>>

ReleaseFrame ==
  /\ fault = "none" /\ held # NoHeld
  /\ held' = NoHeld
  /\ UNCHANGED <<stream, jb, lost, fault, resetting, picked, newest>>

(***************************************************************************)
(* The process thread and the control calls                                 *)
(***************************************************************************)
\* NextFrame is a key frame that can be decoded as soon as it is whole.
StartsWithKeyFrame(b) ==
  \E t \in Listed(b) :
    /\ t = IF b.dec # NoFrames THEN Oldest(b.dec) ELSE Oldest(b.inc)
    /\ FrameOf(b, t).kind = "key" /\ HaveFirstPacket(FrameOf(b, t))

\* The list is not made small when frames were recycled in vain.
GetNackList ==
  LET skip == jb.last.initial /\ ~StartsWithKeyFrame(jb)
      b    == IF skip THEN RecycleFramesUntilKeyFrame(jb) ELSE jb
  IN  /\ fault = "none" /\ jb.nack
      /\ jb' = Settled(IF skip /\ ~b.found THEN b ELSE HandleTooLargeNackList(b))
      /\ UNCHANGED <<stream, lost, fault, resetting, picked, held, newest>>

SetNackMode(on) ==
  /\ fault = "none"
  /\ jb' = [jb EXCEPT !.nack = on, !.missing = IF on THEN @ ELSE {}]
  /\ UNCHANGED <<stream, lost, fault, resetting, picked, held, newest>>

RenderBufferSize ==
  /\ fault = "none"
  /\ jb' = CleanUpOldOrEmptyFrames(jb)
  /\ UNCHANGED <<stream, lost, fault, resetting, picked, held, newest>>

\* VCMReceiver::Reset while the buffer runs.
Reset ==
  /\ fault = "none"
  /\ jb' = Flush(jb)
  /\ UNCHANGED <<stream, lost, fault, resetting, picked, held, newest>>

Init ==
  /\ stream \in Streams
  /\ \E on \in NackModes :
       jb = [dec |-> NoFrames, inc |-> NoFrames, last |-> Initial, missing |-> {}, latest |-> 0,
             fresh |-> TRUE, old |-> 0, nack |-> on, found |-> TRUE]
  /\ lost = 0 /\ fault = "none" /\ resetting = FALSE
  /\ picked = 0 /\ held = NoHeld
  /\ newest = 0

Next ==
  \/ \E n \in Packets : InsertPacket(n)
  \/ ResetDecoder
  \/ NextCompleteTimestamp \/ NotDueYet \/ TimingError
  \/ ExtractAndSetDecode \/ ReleaseFrame
  \/ GetNackList \/ \E on \in NackModes : SetNackMode(on)
  \/ RenderBufferSize \/ Reset

Spec == Init /\ [][Next]_vars
=============================================================================
