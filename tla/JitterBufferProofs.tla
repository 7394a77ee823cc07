-------------------------- MODULE JitterBufferProofs --------------------------
(***************************************************************************)
(* For any streams, sizes and orders of packets: the shape of the jitter    *)
(* buffer, what its list of missing numbers may name, and what the decoder  *)
(* gets.  The loops of the code are functions of the round; what holds of   *)
(* each round is shown over sets of rounds (UpTo), what the function is by  *)
(* RoundsExist.                                                             *)
(***************************************************************************)
EXTENDS JitterBufferProps, FiniteSetTheorems, WellFoundedInduction, TLAPS

(***************************************************************************)
(* Facts about numbers and rounds                                           *)
(***************************************************************************)
(* A non-empty set of natural numbers has a least element.                  *)
LEMMA LeastElement ==
  ASSUME NEW S \in SUBSET Nat, S # {}
  PROVE  \E i \in S : \A j \in S : i <= j
<1> DEFINE R == OpToRel(<, Nat)
<1>1. \A x, y \in S : <<y, x>> \in R <=> y < x
  BY SMT DEF OpToRel
<1>2. IsWellFoundedOn(R, Nat)
  BY NatLessThanWellFounded
<1> HIDE DEF R
<1>3. PICK x \in S : \A y \in S : ~(<<y, x>> \in R)
  BY <1>2, WFMin
<1>4. \A y \in S : ~(y < x)
  BY <1>1, <1>3
<1> QED BY <1>4

(* The oldest frame of a list and the lowest number of a frame exist.       *)
LEMMA MinOf ==
  ASSUME NEW S \in SUBSET Nat, S # {}
  PROVE  Min(S) \in S /\ \A y \in S : Min(S) <= y
BY LeastElement DEF Min

(* So does the highest number.                                              *)
LEMMA MaxOf ==
  ASSUME NEW k \in Nat, NEW S \in SUBSET (0 .. k), S # {}
  PROVE  Max(S) \in S /\ \A y \in S : y <= Max(S)
<1> DEFINE T == {j \in 0 .. k : k - j \in S}
<1>1. T # {} /\ T \in SUBSET Nat
  <2>1. PICK x \in S : TRUE
    OBVIOUS
  <2>2. k - x \in 0 .. k /\ k - (k - x) = x
    OBVIOUS
  <2>3. k - (k - x) \in S
    BY <2>2
  <2>4. k - x \in T
    BY <2>2, <2>3
  <2>5. T \in SUBSET Nat
    OBVIOUS
  <2> HIDE DEF T
  <2> QED BY <2>4, <2>5
<1>2. PICK j \in T : \A i \in T : j <= i
  BY <1>1, LeastElement
<1>3. \A y \in S : y <= k - j
  <2> TAKE y \in S
  <2>1. k - y \in 0 .. k /\ k - (k - y) = y
    OBVIOUS
  <2>2. k - y \in T
    BY <2>1
  <2> QED BY <1>2, <2>1, <2>2
<1>4. k - j \in S /\ \A y \in S : k - j >= y
  BY <1>2, <1>3
<1>5. Max(S) \in S /\ \A y \in S : Max(S) >= y
  BY <1>4 DEF Max
<1> QED BY <1>5

(* What holds before the first round, and after a round if it held before,  *)
(* holds after every round.                                                 *)
LEMMA UpTo ==
  ASSUME NEW m \in Nat, NEW I, 0 \in I, \A i \in 0 .. m - 1 : i \in I => i + 1 \in I
  PROVE  \A i \in 0 .. m : i \in I
<1> DEFINE B == {i \in 0 .. m : i \notin I}
<1>1. SUFFICES B = {}
  OBVIOUS
<1>2. SUFFICES ASSUME B # {} PROVE FALSE
  OBVIOUS
<1>6. B \in SUBSET Nat
  OBVIOUS
<1>3. PICK i \in B : \A j \in B : i <= j
  BY <1>2, <1>6, LeastElement
<1>4. i # 0 /\ i - 1 \in 0 .. m - 1 /\ (i - 1) + 1 = i
  BY <1>3
<1>5. i - 1 \notin B
  BY <1>3, <1>4
<1> QED BY <1>3, <1>4, <1>5

\* f is what there is after each of m rounds, beginning with b.
RoundsOf(f, b, step, m) == f = [i \in 0 .. m |-> IF i = 0 THEN b ELSE step[f[i - 1]]]

(* The rounds of a loop whose step stays in a set.                          *)
LEMMA RoundsExist ==
  ASSUME NEW T, NEW b \in T, NEW step \in [T -> T], NEW m \in Nat
  PROVE  \E f \in [0 .. m -> T] : RoundsOf(f, b, step, m)
<1> DEFINE P(f, k) == f \in [0 .. k -> T] /\ f[0] = b /\ \A i \in 1 .. k : f[i] = step[f[i - 1]]
           I == {k \in Nat : \E f : P(f, k)}
<1>1. 0 \in I
  <2>1. P([i \in 0 .. 0 |-> b], 0)
    OBVIOUS
  <2> QED BY <2>1
<1>2. ASSUME NEW k \in 0 .. m - 1, k \in I PROVE k + 1 \in I
  <2>1. PICK f : P(f, k)
    BY <1>2
  <2> DEFINE g == [i \in 0 .. k + 1 |-> IF i = k + 1 THEN step[f[k]] ELSE f[i]]
  <2>2. g \in [0 .. k + 1 -> T]
    BY <2>1
  <2>3. g[0] = b
    BY <2>1
  <2>4. ASSUME NEW i \in 1 .. k + 1 PROVE g[i] = step[g[i - 1]]
    <3>1. i - 1 \in 0 .. k /\ g[i - 1] = f[i - 1]
      OBVIOUS
    <3> QED BY <2>1, <3>1
  <2>5. P(g, k + 1)
    BY <2>2, <2>3, <2>4
  <2>6. k + 1 \in Nat /\ \E h : P(h, k + 1)
    <3> HIDE DEF P, g
    <3> QED BY <2>5
  <2> HIDE DEF P
  <2> QED BY <2>6
<1>3. m \in I
  <2> HIDE DEF I
  <2>1. \A i \in 0 .. m : i \in I
    BY <1>1, <1>2, UpTo
  <2> QED BY <2>1
<1>4. PICK f : P(f, m)
  BY <1>3
<1>5. f = [i \in 0 .. m |-> IF i = 0 THEN b ELSE step[f[i - 1]]]
  <2> DEFINE g == [i \in 0 .. m |-> IF i = 0 THEN b ELSE step[f[i - 1]]]
  <2>1. \A i \in 0 .. m : f[i] = g[i]
    BY <1>4
  <2>2. f \in [0 .. m -> T]
    BY <1>4
  <2>3. f = [i \in 0 .. m |-> f[i]]
    BY <2>2
  <2> QED BY <2>1, <2>3
<1> QED BY <1>4, <1>5 DEF RoundsOf

(***************************************************************************)
(* Streams and frames                                                       *)
(***************************************************************************)
(* What the assumption on the constants says of the stream received.        *)
LEMMA StreamFacts ==
  ASSUME stream \in Streams
  PROVE  /\ Len(stream) \in Nat /\ Packets = 1 .. Len(stream) /\ IsFiniteSet(Packets)
         /\ \A n \in Packets :
              /\ stream[n].frame \in Nat \ {0} /\ stream[n].kind \in {"key", "delta", "empty"}
              /\ stream[n].first \in BOOLEAN /\ stream[n].marker \in BOOLEAN
         /\ Timestamps \subseteq Nat \ {0} /\ IsFiniteSet(Timestamps)
<1> DEFINE R == [frame : Nat \ {0}, kind : {"key", "delta", "empty"},
                 first : BOOLEAN, marker : BOOLEAN]
<1>1. stream \in Seq(R)
  BY JitterBufferAssumption
<1>2. /\ Len(stream) \in Nat /\ Packets = 1 .. Len(stream)
      /\ \A n \in Packets : stream[n] \in R
  <2> HIDE DEF R
  <2> QED BY <1>1 DEF Packets
<1>3. IsFiniteSet(Packets)
  BY <1>2, FS_Interval
<1>4. Timestamps \subseteq Nat \ {0}
  BY <1>2 DEF Timestamps
<1>5. IsFiniteSet(Timestamps)
  <2> DEFINE f == [n \in Packets |-> stream[n].frame]
  <2>1. f \in Surjection(Packets, Timestamps)
    BY DEF Surjection, Timestamps
  <2> QED BY <2>1, <1>3, FS_Surjection
<1> QED BY <1>2, <1>3, <1>4, <1>5

(* Packets of a later frame come later, and of one timestamp media is first *)
(* and of one kind.                                                         *)
LEMMA SentInOrder ==
  ASSUME stream \in Streams, NEW m \in Packets, NEW n \in Packets
  PROVE  /\ m <= n => stream[m].frame <= stream[n].frame
         /\ stream[m].frame < stream[n].frame => m < n
         /\ m <= n /\ stream[m].frame = stream[n].frame /\ stream[m].kind = "empty" =>
              stream[n].kind = "empty"
BY StreamFacts, StreamAssumption DEF Packets

LEMMA OneKind ==
  ASSUME stream \in Streams, NEW m \in Packets, NEW n \in Packets,
         stream[m].frame = stream[n].frame, stream[m].kind # "empty", stream[n].kind # "empty"
  PROVE  stream[m].kind = stream[n].kind
BY StreamFacts, StreamAssumption DEF Packets

(* Frames of time t.                                                        *)
AnyFrame == [media : SUBSET Packets, pads : SUBSET Packets,
             kind : {"key", "delta"}, complete : BOOLEAN]
FramesAt(t) ==
  {f \in AnyFrame : /\ IsFrame(f, t)
                    /\ \A n \in f.media : stream[n].kind = f.kind
                    /\ f.media = {} => f.kind = "delta"}
Parts(f) == f.media \cup f.pads

(* The lowest and the highest number of a frame are numbers of its packets. *)
LEMMA FrameFacts ==
  ASSUME stream \in Streams, NEW t, NEW f \in FramesAt(t)
  PROVE  /\ t \in Timestamps
         /\ Parts(f) \subseteq Packets /\ \A n \in Parts(f) : stream[n].frame = t
         /\ \A n \in f.media : stream[n].kind # "empty"
         /\ \A n \in f.pads : stream[n].kind = "empty"
         /\ LowSequenceNumber(f) \in Parts(f) /\ HighSequenceNumber(f) \in Parts(f)
         /\ \A n \in Parts(f) : n <= HighSequenceNumber(f)
         /\ f.media = {} => \A n \in Parts(f) : LowSequenceNumber(f) <= n
         /\ f.complete => \E n \in f.media : stream[n].kind # "empty"
<1>1. /\ f.media \subseteq Packets /\ f.pads \subseteq Packets /\ Parts(f) # {}
      /\ \A n \in Parts(f) : stream[n].frame = t
      /\ \A n \in f.media : stream[n].kind # "empty"
      /\ \A n \in f.pads : stream[n].kind = "empty"
      /\ f.complete => \E n \in f.media : stream[n].first
  BY DEF FramesAt, AnyFrame, IsFrame, HaveFirstPacket, Parts
<1>2. Packets \subseteq 0 .. Len(stream) /\ Packets \subseteq Nat /\ Len(stream) \in Nat
  BY StreamFacts
<1>3. HighSequenceNumber(f) = Max(Parts(f))
  BY <1>1 DEF HighSequenceNumber, Parts
<1>4. HighSequenceNumber(f) \in Parts(f) /\ \A n \in Parts(f) : n <= HighSequenceNumber(f)
  <2>1. Parts(f) \in SUBSET (0 .. Len(stream))
    BY <1>1, <1>2 DEF Parts
  <2> QED BY <2>1, <1>1, <1>2, <1>3, MaxOf
<1>5. LowSequenceNumber(f) = Min(IF f.media # {} THEN f.media ELSE f.pads)
  BY <1>1 DEF LowSequenceNumber, Parts
<1>6. CASE f.media # {}
  <2>1. Min(f.media) \in f.media
    BY <1>1, <1>2, <1>6, MinOf
  <2> QED BY <1>1, <1>4, <1>5, <1>6, <2>1, <1>2 DEF Parts, Timestamps
<1>7. CASE f.media = {}
  <2>1. f.pads # {} /\ f.pads \in SUBSET Nat
    BY <1>1, <1>2, <1>7 DEF Parts
  <2>2. Min(f.pads) \in f.pads /\ \A y \in f.pads : Min(f.pads) <= y
    BY <2>1, MinOf
  <2> QED BY <1>1, <1>4, <1>5, <1>7, <2>2, <1>2 DEF Parts, Timestamps
<1> QED BY <1>6, <1>7

First(S) == \E k \in S : stream[k].first
Marker(S) == \E k \in S : stream[k].marker

(* What makes a frame of time t.                                            *)
LEMMA MadeFrame ==
  ASSUME NEW t, NEW M \in SUBSET Packets, NEW P \in SUBSET Packets, NEW K \in {"key", "delta"},
         NEW C \in BOOLEAN, C => First(M) /\ Marker(M), M = {} => K = "delta",
         \A k \in M : stream[k].frame = t /\ stream[k].kind # "empty" /\ stream[k].kind = K,
         \A k \in P : stream[k].frame = t /\ stream[k].kind = "empty",
         M \cup P # {}
  PROVE  [media |-> M, pads |-> P, kind |-> K, complete |-> C] \in FramesAt(t)
<1> DEFINE g == [media |-> M, pads |-> P, kind |-> K, complete |-> C]
<1>1. g \in AnyFrame
  BY DEF AnyFrame
<1>2. IsFrame(g, t)
  <2>1. DOMAIN g = {"media", "pads", "kind", "complete"}
    OBVIOUS
  <2>2. g.media = M /\ g.pads = P /\ g.complete = C
    OBVIOUS
  <2> HIDE DEF g
  <2> QED BY <2>1, <2>2 DEF IsFrame, HaveFirstPacket, First, Marker
<1> QED BY <1>1, <1>2 DEF FramesAt

(* A packet put into a frame of its time, or into an empty buffer.          *)
LEMMA InsertedFrame ==
  ASSUME stream \in Streams, NEW n \in Packets, NEW f \in FramesAt(stream[n].frame) \cup {EmptyFrame}
  PROVE  /\ InsertIntoFrame(f, n) \in FramesAt(stream[n].frame)
         /\ Parts(InsertIntoFrame(f, n)) = Parts(f) \cup {n}
<1> DEFINE t == stream[n].frame
<1>1. /\ f.media \in SUBSET Packets /\ f.pads \in SUBSET Packets
      /\ f.kind \in {"key", "delta"} /\ f.complete \in BOOLEAN
      /\ f = [media |-> f.media, pads |-> f.pads, kind |-> f.kind, complete |-> f.complete]
  <2>1. EmptyFrame \in AnyFrame
    BY DEF AnyFrame, EmptyFrame
  <2>2. f \in AnyFrame
    BY <2>1 DEF FramesAt
  <2> QED BY <2>2 DEF AnyFrame
<1>2. /\ \A k \in f.media : stream[k].frame = t /\ stream[k].kind # "empty" /\ stream[k].kind = f.kind
      /\ \A k \in f.pads : stream[k].frame = t /\ stream[k].kind = "empty"
      /\ f.complete => First(f.media) /\ Marker(f.media)
      /\ f.media = {} => f.kind = "delta"
  BY DEF FramesAt, AnyFrame, IsFrame, EmptyFrame, HaveFirstPacket, First, Marker
<1>3. stream[n].kind \in {"key", "delta", "empty"}
  BY StreamFacts
<1>4. ASSUME NEW h, SessionComplete(h) PROVE First(h.media) /\ Marker(h.media)
  BY <1>4 DEF SessionComplete, HaveFirstPacket, First, Marker
<1>6. CASE stream[n].kind = "empty"
  <2> DEFINE C == f.complete \/ SessionComplete(f)
  <2>1. InsertIntoFrame(f, n) = [media |-> f.media, pads |-> f.pads \cup {n}, kind |-> f.kind,
                                 complete |-> C]
    <3>1. InsertIntoFrame(f, n) = [f EXCEPT !.pads = @ \cup {n}, !.complete = @ \/ SessionComplete(f)]
      BY <1>6 DEF InsertIntoFrame
    <3> QED BY <3>1, <1>1
  <2>2. C \in BOOLEAN /\ (C => First(f.media) /\ Marker(f.media))
    BY <1>1, <1>2, <1>4 DEF SessionComplete
  <2> HIDE DEF C
  <2>3. InsertIntoFrame(f, n) \in FramesAt(t)
    <3>1. \A k \in f.pads \cup {n} : stream[k].frame = t /\ stream[k].kind = "empty"
      BY <1>2, <1>6
    <3>2. f.pads \cup {n} \in SUBSET Packets /\ f.media \cup (f.pads \cup {n}) # {}
      BY <1>1
    <3>3. [media |-> f.media, pads |-> f.pads \cup {n}, kind |-> f.kind, complete |-> C] \in FramesAt(t)
      <4> HIDE DEF t
      <4> QED BY <1>1, <1>2, <2>2, <3>1, <3>2, MadeFrame
    <3> QED BY <2>1, <3>3
  <2> QED BY <2>1, <2>3 DEF Parts
<1>7. CASE stream[n].kind # "empty" /\ n \in f.media
  <2>1. InsertIntoFrame(f, n) = f /\ f # EmptyFrame
    BY <1>7 DEF InsertIntoFrame, EmptyFrame
  <2> QED BY <2>1, <1>7 DEF Parts
<1>8. CASE stream[n].kind # "empty" /\ n \notin f.media
  <2> DEFINE h == [media |-> f.media \cup {n}, pads |-> f.pads, kind |-> stream[n].kind,
                   complete |-> f.complete]
             C == f.complete \/ SessionComplete(h)
  <2>1. InsertIntoFrame(f, n) = [media |-> f.media \cup {n}, pads |-> f.pads, kind |-> stream[n].kind,
                                 complete |-> C]
    <3> DEFINE k == [f EXCEPT !.media = @ \cup {n}, !.kind = stream[n].kind]
    <3>1. k = h
      <4> DEFINE e == [f EXCEPT !.media = @ \cup {n}]
      <4>1. e = [media |-> f.media \cup {n}, pads |-> f.pads, kind |-> f.kind, complete |-> f.complete]
        BY <1>1
      <4>2. k = [e EXCEPT !.kind = stream[n].kind]
        OBVIOUS
      <4>3. [e EXCEPT !.kind = stream[n].kind] = h
        <5> HIDE DEF e
        <5> QED BY <4>1
      <4> QED BY <4>2, <4>3
    <3>2. InsertIntoFrame(f, n) = [k EXCEPT !.complete = @ \/ SessionComplete(k)]
      BY <1>8 DEF InsertIntoFrame
    <3>3. InsertIntoFrame(f, n) = [h EXCEPT !.complete = @ \/ SessionComplete(h)]
      BY <3>1, <3>2
    <3> QED BY <3>3
  <2>2. C \in BOOLEAN /\ (C => First(f.media \cup {n}) /\ Marker(f.media \cup {n}))
    <3>1. SessionComplete(h) \in BOOLEAN /\ h.media = f.media \cup {n}
      BY DEF SessionComplete
    <3>2. SessionComplete(h) => First(f.media \cup {n}) /\ Marker(f.media \cup {n})
      <4> HIDE DEF h
      <4> QED BY <1>4, <3>1
    <3> QED BY <1>1, <1>2, <3>1, <3>2 DEF First, Marker
  <2>3. \A k \in f.media : stream[k].kind = stream[n].kind
    <3> TAKE k \in f.media
    <3>1. k \in Packets /\ stream[k].frame = stream[n].frame /\ stream[k].kind # "empty"
      BY <1>1, <1>2
    <3> QED BY <1>8, <3>1, OneKind
  <2> HIDE DEF C
  <2>4. InsertIntoFrame(f, n) \in FramesAt(t)
    <3>1. \A k \in f.media \cup {n} :
            stream[k].frame = t /\ stream[k].kind # "empty" /\ stream[k].kind = stream[n].kind
      BY <1>2, <1>8, <2>3
    <3>2. /\ f.media \cup {n} \in SUBSET Packets /\ (f.media \cup {n}) \cup f.pads # {}
          /\ stream[n].kind \in {"key", "delta"} /\ f.media \cup {n} # {}
      BY <1>1, <1>3, <1>8
    <3>3. [media |-> f.media \cup {n}, pads |-> f.pads, kind |-> stream[n].kind,
           complete |-> C] \in FramesAt(t)
      <4> HIDE DEF t
      <4> QED BY <1>1, <1>2, <2>2, <3>1, <3>2, MadeFrame
    <3> QED BY <2>1, <3>3
  <2> QED BY <2>1, <2>4 DEF Parts
<1> QED BY <1>6, <1>7, <1>8

(***************************************************************************)
(* Lists and buffers                                                        *)
(***************************************************************************)
FrameSet == UNION {FramesAt(t) : t \in Timestamps}
Lists == {l \in UNION {[D -> FrameSet] : D \in SUBSET Timestamps} :
            \A t \in DOMAIN l : l[t] \in FramesAt(t)}

States == {Initial} \cup {[initial |-> FALSE, seq |-> n, ts |-> stream[n].frame] : n \in Packets}

AnyBuffer ==
  [dec : Lists, inc : Lists, last : States, missing : SUBSET Packets, latest : Packets \cup {0},
   fresh : BOOLEAN, old : 0 .. MaxOldPackets, nack : BOOLEAN, found : BOOLEAN]
Buffers == {b \in AnyBuffer : /\ DOMAIN b.dec \cap DOMAIN b.inc = {}
                              /\ \A t \in DOMAIN b.dec : b.dec[t].complete}

(* A list is a function from timestamps to frames of these times.           *)
LEMMA ListFacts ==
  ASSUME NEW l \in Lists
  PROVE  /\ DOMAIN l \subseteq Timestamps
         /\ l = [t \in DOMAIN l |-> l[t]]
         /\ \A t \in DOMAIN l : l[t] \in FramesAt(t)
BY DEF Lists

LEMMA MadeList ==
  ASSUME NEW D \in SUBSET Timestamps, NEW l, DOMAIN l = D, l = [t \in D |-> l[t]],
         \A t \in D : l[t] \in FramesAt(t)
  PROVE  l \in Lists
<1>1. \A t \in D : l[t] \in FrameSet
  BY DEF FrameSet
<1>2. l \in [D -> FrameSet]
  BY <1>1
<1> QED BY <1>2 DEF Lists

(* A part of a list is a list.                                              *)
LEMMA RestrictedList ==
  ASSUME NEW l \in Lists, NEW D \in SUBSET DOMAIN l
  PROVE  /\ Restrict(l, D) \in Lists /\ DOMAIN Restrict(l, D) = D
         /\ \A t \in D : Restrict(l, D)[t] = l[t]
<1>1. D \in SUBSET Timestamps /\ \A t \in D : l[t] \in FramesAt(t)
  BY ListFacts
<1>2. DOMAIN Restrict(l, D) = D /\ (\A t \in D : Restrict(l, D)[t] = l[t])
      /\ Restrict(l, D) = [t \in D |-> Restrict(l, D)[t]]
  BY DEF Restrict
<1> QED BY <1>1, <1>2, MadeList

(* So is a list with one more frame, or another one.                        *)
LEMMA ListWith ==
  ASSUME NEW l \in Lists, NEW t \in Timestamps, NEW f \in FramesAt(t)
  PROVE  With(l, t, f) \in Lists /\ DOMAIN With(l, t, f) = DOMAIN l \cup {t}
<1>1. /\ DOMAIN l \cup {t} \in SUBSET Timestamps /\ l = [u \in DOMAIN l |-> l[u]]
      /\ \A u \in DOMAIN l : l[u] \in FramesAt(u)
  BY ListFacts
<1>2. /\ DOMAIN With(l, t, f) = DOMAIN l \cup {t} /\ With(l, t, f)[t] = f
      /\ \A u \in DOMAIN l \ {t} : With(l, t, f)[u] = l[u]
      /\ With(l, t, f) = [u \in DOMAIN l \cup {t} |-> With(l, t, f)[u]]
  BY DEF With
<1>3. With(l, t, f) \in Lists
  BY <1>1, <1>2, MadeList
<1> QED BY <1>2, <1>3

LEMMA ListChanged ==
  ASSUME NEW l \in Lists, NEW t \in DOMAIN l, NEW f
  PROVE  [l EXCEPT ![t] = f] = With(l, t, f)
BY ListFacts DEF With

LEMMA NoFramesIsList ==
  ASSUME stream \in Streams
  PROVE  /\ NoFrames \in Lists /\ DOMAIN NoFrames = {}
         /\ \A l \in Lists : DOMAIN l = {} => l = NoFrames
<1>1. DOMAIN NoFrames = {} /\ NoFrames = [t \in {} |-> NoFrames[t]]
  BY DEF NoFrames
<1>2. NoFrames \in Lists
  BY <1>1, MadeList
<1>3. ASSUME NEW l \in Lists, DOMAIN l = {} PROVE l = NoFrames
  BY <1>3, ListFacts DEF NoFrames
<1> QED BY <1>1, <1>2, <1>3

(* The oldest frame of a list.                                              *)
LEMMA OldestOf ==
  ASSUME stream \in Streams, NEW l \in Lists, l # NoFrames
  PROVE  /\ DOMAIN l \subseteq Timestamps /\ Oldest(l) \in DOMAIN l
         /\ \A t \in DOMAIN l : Oldest(l) <= t
<1>1. DOMAIN l # {} /\ DOMAIN l \in SUBSET Nat /\ DOMAIN l \subseteq Timestamps
  BY NoFramesIsList, ListFacts, StreamFacts
<1> QED BY <1>1, MinOf DEF Oldest

(* What a buffer is made of.                                                *)
LEMMA BufferFacts ==
  ASSUME NEW b \in Buffers
  PROVE  /\ b.dec \in Lists /\ b.inc \in Lists /\ DOMAIN b.dec \cap DOMAIN b.inc = {}
         /\ \A t \in DOMAIN b.dec : b.dec[t].complete
         /\ b.last \in States /\ b.missing \in SUBSET Packets /\ b.latest \in Packets \cup {0}
         /\ b.fresh \in BOOLEAN /\ b.old \in 0 .. MaxOldPackets /\ b.nack \in BOOLEAN
         /\ b.found \in BOOLEAN /\ b \in AnyBuffer
         /\ Listed(b) \subseteq Timestamps
BY ListFacts DEF Buffers, AnyBuffer, Listed

(***************************************************************************)
(* Recycling                                                                *)
(***************************************************************************)
\* The stream has only padding after time x and before time t.
Between(x, t) == \A n \in Packets : stream[n].frame \in x + 1 .. t - 1 => stream[n].kind = "empty"

\* A decodable delta frame newer than x follows x, or a decodable frame.
Chained(dec, x) ==
  \A t \in DOMAIN dec : dec[t].kind = "delta" /\ t > x =>
    Between(x, t) \/ \E u \in DOMAIN dec : u < t /\ Between(u, t)

\* c has some of the frames of b, and its state or the initial one.
Kept(c, b) ==
  /\ DOMAIN c.dec \subseteq DOMAIN b.dec /\ \A t \in DOMAIN c.dec : c.dec[t] = b.dec[t]
  /\ DOMAIN c.inc \subseteq DOMAIN b.inc /\ \A t \in DOMAIN c.inc : c.inc[t] = b.inc[t]
  /\ \A x \in Nat : Chained(b.dec, x) => Chained(c.dec, x)
  /\ c.last \in {b.last, Initial} /\ c.old = b.old /\ c.nack = b.nack

\* c is b without some of the frames and numbers.
Recycled(c, b) ==
  Kept(c, b) /\ c.missing \subseteq b.missing /\ c.latest = b.latest /\ c.fresh = b.fresh

LEMMA RecycledTransitive ==
  ASSUME NEW a, NEW b, NEW c, Recycled(c, b), Recycled(b, a)
  PROVE  Recycled(c, a)
BY DEF Recycled, Kept

LEMMA RecycledReflexive ==
  ASSUME NEW b PROVE Recycled(b, b) /\ Recycled(Settled(b), b)
BY DEF Recycled, Kept, Settled

(* Recycling cuts a list of frames behind a key frame that was not its first.*)
LEMMA UntilKeyFrameCuts ==
  ASSUME stream \in Streams, NEW l \in Lists
  PROVE  /\ UntilKeyFrame(l) \in Lists /\ DOMAIN UntilKeyFrame(l) \subseteq DOMAIN l
         /\ \A t \in DOMAIN UntilKeyFrame(l) : UntilKeyFrame(l)[t] = l[t]
         /\ l # NoFrames => \E t \in DOMAIN l : t \notin DOMAIN UntilKeyFrame(l)
         /\ UntilKeyFrame(l) # NoFrames =>
              \E k \in DOMAIN UntilKeyFrame(l) :
                l[k].kind = "key" /\ DOMAIN UntilKeyFrame(l) = {t \in DOMAIN l : t >= k}
<1> DEFINE keys == {t \in DOMAIN l : l[t].kind = "key" /\ t # Oldest(l)}
           D == {t \in DOMAIN l : t >= Min(keys)}
<1>1. CASE keys = {}
  <2>1. UntilKeyFrame(l) = NoFrames
    BY <1>1 DEF UntilKeyFrame
  <2>2. l # NoFrames => Oldest(l) \in DOMAIN l
    BY OldestOf
  <2> QED BY <2>1, <2>2, NoFramesIsList
<1>2. CASE keys # {}
  <2>1. UntilKeyFrame(l) = Restrict(l, D)
    BY <1>2 DEF UntilKeyFrame
  <2>2. keys \in SUBSET Nat /\ keys \subseteq DOMAIN l
    BY ListFacts, StreamFacts
  <2>3. Min(keys) \in keys
    <3> HIDE DEF keys
    <3> QED BY <1>2, <2>2, MinOf
  <2>4. l # NoFrames /\ Oldest(l) \in DOMAIN l /\ Oldest(l) < Min(keys)
    <3>1. l # NoFrames
      BY <2>3, NoFramesIsList
    <3> QED BY <3>1, <2>2, <2>3, OldestOf, ListFacts, StreamFacts
  <2>5. D \in SUBSET DOMAIN l /\ Min(keys) \in D /\ Oldest(l) \notin D /\ l[Min(keys)].kind = "key"
    BY <2>2, <2>3, <2>4, ListFacts, StreamFacts
  <2>6. /\ Restrict(l, D) \in Lists /\ DOMAIN Restrict(l, D) = D
        /\ \A t \in D : Restrict(l, D)[t] = l[t]
    <3> HIDE DEF D
    <3> QED BY <2>5, RestrictedList
  <2>7. \E k \in D : l[k].kind = "key" /\ D = {t \in DOMAIN l : t >= k}
    BY <2>5
  <2> HIDE DEF D
  <2> QED BY <2>1, <2>4, <2>5, <2>6, <2>7
<1> QED BY <1>1, <1>2

(* A key frame that is kept has media: the delta frames after it do not     *)
(* follow a frame before it.                                                *)
LEMMA ChainKept ==
  ASSUME stream \in Streams, NEW l \in Lists, \A t \in DOMAIN l : l[t].complete,
         NEW x \in Nat, Chained(l, x)
  PROVE  Chained(UntilKeyFrame(l), x)
<1> DEFINE r == UntilKeyFrame(l)
<1>1. SUFFICES ASSUME NEW t \in DOMAIN r, r[t].kind = "delta", t > x
               PROVE  Between(x, t) \/ \E u \in DOMAIN r : u < t /\ Between(u, t)
  BY DEF Chained
<1>2. r # NoFrames
  BY NoFramesIsList
<1>3. PICK k \in DOMAIN r : l[k].kind = "key" /\ DOMAIN r = {u \in DOMAIN l : u >= k}
  BY <1>2, UntilKeyFrameCuts
<1>4. t \in DOMAIN l /\ k \in DOMAIN l /\ l[t].kind = "delta" /\ k < t
  <2>1. t \in DOMAIN l /\ k \in DOMAIN l /\ r[t] = l[t] /\ k <= t
    BY <1>3, UntilKeyFrameCuts
  <2>2. t \in Nat /\ k \in Nat
    BY <2>1, ListFacts, StreamFacts
  <2> QED BY <1>1, <1>3, <2>1, <2>2
<1>5. CASE Between(x, t)
  BY <1>5
<1>6. CASE \E u \in DOMAIN l : u < t /\ Between(u, t)
  <2>1. PICK u \in DOMAIN l : u < t /\ Between(u, t)
    BY <1>6
  <2>2. PICK n \in Packets : stream[n].frame = k /\ stream[n].kind # "empty"
    <3>1. l[k] \in FramesAt(k) /\ l[k].complete
      BY <1>4, ListFacts
    <3> QED BY <3>1, FrameFacts DEF Parts
  <2>3. u >= k
    <3>1. u \in Nat /\ k \in Nat /\ t \in Nat
      BY <1>4, ListFacts, StreamFacts
    <3>2. ASSUME u < k PROVE FALSE
      <4>1. k \in u + 1 .. t - 1
        BY <1>4, <3>1, <3>2
      <4> QED BY <2>1, <2>2, <4>1 DEF Between
    <3> QED BY <3>1, <3>2
  <2> QED BY <1>3, <2>1, <2>3
<1> QED BY <1>1, <1>4, <1>5, <1>6 DEF Chained

(* Recycling gives up frames and numbers, and at least one frame; when none *)
(* is left there are no numbers either.                                     *)
LEMMA RecycledOnce ==
  ASSUME stream \in Streams, NEW b \in Buffers
  PROVE  LET c == RecycleFramesUntilKeyFrame(b) IN
         /\ c \in Buffers /\ Recycled(c, b)
         /\ Listed(b) = {} => c.missing = {}
         /\ Listed(b) # {} => \E t \in Listed(b) : t \notin Listed(c)
<1> DEFINE onInc == b.inc # NoFrames
           list == IF onInc THEN b.inc ELSE b.dec
           rest == UntilKeyFrame(list)
           low == EstimatedLowSequenceNumber(rest[Oldest(rest)])
           found == rest # NoFrames
           inc == IF onInc THEN rest ELSE b.inc
           dec == IF onInc THEN b.dec ELSE rest
           c == RecycleFramesUntilKeyFrame(b)
           e == [b EXCEPT !.inc = inc, !.dec = dec, !.found = found]
<1>1. list \in Lists /\ rest \in Lists /\ dec \in Lists /\ inc \in Lists /\ found \in BOOLEAN
  BY BufferFacts, UntilKeyFrameCuts
<1>2. e \in AnyBuffer /\ e.dec = dec /\ e.inc = inc /\ e.found = found
      /\ e.last = b.last /\ e.missing = b.missing /\ e.latest = b.latest /\ e.fresh = b.fresh
      /\ e.old = b.old /\ e.nack = b.nack
  <2> HIDE DEF inc, dec, found
  <2> QED BY <1>1, BufferFacts DEF AnyBuffer
<1>3. c = IF found THEN DropPackets([e EXCEPT !.last = Initial], low)
          ELSE IF dec = NoFrames THEN [e EXCEPT !.last = Initial, !.missing = {}] ELSE e
  <2>1. c = IF e.found THEN DropPackets([e EXCEPT !.last = Initial], low)
            ELSE IF e.dec = NoFrames THEN [e EXCEPT !.last = Initial, !.missing = {}] ELSE e
    BY DEF RecycleFramesUntilKeyFrame
  <2> QED BY <2>1, <1>2
<1>4. /\ c \in AnyBuffer /\ c.dec = dec /\ c.inc = inc /\ c.last \in {b.last, Initial}
      /\ c.missing \subseteq b.missing /\ c.latest = b.latest /\ c.fresh = b.fresh
      /\ c.old = b.old /\ c.nack = b.nack
      /\ ~found /\ dec = NoFrames => c.missing = {}
  <2> HIDE DEF e, dec, inc, found, low
  <2>1. Initial \in States
    BY DEF States
  <2>2. CASE found
    BY <1>2, <1>3, <2>1, <2>2, ZenonT(40) DEF DropPackets, AnyBuffer
  <2>3. CASE ~found /\ dec = NoFrames
    BY <1>2, <1>3, <2>1, <2>3 DEF DropPackets, AnyBuffer
  <2>4. CASE ~found /\ dec # NoFrames
    BY <1>2, <1>3, <2>1, <2>4 DEF DropPackets, AnyBuffer
  <2> QED BY <2>2, <2>3, <2>4
<1>5. /\ DOMAIN rest \subseteq DOMAIN list /\ \A t \in DOMAIN rest : rest[t] = list[t]
      /\ list # NoFrames => \E t \in DOMAIN list : t \notin DOMAIN rest
  BY <1>1, UntilKeyFrameCuts
<1>6. ASSUME NEW x \in Nat, Chained(b.dec, x) PROVE Chained(dec, x)
  BY <1>6, ChainKept, BufferFacts
<1> HIDE DEF c
<1>7. c \in Buffers
  BY <1>4, <1>5, BufferFacts DEF Buffers
<1>8. Recycled(c, b)
  BY <1>4, <1>5, <1>6 DEF Recycled, Kept
<1>9. ASSUME Listed(b) = {} PROVE c.missing = {}
  <2>1. b.inc = NoFrames /\ b.dec = NoFrames
    BY <1>9, BufferFacts, NoFramesIsList DEF Listed
  <2>2. rest = NoFrames
    BY <1>1, <1>5, <2>1, NoFramesIsList
  <2> QED BY <1>4, <2>1, <2>2
<1>10. ASSUME Listed(b) # {} PROVE \E t \in Listed(b) : t \notin Listed(c)
  <2>1. list # NoFrames
    BY <1>10, BufferFacts, NoFramesIsList DEF Listed
  <2>2. PICK t \in DOMAIN list : t \notin DOMAIN rest
    BY <1>5, <2>1
  <2>3. t \in Listed(b) /\ t \notin Listed(c)
    BY <1>4, <2>2, BufferFacts, NoFramesIsList DEF Listed
  <2> QED BY <2>3
<1> QED BY <1>7, <1>8, <1>9, <1>10 DEF c

(***************************************************************************)
(* The loops that recycle                                                   *)
(***************************************************************************)
Smaller(b) == {c \in Buffers : Recycled(c, b)}

LEMMA ListedIsFinite ==
  ASSUME stream \in Streams, NEW b \in Buffers
  PROVE  IsFiniteSet(Listed(b)) /\ Cardinality(Listed(b)) \in Nat /\ Rounds(b) \in Nat
<1>1. IsFiniteSet(Listed(b))
  BY BufferFacts, StreamFacts, FS_Subset
<1> QED BY <1>1, FS_CardinalityType DEF Rounds

LEMMA StepIsSmaller ==
  ASSUME stream \in Streams, NEW b \in Buffers, NEW c \in Smaller(b)
  PROVE  RecycleFramesUntilKeyFrame(c) \in Smaller(b)
BY RecycledOnce, RecycledTransitive DEF Smaller

LEMMA SettledIsSmaller ==
  ASSUME NEW b \in Buffers
  PROVE  Settled(b) \in Smaller(b)
<1>1. Settled(b) \in AnyBuffer /\ Settled(b).dec = b.dec /\ Settled(b).inc = b.inc
  BY BufferFacts DEF Settled, AnyBuffer
<1>2. Settled(b) \in Buffers
  BY <1>1 DEF Buffers
<1> QED BY <1>2, RecycledReflexive DEF Smaller

\* f is the rounds of recycling while the buffer is in set S.
RecyclesIn(f, b, S, m) ==
  f = [i \in 0 .. m |-> IF i = 0 THEN Settled(b)
                        ELSE IF f[i - 1] \in S THEN RecycleFramesUntilKeyFrame(f[i - 1])
                        ELSE f[i - 1]]

LEMMA LoopExists ==
  ASSUME stream \in Streams, NEW b \in Buffers, NEW S, NEW m \in Nat
  PROVE  \E f \in [0 .. m -> Smaller(b)] : RecyclesIn(f, b, S, m)
<1> DEFINE step == [c \in Smaller(b) |-> IF c \in S THEN RecycleFramesUntilKeyFrame(c) ELSE c]
<1>1. step \in [Smaller(b) -> Smaller(b)]
  BY StepIsSmaller
<1>2. PICK f \in [0 .. m -> Smaller(b)] : RoundsOf(f, Settled(b), step, m)
  <2> HIDE DEF step
  <2> QED BY <1>1, SettledIsSmaller, RoundsExist
<1>3. \A i \in 0 .. m : i # 0 =>
        step[f[i - 1]] = IF f[i - 1] \in S THEN RecycleFramesUntilKeyFrame(f[i - 1]) ELSE f[i - 1]
  <2> TAKE i \in 0 .. m
  <2>1. i # 0 => f[i - 1] \in Smaller(b)
    BY <1>2
  <2> QED BY <2>1
<1> HIDE DEF step
<1> QED BY <1>2, <1>3 DEF RoundsOf, RecyclesIn

(* With as many rounds as there are frames, and one, the buffer gets out of *)
(* a set in which there are numbers left.                                   *)
LEMMA LoopEnds ==
  ASSUME stream \in Streams, NEW b \in Buffers, NEW S, \A c \in S : c.missing # {},
         NEW g \in [0 .. Rounds(b) -> Smaller(b)], g[0] = Settled(b),
         \A i \in 1 .. Rounds(b) :
           g[i] = IF g[i - 1] \in S THEN RecycleFramesUntilKeyFrame(g[i - 1]) ELSE g[i - 1]
  PROVE  g[Rounds(b)] \notin S
<1> DEFINE C == Cardinality(Listed(b))
           m == Rounds(b)
           I == {i \in 0 .. m : g[i] \notin S \/ Cardinality(Listed(g[i])) <= C - i}
<1>1. C \in Nat /\ m = C + 1
  BY ListedIsFinite DEF Rounds
<1>2. 0 \in I
  <2>1. Listed(Settled(b)) = Listed(b)
    BY BufferFacts DEF Settled, Listed, AnyBuffer
  <2>2. Cardinality(Listed(g[0])) <= C - 0
    BY <1>1, <2>1
  <2> QED BY <1>1, <2>2
<1>3. ASSUME NEW i \in 0 .. m - 1, i \in I PROVE i + 1 \in I
  <2> DEFINE x == g[i]
             y == g[i + 1]
  <2>1. x \in Smaller(b) /\ x \in Buffers /\ y \in Buffers
    BY <1>1, SMTT(30) DEF Smaller
  <2>2. y = IF x \in S THEN RecycleFramesUntilKeyFrame(x) ELSE x
    <3>1. i + 1 \in 1 .. m /\ (i + 1) - 1 = i
      BY <1>1
    <3> QED BY <3>1
  <2>3. i + 1 \in 0 .. m
    BY <1>1
  <2>4. CASE x \notin S
    <3>1. y \notin S
      BY <2>2, <2>4
    <3> QED BY <2>3, <3>1
  <2>5. CASE x \in S /\ Listed(x) = {}
    <3>1. y.missing = {}
      BY <2>1, <2>2, <2>5, RecycledOnce
    <3>2. y \notin S
      BY <3>1
    <3> QED BY <2>3, <3>2
  <2>6. CASE x \in S /\ Listed(x) # {}
    <3>1. PICK t \in Listed(x) : t \notin Listed(y)
      BY <2>1, <2>2, <2>6, RecycledOnce
    <3>2. Listed(y) \subseteq Listed(x) \ {t}
      <4>1. Recycled(y, x)
        BY <2>1, <2>2, <2>6, RecycledOnce
      <4> QED BY <3>1, <4>1 DEF Recycled, Kept, Listed
    <3>3. /\ Cardinality(Listed(x)) \in Nat /\ Cardinality(Listed(y)) \in Nat
          /\ Cardinality(Listed(y)) <= Cardinality(Listed(x)) - 1
      <4>1. IsFiniteSet(Listed(x)) /\ Cardinality(Listed(x)) \in Nat /\ Cardinality(Listed(y)) \in Nat
        BY <2>1, ListedIsFinite
      <4>2. IsFiniteSet(Listed(x) \ {t}) /\ Cardinality(Listed(x) \ {t}) = Cardinality(Listed(x)) - 1
        BY <3>1, <4>1, FS_RemoveElement
      <4>3. Cardinality(Listed(y)) <= Cardinality(Listed(x) \ {t})
        BY <3>2, <4>2, FS_Subset
      <4> QED BY <4>1, <4>2, <4>3
    <3>4. Cardinality(Listed(x)) <= C - i
      BY <1>3, <2>6
    <3>5. Cardinality(Listed(y)) <= C - (i + 1)
      <4> HIDE DEF C, x, y
      <4> QED BY <1>1, <3>3, <3>4
    <3> QED BY <2>3, <3>5
  <2> QED BY <2>4, <2>5, <2>6
<1>4. m \in I
  <2> HIDE DEF I
  <2>1. m \in Nat
    BY <1>1
  <2>2. \A i \in 0 .. m : i \in I
    <3> HIDE DEF m
    <3> QED BY <1>2, <1>3, <2>1, UpTo
  <2> QED BY <2>1, <2>2
<1>5. SUFFICES ASSUME g[m] \in S PROVE FALSE
  OBVIOUS
<1>6. Cardinality(Listed(g[m])) <= C - m
  BY <1>4, <1>5
<1>7. Cardinality(Listed(g[m])) \in Nat
  <2>1. g[m] \in Buffers
    BY <1>1 DEF Smaller
  <2> QED BY <2>1, ListedIsFinite
<1> HIDE DEF C, m
<1> QED BY <1>1, <1>6, <1>7

LEMMA MissingIsFinite ==
  ASSUME stream \in Streams, NEW M \in SUBSET Packets
  PROVE  IsFiniteSet(M) /\ Cardinality(M) \in Nat
BY StreamFacts, FS_Subset, FS_CardinalityType

(* HandleTooLargeNackList gives a list that is not too large.               *)
LEMMA TooLargeHandled ==
  ASSUME stream \in Streams, NEW b \in Buffers
  PROVE  LET c == HandleTooLargeNackList(b) IN
         c \in Buffers /\ Recycled(c, b) /\ ~TooLargeNackList(c)
<1> DEFINE m == Rounds(b)
           S == {c \in Buffers : TooLargeNackList(c)}
           Loop(f) == f = [i \in 0 .. m |-> IF i = 0 THEN Settled(b)
                             ELSE IF TooLargeNackList(f[i - 1]) THEN RecycleFramesUntilKeyFrame(f[i - 1])
                             ELSE f[i - 1]]
           g == CHOOSE f : Loop(f)
<1>1. m \in Nat
  BY ListedIsFinite
<1>2. HandleTooLargeNackList(b) = g[m]
  BY DEF HandleTooLargeNackList
<1>3. Loop(g)
  <2>1. PICK f \in [0 .. m -> Smaller(b)] : RecyclesIn(f, b, S, m)
    <3> HIDE DEF m, S
    <3> QED BY <1>1, LoopExists
  <2>2. \A i \in 0 .. m : i # 0 => (f[i - 1] \in S <=> TooLargeNackList(f[i - 1]))
    BY <1>1 DEF Smaller
  <2>3. Loop(f)
    <3> HIDE DEF m, S
    <3> QED BY <2>1, <2>2 DEF RecyclesIn
  <2> HIDE DEF Loop
  <2> QED BY <2>3
<1> HIDE DEF g
<1>4. /\ g[0] = Settled(b) /\ g = [i \in 0 .. m |-> g[i]]
      /\ \A i \in 1 .. m : g[i] = IF TooLargeNackList(g[i - 1]) THEN RecycleFramesUntilKeyFrame(g[i - 1])
                                  ELSE g[i - 1]
  BY <1>1, <1>3
<1>5. g \in [0 .. m -> Smaller(b)]
  <2> DEFINE I == {i \in 0 .. m : g[i] \in Smaller(b)}
  <2>1. 0 \in I
    BY <1>1, <1>4, SettledIsSmaller
  <2>2. ASSUME NEW i \in 0 .. m - 1, i \in I PROVE i + 1 \in I
    <3>1. i + 1 \in 1 .. m /\ (i + 1) - 1 = i
      BY <1>1
    <3>2. g[i] \in Smaller(b)
      BY <2>2
    <3>3. g[i + 1] = IF TooLargeNackList(g[i]) THEN RecycleFramesUntilKeyFrame(g[i]) ELSE g[i]
      BY <1>4, <3>1
    <3> QED BY <1>1, <3>1, <3>2, <3>3, StepIsSmaller
  <2>3. \A i \in 0 .. m : i \in I
    <3> HIDE DEF I, m
    <3> QED BY <1>1, <2>1, <2>2, UpTo
  <2> QED BY <1>4, <2>3
<1>6. \A c \in S : c.missing # {}
  <2>1. ASSUME NEW c \in Buffers, c.missing = {} PROVE ~TooLargeNackList(c)
    BY <2>1, FS_EmptySet, JitterBufferAssumption DEF TooLargeNackList
  <2> QED BY <2>1
<1>7. \A i \in 1 .. m : g[i] = IF g[i - 1] \in S THEN RecycleFramesUntilKeyFrame(g[i - 1]) ELSE g[i - 1]
  <2> TAKE i \in 1 .. m
  <2>1. g[i - 1] \in Buffers
    BY <1>1, <1>5 DEF Smaller
  <2> QED BY <1>4, <2>1
<1>8. g[m] \notin S
  <2> HIDE DEF S
  <2> QED BY <1>4, <1>5, <1>6, <1>7, LoopEnds
<1>9. g[m] \in Smaller(b)
  BY <1>1, <1>5
<1> QED BY <1>2, <1>8, <1>9 DEF Smaller

(* HandleTooOldPackets gives up frames and numbers.                         *)
LEMMA TooOldHandled ==
  ASSUME stream \in Streams, NEW b \in Buffers, NEW n
  PROVE  LET c == HandleTooOldPackets(b, n) IN c \in Buffers /\ Recycled(c, b)
<1> DEFINE m == Rounds(b)
           S == {c \in Buffers : MissingTooOldPacket(c, n)}
           Loop(f) == f = [i \in 0 .. m |-> IF i = 0 THEN Settled(b)
                             ELSE IF MissingTooOldPacket(f[i - 1], n) THEN RecycleFramesUntilKeyFrame(f[i - 1])
                             ELSE f[i - 1]]
           g == CHOOSE f : Loop(f)
<1>1. m \in Nat
  BY ListedIsFinite
<1>2. HandleTooOldPackets(b, n) = g[m]
  BY DEF HandleTooOldPackets
<1>3. Loop(g)
  <2>1. PICK f \in [0 .. m -> Smaller(b)] : RecyclesIn(f, b, S, m)
    <3> HIDE DEF m, S
    <3> QED BY <1>1, LoopExists
  <2>2. \A i \in 0 .. m : i # 0 => (f[i - 1] \in S <=> MissingTooOldPacket(f[i - 1], n))
    BY <1>1 DEF Smaller
  <2>3. Loop(f)
    <3> HIDE DEF m, S
    <3> QED BY <2>1, <2>2 DEF RecyclesIn
  <2> HIDE DEF Loop
  <2> QED BY <2>3
<1> HIDE DEF g
<1>4. /\ g[0] = Settled(b)
      /\ \A i \in 1 .. m : g[i] = IF MissingTooOldPacket(g[i - 1], n)
                                  THEN RecycleFramesUntilKeyFrame(g[i - 1]) ELSE g[i - 1]
  BY <1>1, <1>3
<1> DEFINE I == {i \in 0 .. m : g[i] \in Smaller(b)}
<1>5. 0 \in I
  BY <1>1, <1>4, SettledIsSmaller
<1>6. ASSUME NEW i \in 0 .. m - 1, i \in I PROVE i + 1 \in I
  <2>1. i + 1 \in 1 .. m /\ (i + 1) - 1 = i
    BY <1>1
  <2>2. g[i] \in Smaller(b)
    BY <1>6
  <2> QED BY <1>1, <1>4, <2>1, <2>2, StepIsSmaller
<1>7. \A i \in 0 .. m : i \in I
  <2> HIDE DEF I, m
  <2> QED BY <1>1, <1>5, <1>6, UpTo
<1> QED BY <1>1, <1>2, <1>7 DEF Smaller

(***************************************************************************)
(* The list of missing numbers                                              *)
(***************************************************************************)
LEMMA MaxOfPackets ==
  ASSUME stream \in Streams, NEW S \in SUBSET (Packets \cup {0}), S # {}
  PROVE  Max(S) \in S /\ \A y \in S : y <= Max(S)
<1>1. Len(stream) \in Nat /\ S \in SUBSET (0 .. Len(stream))
  BY StreamFacts
<1> QED BY <1>1, MaxOf

LEMMA StateFacts ==
  ASSUME stream \in Streams, NEW s \in States
  PROVE  /\ s.initial \in BOOLEAN /\ s.seq \in Nat /\ s.ts \in Nat /\ s.ts \in Timestamps \cup {0}
         /\ ~s.initial => s.seq \in Packets /\ s.ts = stream[s.seq].frame
         /\ s.initial => s = Initial
<1>1. CASE s = Initial
  BY <1>1 DEF Initial
<1>2. CASE s \in {[initial |-> FALSE, seq |-> n, ts |-> stream[n].frame] : n \in Packets}
  <2>1. PICK n \in Packets : s = [initial |-> FALSE, seq |-> n, ts |-> stream[n].frame]
    BY <1>2
  <2>2. s.initial = FALSE /\ s.seq = n /\ s.ts = stream[n].frame
    BY <2>1
  <2>3. n \in Nat /\ stream[n].frame \in Nat /\ stream[n].frame \in Timestamps
    BY StreamFacts DEF Timestamps
  <2> QED BY <2>2, <2>3
<1> QED BY <1>1, <1>2 DEF States

(* UpdateNackList: what it adds came after all that was received.           *)
LEMMA NackListUpdated ==
  ASSUME stream \in Streams, NEW b \in Buffers, NEW n \in Packets,
         b.missing \subseteq 1 .. b.latest, Cardinality(b.missing) <= MaxNackListSize
  PROVE  LET c == UpdateNackList(b, n) IN
         /\ c \in Buffers /\ Kept(c, b) /\ c.latest = b.latest /\ c.fresh = b.fresh
         /\ \A k \in c.missing : k \in b.missing \/ k \in b.latest + 1 .. n - 1
         /\ n \notin c.missing /\ Cardinality(c.missing) <= MaxNackListSize
<1> DEFINE latest == IF b.last.initial \/ b.latest > b.last.seq THEN b.latest ELSE b.last.seq
           longer == [b EXCEPT !.missing = @ \cup latest + 1 .. n - 1]
           small == HandleTooLargeNackList(longer)
           c == UpdateNackList(b, n)
<1>1. n \in Nat /\ b.latest \in Nat /\ latest \in Nat /\ latest >= b.latest
  BY BufferFacts, StateFacts, StreamFacts
<1>2. c = IF n <= latest THEN [Arrived(b, n) EXCEPT !.found = TRUE]
          ELSE IF ~small.found THEN small ELSE HandleTooOldPackets(small, n)
  BY DEF UpdateNackList
<1>3. ASSUME NEW M \in SUBSET Packets, NEW L \in SUBSET M
      PROVE  Cardinality(L) <= Cardinality(M) /\ Cardinality(L) \in Nat /\ Cardinality(M) \in Nat
  BY MissingIsFinite, FS_Subset
<1>4. CASE n <= latest
  <2>1. /\ c \in AnyBuffer /\ c.missing = b.missing \ {n} /\ c.dec = b.dec /\ c.inc = b.inc
        /\ c.last = b.last /\ c.latest = b.latest /\ c.fresh = b.fresh /\ c.old = b.old
        /\ c.nack = b.nack
    BY <1>2, <1>4, BufferFacts, ZenonT(40) DEF Arrived, AnyBuffer
  <2> HIDE DEF c
  <2>2. c \in Buffers
    BY <2>1, BufferFacts DEF Buffers
  <2>3. Kept(c, b)
    BY <2>1 DEF Kept
  <2>4. Cardinality(c.missing) <= MaxNackListSize
    BY <1>3, <2>1, BufferFacts, JitterBufferAssumption
  <2> QED BY <2>1, <2>2, <2>3, <2>4 DEF c
<1>5. CASE n > latest
  <2>1. latest + 1 .. n - 1 \in SUBSET Packets
    BY <1>1, StreamFacts
  <2>2. /\ longer \in AnyBuffer /\ longer.missing = b.missing \cup latest + 1 .. n - 1
        /\ longer.dec = b.dec /\ longer.inc = b.inc
        /\ longer.last = b.last /\ longer.latest = b.latest /\ longer.fresh = b.fresh
        /\ longer.old = b.old /\ longer.nack = b.nack
    <3> HIDE DEF latest
    <3> QED BY <2>1, BufferFacts DEF AnyBuffer
  <2>3. longer \in Buffers
    <3> HIDE DEF longer
    <3> QED BY <2>2, BufferFacts DEF Buffers
  <2>4. Kept(longer, b)
    <3> HIDE DEF longer
    <3> QED BY <2>2 DEF Kept
  <2>5. small \in Buffers /\ Recycled(small, longer) /\ ~TooLargeNackList(small)
    <3> HIDE DEF longer
    <3> QED BY <2>3, TooLargeHandled
  <2>6. c \in Buffers /\ Recycled(c, small)
    <3> HIDE DEF small
    <3>1. CASE ~small.found
      BY <1>1, <1>2, <1>5, <2>5, <3>1, RecycledReflexive
    <3>2. CASE small.found
      BY <1>1, <1>2, <1>5, <2>5, <3>2, TooOldHandled
    <3> QED BY <3>1, <3>2
  <2>7. Recycled(c, longer) /\ c.missing \subseteq small.missing
    BY <2>5, <2>6, RecycledTransitive DEF Recycled
  <2>8. Kept(c, b) /\ c.latest = b.latest /\ c.fresh = b.fresh /\ c.missing \subseteq longer.missing
    <3> HIDE DEF c, longer
    <3> QED BY <2>2, <2>4, <2>7 DEF Recycled, Kept
  <2>9. Cardinality(c.missing) <= MaxNackListSize
    <3>1. Cardinality(small.missing) <= MaxNackListSize
      <4>1. Cardinality(small.missing) \in Nat
        BY <2>5, BufferFacts, MissingIsFinite
      <4> QED BY <2>5, <4>1, JitterBufferAssumption DEF TooLargeNackList
    <3>2. small.missing \in SUBSET Packets
      BY <2>5, BufferFacts
    <3> HIDE DEF c, small
    <3> QED BY <1>3, <2>7, <3>1, <3>2, JitterBufferAssumption
  <2>10. \A k \in c.missing : k \in b.missing \/ k \in b.latest + 1 .. n - 1
    <3> HIDE DEF c, longer
    <3>1. \A k \in c.missing : k \in b.missing \/ k \in latest + 1 .. n - 1
      BY <2>2, <2>8
    <3> HIDE DEF latest
    <3> QED BY <1>1, <3>1
  <2>11. n \notin c.missing
    <3> HIDE DEF c, longer
    <3>1. n \notin b.missing
      <4> HIDE DEF latest
      <4> QED BY <1>1, <1>5
    <3> QED BY <1>1, <2>10, <3>1
  <2> QED BY <2>6, <2>8, <2>9, <2>10, <2>11
<1> HIDE DEF latest
<1> QED BY <1>1, <1>4, <1>5

\* The numbers of the packets in the lists.
Numbers(b) == UNION {Parts(FrameOf(b, t)) : t \in Listed(b)}

\* What was received is known, and not asked for.
Accounted(b) ==
  /\ b.missing \subseteq 1 .. b.latest /\ Cardinality(b.missing) <= MaxNackListSize
  /\ \A k \in Numbers(b) : k <= b.latest /\ k \notin b.missing
  /\ b.fresh => Listed(b) = {} /\ b.missing = {}
  /\ ~b.nack => b.missing = {}

LEMMA KeptNumbers ==
  ASSUME NEW b \in Buffers, NEW c, Kept(c, b)
  PROVE  Numbers(c) \subseteq Numbers(b) /\ Listed(c) \subseteq Listed(b)
<1>1. \A t \in Listed(c) : t \in Listed(b) /\ FrameOf(c, t) = FrameOf(b, t)
  BY BufferFacts DEF Kept, Listed, FrameOf
<1> QED BY <1>1 DEF Numbers

(* Packet n, which may be in a list already, is accounted for.              *)
LEMMA ReceivedIsAccounted ==
  ASSUME stream \in Streams, NEW b \in Buffers, NEW n \in Packets,
         b.missing \subseteq 1 .. b.latest, Cardinality(b.missing) <= MaxNackListSize,
         \A k \in Numbers(b) : k = n \/ (k <= b.latest /\ k \notin b.missing),
         b.fresh => Numbers(b) \subseteq {n} /\ b.missing = {},
         ~b.nack => b.missing = {}
  PROVE  LET c == Received(b, n) IN
         /\ c \in Buffers /\ Kept(c, b) /\ Accounted(c) /\ ~c.fresh
         /\ n <= c.latest /\ n \notin c.missing
<1> DEFINE c == Received(b, n)
           seen == IF b.nack /\ ~b.last.initial THEN {b.latest, b.last.seq, n} ELSE {b.latest, n}
<1>1. n \in Nat /\ b.latest \in Nat /\ n \in Packets /\ n >= 1
  BY BufferFacts, StreamFacts
<1>2. Max(seen) \in Packets \cup {0} /\ b.latest <= Max(seen) /\ n <= Max(seen)
  <2>1. seen \in SUBSET (Packets \cup {0}) /\ seen # {} /\ {b.latest, n} \subseteq seen
    BY BufferFacts, StateFacts
  <2> HIDE DEF seen
  <2> QED BY <2>1, MaxOfPackets
<1>3. SUFFICES /\ c \in Buffers /\ Kept(c, b) /\ ~c.fresh /\ n <= c.latest /\ n \notin c.missing
               /\ b.latest <= c.latest \/ b.fresh
               /\ \A k \in c.missing : k \in b.missing \/ (~b.fresh /\ k \in b.latest + 1 .. n - 1)
               /\ Cardinality(c.missing) <= MaxNackListSize
               /\ ~c.nack => c.missing = {}
  <2> HIDE DEF c
  <2>1. c.latest \in Nat
    BY <1>3, BufferFacts, StreamFacts
  <2>2. \A k \in Numbers(c) : k \in Nat /\ k \in Numbers(b)
    <3>1. Numbers(b) \subseteq Packets
      <4>1. \A t \in Listed(b) : FrameOf(b, t) \in FramesAt(t)
        BY BufferFacts, ListFacts DEF Listed, FrameOf
      <4> QED BY <4>1, FrameFacts DEF Numbers
    <3> QED BY <1>3, <3>1, KeptNumbers, StreamFacts
  <2>3. \A k \in Numbers(c) : k <= c.latest /\ k \notin c.missing
    <3> TAKE k \in Numbers(c)
    <3>1. k \in Nat /\ (k = n \/ (k <= b.latest /\ k \notin b.missing)) /\ (b.fresh => k = n)
      BY <2>2
    <3> QED BY <1>1, <1>3, <2>1, <3>1
  <2>4. c.missing \subseteq 1 .. c.latest
    <3> SUFFICES ASSUME NEW k \in c.missing PROVE k \in 1 .. c.latest
      OBVIOUS
    <3>1. k \in b.missing => k \in 1 .. b.latest /\ ~b.fresh
      OBVIOUS
    <3> QED BY <1>1, <1>3, <2>1, <3>1
  <2> QED BY <1>3, <2>3, <2>4 DEF Accounted, c
<1>4. CASE b.fresh
  <2>1. c = [b EXCEPT !.latest = n, !.fresh = FALSE, !.found = TRUE]
    BY <1>4 DEF Received
  <2>2. /\ c \in AnyBuffer /\ c.dec = b.dec /\ c.inc = b.inc /\ c.last = b.last /\ c.missing = b.missing
        /\ c.latest = n /\ c.fresh = FALSE /\ c.old = b.old /\ c.nack = b.nack
    <3> DEFINE e == [b EXCEPT !.latest = n]
    <3>1. /\ e \in AnyBuffer /\ e.dec = b.dec /\ e.inc = b.inc /\ e.last = b.last
          /\ e.missing = b.missing /\ e.latest = n /\ e.old = b.old /\ e.nack = b.nack
      BY <1>1, BufferFacts DEF AnyBuffer
    <3>2. c = [e EXCEPT !.fresh = FALSE, !.found = TRUE]
      BY <2>1
    <3> HIDE DEF c, e
    <3> QED BY <3>1, <3>2 DEF AnyBuffer
  <2> HIDE DEF c
  <2> QED BY <1>1, <1>4, <2>2, BufferFacts DEF Buffers, Kept
<1>5. CASE ~b.fresh
  <2> DEFINE u == IF b.nack THEN UpdateNackList(b, n) ELSE [b EXCEPT !.found = TRUE]
  <2>1. c = [u EXCEPT !.latest = Max(seen)]
    BY <1>5 DEF Received
  <2>2. /\ u \in Buffers /\ Kept(u, b) /\ u.fresh = b.fresh
        /\ \A k \in u.missing : k \in b.missing \/ k \in b.latest + 1 .. n - 1
        /\ n \notin u.missing /\ Cardinality(u.missing) <= MaxNackListSize
        /\ ~u.nack => u.missing = {}
    <3>1. CASE b.nack
      <4>1. u = UpdateNackList(b, n)
        BY <3>1
      <4> HIDE DEF u
      <4> QED BY <3>1, <4>1, NackListUpdated DEF Kept
    <3>2. CASE ~b.nack
      <4>1. /\ u \in AnyBuffer /\ u.dec = b.dec /\ u.inc = b.inc /\ u.last = b.last
            /\ u.missing = b.missing /\ u.fresh = b.fresh /\ u.old = b.old /\ u.nack = b.nack
        BY <3>2, BufferFacts DEF AnyBuffer
      <4> HIDE DEF u
      <4> QED BY <3>2, <4>1, BufferFacts DEF Buffers, Kept
    <3> QED BY <3>1, <3>2
  <2> HIDE DEF u
  <2>3. /\ c \in AnyBuffer /\ c.dec = u.dec /\ c.inc = u.inc /\ c.last = u.last /\ c.missing = u.missing
        /\ c.latest = Max(seen) /\ c.fresh = u.fresh /\ c.old = u.old /\ c.nack = u.nack
    <3> HIDE DEF c, seen
    <3> QED BY <1>2, <2>1, <2>2, BufferFacts DEF AnyBuffer
  <2> HIDE DEF c, seen
  <2>4. c \in Buffers /\ Kept(c, b)
    BY <2>2, <2>3, BufferFacts DEF Buffers, Kept
  <2>5. \A k \in c.missing : k \in b.missing \/ (~b.fresh /\ k \in b.latest + 1 .. n - 1)
    <3> TAKE k \in c.missing
    <3>1. k \in u.missing
      BY <2>3
    <3> QED BY <1>5, <2>2, <3>1
  <2>6. ~c.fresh /\ n <= c.latest /\ n \notin c.missing /\ b.latest <= c.latest
        /\ Cardinality(c.missing) <= MaxNackListSize /\ (~c.nack => c.missing = {})
    BY <1>2, <1>5, <2>2, <2>3
  <2> QED BY <2>4, <2>5, <2>6
<1> QED BY <1>4, <1>5

(***************************************************************************)
(* A packet of a frame that was not decoded                                 *)
(***************************************************************************)
LEMMA FrameOfFacts ==
  ASSUME NEW b \in Buffers, NEW t \in Listed(b)
  PROVE  FrameOf(b, t) \in FramesAt(t) /\ (t \in DOMAIN b.dec => FrameOf(b, t) = b.dec[t])
BY BufferFacts, ListFacts DEF Listed, FrameOf

LEMMA NumbersFacts ==
  ASSUME stream \in Streams, NEW b \in Buffers
  PROVE  Numbers(b) \subseteq Packets
BY FrameOfFacts, FrameFacts DEF Numbers

(* With fewer frames and numbers the numbers are still accounted for.       *)
LEMMA LessIsAccounted ==
  ASSUME stream \in Streams, NEW b \in Buffers, Accounted(b), NEW c \in Buffers,
         Numbers(c) \subseteq Numbers(b), Listed(c) \subseteq Listed(b), c.missing \subseteq b.missing,
         c.latest = b.latest, c.fresh = b.fresh, c.nack = b.nack
  PROVE  Accounted(c)
<1>1. Cardinality(c.missing) <= MaxNackListSize
  <2>1. IsFiniteSet(b.missing) /\ Cardinality(b.missing) \in Nat
    BY BufferFacts, MissingIsFinite
  <2>2. Cardinality(c.missing) \in Nat /\ Cardinality(c.missing) <= Cardinality(b.missing)
    BY <2>1, BufferFacts, MissingIsFinite, FS_Subset
  <2> QED BY <2>1, <2>2, JitterBufferAssumption DEF Accounted
<1> QED BY <1>1 DEF Accounted

LEMMA RecycledIsAccounted ==
  ASSUME stream \in Streams, NEW b \in Buffers, Accounted(b), NEW c \in Buffers, Recycled(c, b)
  PROVE  Accounted(c)
<1>1. Numbers(c) \subseteq Numbers(b) /\ Listed(c) \subseteq Listed(b)
  BY KeptNumbers DEF Recycled
<1> QED BY <1>1, LessIsAccounted DEF Recycled, Kept

(* A frame of a list is replaced by another one of its time.                *)
LEMMA FramePut ==
  ASSUME NEW b \in Buffers, NEW t \in Listed(b), t \in Timestamps, NEW f \in FramesAt(t),
         FrameOf(b, t).complete => f.complete, FrameOf(b, t).kind = "delta" \/ f.kind = "key"
  PROVE  LET c == PutFrame(b, t, f) IN
         /\ c \in Buffers /\ Listed(c) = Listed(b) /\ FrameOf(c, t) = f
         /\ DOMAIN c.dec = DOMAIN b.dec /\ DOMAIN c.inc = DOMAIN b.inc
         /\ \A u \in Listed(b) \ {t} : FrameOf(c, u) = FrameOf(b, u)
         /\ \A x : Chained(b.dec, x) => Chained(c.dec, x)
         /\ c.last = b.last /\ c.missing = b.missing /\ c.latest = b.latest
         /\ c.fresh = b.fresh /\ c.old = b.old /\ c.nack = b.nack
<1> DEFINE c == PutFrame(b, t, f)
<1>1. CASE t \in DOMAIN b.inc
  <2> DEFINE l == With(b.inc, t, f)
  <2>1. l \in Lists /\ DOMAIN l = DOMAIN b.inc /\ l[t] = f /\ \A u \in DOMAIN b.inc \ {t} : l[u] = b.inc[u]
    <3>1. b.inc \in Lists /\ DOMAIN b.inc \cup {t} = DOMAIN b.inc
      BY <1>1, BufferFacts
    <3> HIDE DEF l
    <3>2. l \in Lists /\ DOMAIN l = DOMAIN b.inc \cup {t}
      BY <3>1, ListWith DEF l
    <3>3. l[t] = f
      BY DEF l, With
    <3>4. \A u \in DOMAIN b.inc \ {t} : l[u] = b.inc[u]
      BY DEF l, With
    <3> QED BY <3>1, <3>2, <3>3, <3>4 DEF l
  <2>2. c = [b EXCEPT !.inc = l]
    <3>1. c = [b EXCEPT !.inc = [@ EXCEPT ![t] = f]]
      BY <1>1 DEF PutFrame
    <3>2. [b.inc EXCEPT ![t] = f] = l
      <4>1. b.inc \in Lists
        BY BufferFacts
      <4> QED BY <1>1, <4>1, ListChanged
    <3> QED BY <3>1, <3>2
  <2> HIDE DEF l
  <2>3. /\ c \in AnyBuffer /\ c.dec = b.dec /\ c.inc = l /\ c.last = b.last /\ c.missing = b.missing
        /\ c.latest = b.latest /\ c.fresh = b.fresh /\ c.old = b.old /\ c.nack = b.nack
    <3> HIDE DEF c
    <3> QED BY <2>1, <2>2, BufferFacts DEF AnyBuffer
  <2> HIDE DEF c
  <2>4. c \in Buffers
    BY <2>1, <2>3, BufferFacts DEF Buffers
  <2>5. Listed(c) = Listed(b) /\ FrameOf(c, t) = f /\ \A u \in Listed(b) \ {t} : FrameOf(c, u) = FrameOf(b, u)
    BY <1>1, <2>1, <2>3 DEF Listed, FrameOf
  <2> QED BY <2>1, <2>3, <2>4, <2>5 DEF c
<1>2. CASE t \notin DOMAIN b.inc
  <2> DEFINE l == With(b.dec, t, f)
  <2>0. t \in DOMAIN b.dec /\ FrameOf(b, t) = b.dec[t]
    BY <1>2 DEF Listed, FrameOf
  <2>1. l \in Lists /\ DOMAIN l = DOMAIN b.dec /\ l[t] = f /\ \A u \in DOMAIN b.dec \ {t} : l[u] = b.dec[u]
    <3>1. b.dec \in Lists /\ DOMAIN b.dec \cup {t} = DOMAIN b.dec
      BY <2>0, BufferFacts
    <3> HIDE DEF l
    <3>2. l \in Lists /\ DOMAIN l = DOMAIN b.dec \cup {t}
      BY <3>1, ListWith DEF l
    <3>3. l[t] = f
      BY DEF l, With
    <3>4. \A u \in DOMAIN b.dec \ {t} : l[u] = b.dec[u]
      BY DEF l, With
    <3> QED BY <3>1, <3>2, <3>3, <3>4 DEF l
  <2>2. c = [b EXCEPT !.dec = l]
    <3>1. c = [b EXCEPT !.dec = [@ EXCEPT ![t] = f]]
      BY <1>2 DEF PutFrame
    <3>2. [b.dec EXCEPT ![t] = f] = l
      <4>1. b.dec \in Lists
        BY BufferFacts
      <4> QED BY <2>0, <4>1, ListChanged
    <3> QED BY <3>1, <3>2
  <2> HIDE DEF l
  <2>3. /\ c \in AnyBuffer /\ c.dec = l /\ c.inc = b.inc /\ c.last = b.last /\ c.missing = b.missing
        /\ c.latest = b.latest /\ c.fresh = b.fresh /\ c.old = b.old /\ c.nack = b.nack
    <3> HIDE DEF c
    <3> QED BY <2>1, <2>2, BufferFacts DEF AnyBuffer
  <2> HIDE DEF c
  <2>4. c \in Buffers
    BY <2>0, <2>1, <2>3, BufferFacts DEF Buffers
  <2>5. Listed(c) = Listed(b) /\ FrameOf(c, t) = f /\ \A u \in Listed(b) \ {t} : FrameOf(c, u) = FrameOf(b, u)
    BY <1>2, <2>1, <2>3 DEF Listed, FrameOf
  <2>6. ASSUME NEW x, Chained(b.dec, x) PROVE Chained(c.dec, x)
    <3>1. \A u \in DOMAIN b.dec : l[u].kind = "delta" => b.dec[u].kind = "delta"
      BY <2>0, <2>1
    <3> QED BY <2>1, <2>3, <2>6, <3>1 DEF Chained
  <2> QED BY <2>1, <2>3, <2>4, <2>5, <2>6 DEF c
<1> QED BY <1>1, <1>2

(* GetFrame recycles frames when there is no room.                          *)
LEMMA FrameGot ==
  ASSUME stream \in Streams, NEW b \in Buffers, Accounted(b), NEW t
  PROVE  LET c == GetFrame([b EXCEPT !.old = 0], t) IN
         /\ c \in Buffers /\ Accounted(c) /\ Listed(c) \subseteq Listed(b)
         /\ \A x \in Nat : Chained(b.dec, x) => Chained(c.dec, x)
         /\ c.last \in {b.last, Initial} /\ c.fresh = b.fresh
<1> DEFINE e == [b EXCEPT !.old = 0]
           c == GetFrame(e, t)
<1>1. /\ e \in AnyBuffer /\ e.dec = b.dec /\ e.inc = b.inc /\ e.last = b.last /\ e.missing = b.missing
      /\ e.latest = b.latest /\ e.fresh = b.fresh /\ e.nack = b.nack
  BY BufferFacts, JitterBufferAssumption DEF AnyBuffer
<1> HIDE DEF e
<1>2. e \in Buffers
  BY <1>1, BufferFacts DEF Buffers
<1>3. Accounted(e) /\ Listed(e) = Listed(b)
  BY <1>1 DEF Accounted, Listed, Numbers, FrameOf
<1>4. c \in Buffers /\ Recycled(c, e)
  BY <1>2, RecycledOnce, RecycledReflexive DEF GetFrame
<1>5. Accounted(c)
  BY <1>2, <1>3, <1>4, RecycledIsAccounted
<1>6. Listed(c) \subseteq Listed(e)
  BY <1>2, <1>4, KeptNumbers DEF Recycled
<1> HIDE DEF c
<1>7. (\A x \in Nat : Chained(b.dec, x) => Chained(c.dec, x)) /\ c.last \in {b.last, Initial} /\ c.fresh = b.fresh
  BY <1>1, <1>4 DEF Recycled, Kept
<1> QED BY <1>3, <1>4, <1>5, <1>6, <1>7 DEF c, e

(* A packet takes nothing from a frame: it stays complete, and a key frame. *)
LEMMA InsertedKeeps ==
  ASSUME stream \in Streams, NEW n \in Packets, NEW f \in FramesAt(stream[n].frame)
  PROVE  LET g == InsertIntoFrame(f, n) IN
         (f.complete => g.complete) /\ (f.kind = "delta" \/ g.kind = "key")
<1> DEFINE g == InsertIntoFrame(f, n)
<1>1. f \in AnyFrame /\ (f.media = {} => f.kind = "delta") /\ \A k \in f.media : stream[k].kind = f.kind
  BY DEF FramesAt
<1>2. f.media \subseteq g.media /\ (f.complete => g.complete)
  <2>1. CASE stream[n].kind = "empty"
    <3> DEFINE C == SessionComplete(f)
    <3>1. g = [f EXCEPT !.pads = @ \cup {n}, !.complete = @ \/ C]
      BY <2>1 DEF InsertIntoFrame
    <3> HIDE DEF g, C
    <3> QED BY <1>1, <3>1 DEF AnyFrame
  <2>2. CASE stream[n].kind # "empty" /\ n \in f.media
    BY <2>2 DEF InsertIntoFrame
  <2>3. CASE stream[n].kind # "empty" /\ n \notin f.media
    <3> DEFINE h == [f EXCEPT !.media = @ \cup {n}, !.kind = stream[n].kind]
               C == SessionComplete(h)
    <3>1. g = [h EXCEPT !.complete = @ \/ C]
      BY <2>3 DEF InsertIntoFrame
    <3>2. DOMAIN h = {"media", "pads", "kind", "complete"} /\ f.media \subseteq h.media /\ h.complete = f.complete
      <4> HIDE DEF C
      <4> QED BY <1>1 DEF AnyFrame
    <3> HIDE DEF g, h, C
    <3> QED BY <3>1, <3>2
  <2> QED BY <2>1, <2>2, <2>3
<1>3. g \in FramesAt(stream[n].frame)
  BY InsertedFrame
<1> HIDE DEF g
<1>4. f.kind = "delta" \/ g.kind = "key"
  <2>1. SUFFICES ASSUME f.kind # "delta" PROVE g.kind = "key"
    OBVIOUS
  <2>2. f.kind = "key" /\ f.media # {}
    BY <1>1, <2>1 DEF AnyFrame
  <2>3. PICK k \in f.media : stream[k].kind = "key"
    BY <1>1, <2>2
  <2> QED BY <1>2, <1>3, <2>3 DEF FramesAt
<1> QED BY <1>2, <1>4 DEF g

(* What the buffer is once a packet is put into its frame and accounted for.*)
LEMMA ArrivalFacts ==
  ASSUME stream \in Streams, jb \in Buffers, Accounted(jb), NEW n \in Packets, NEW a, a = Arrival(n)
  PROVE  /\ a.ts = stream[n].frame /\ a.ts \in Timestamps
         /\ a.b \in Buffers /\ Accounted(a.b) /\ Listed(a.b) \subseteq Listed(jb)
         /\ n <= a.b.latest /\ n \notin a.b.missing /\ ~a.b.fresh /\ a.b.last \in {jb.last, Initial}
         /\ \A x \in Nat : Chained(jb.dec, x) => Chained(a.b.dec, x)
         /\ a.new => a.ts \notin Listed(a.b) /\ a.frame \in FramesAt(a.ts) /\ Parts(a.frame) = {n}
         /\ a.new /\ ~a.starved => \E found \in Buffers : Listed(a.b) \subseteq Listed(found) /\ Room(found)
         /\ ~a.new => \/ a.frame = EmptyFrame
                      \/ /\ a.ts \in Listed(a.b) /\ a.frame \in FramesAt(a.ts)
                         /\ Parts(a.frame) \subseteq Numbers(a.b)
         /\ a.ts \in DOMAIN a.b.dec => a.before.complete
         /\ a.new \in BOOLEAN
<1> DEFINE t == stream[n].frame
           found == GetFrame([jb EXCEPT !.old = 0], t)
           new == t \notin Listed(found)
           before == IF new THEN EmptyFrame ELSE FrameOf(found, t)
           frame == InsertIntoFrame(before, n)
           put == IF new THEN found ELSE PutFrame(found, t, frame)
           b == Received(put, n)
<1>1. /\ a.ts = t /\ a.b = b /\ a.new = new /\ a.before = before /\ a.starved = (new /\ ~Room(found))
      /\ a.frame = IF new \/ t \in Listed(b) THEN frame ELSE EmptyFrame
  <2>1. a = [b |-> b, ts |-> t, new |-> new, before |-> before,
             starved |-> new /\ ~Room(found),
             duplicate |-> n \in before.media,
             whole |-> SessionComplete(frame),
             frame |-> IF new \/ t \in Listed(b) THEN frame ELSE EmptyFrame]
    BY DEF Arrival
  <2> HIDE DEF b, t, new, before, found, frame
  <2> QED BY <2>1
<1>2. /\ found \in Buffers /\ Accounted(found) /\ Listed(found) \subseteq Listed(jb)
      /\ \A x \in Nat : Chained(jb.dec, x) => Chained(found.dec, x)
      /\ found.last \in {jb.last, Initial}
  BY FrameGot
<1>3. t \in Timestamps
  BY DEF Timestamps
<1> HIDE DEF found
<1>4. before \in FramesAt(t) \cup {EmptyFrame} /\ (~new => before \in FramesAt(t))
  BY <1>2, FrameOfFacts
<1>5. frame \in FramesAt(t) /\ Parts(frame) = Parts(before) \cup {n}
  <2> HIDE DEF before
  <2> QED BY <1>4, InsertedFrame
<1>6. Parts(EmptyFrame) = {}
  BY DEF Parts, EmptyFrame
<1>7. /\ put \in Buffers /\ Listed(put) = Listed(found) /\ DOMAIN put.dec = DOMAIN found.dec
      /\ \A x \in Nat : Chained(found.dec, x) => Chained(put.dec, x)
      /\ put.last = found.last /\ put.missing = found.missing /\ put.latest = found.latest
      /\ put.fresh = found.fresh /\ put.nack = found.nack
      /\ Numbers(put) \subseteq Numbers(found) \cup {n}
      /\ ~new => FrameOf(put, t) = frame
  <2>1. CASE new
    BY <1>2, <2>1
  <2>2. CASE ~new
    <3>1. before = FrameOf(found, t) /\ t \in Listed(found) /\ before \in FramesAt(t)
      BY <1>4, <2>2
    <3>2. (before.complete => frame.complete) /\ (before.kind = "delta" \/ frame.kind = "key")
      <4> HIDE DEF before
      <4> QED BY <3>1, InsertedKeeps
    <3>3. put = PutFrame(found, t, frame)
      BY <2>2
    <3> HIDE DEF put, frame, before, new
    <3>4. /\ put \in Buffers /\ Listed(put) = Listed(found) /\ FrameOf(put, t) = frame
          /\ DOMAIN put.dec = DOMAIN found.dec
          /\ \A u \in Listed(found) \ {t} : FrameOf(put, u) = FrameOf(found, u)
          /\ \A x : Chained(found.dec, x) => Chained(put.dec, x)
          /\ put.last = found.last /\ put.missing = found.missing /\ put.latest = found.latest
          /\ put.fresh = found.fresh /\ put.nack = found.nack
      <4> HIDE DEF t
      <4> QED BY <1>2, <1>3, <1>5, <3>1, <3>2, <3>3, FramePut, SMTT(30)
    <3>5. Numbers(put) \subseteq Numbers(found) \cup {n}
      <4> SUFFICES ASSUME NEW k \in Numbers(put) PROVE k \in Numbers(found) \cup {n}
        OBVIOUS
      <4>1. PICK u \in Listed(put) : k \in Parts(FrameOf(put, u))
        BY DEF Numbers
      <4>2. CASE u = t
        BY <1>5, <3>1, <3>4, <4>1, <4>2 DEF Numbers
      <4>3. CASE u # t
        BY <3>4, <4>1, <4>3 DEF Numbers
      <4> QED BY <4>2, <4>3
    <3> QED BY <2>2, <3>4, <3>5
  <2> QED BY <2>1, <2>2
<1>8. put.fresh => Numbers(put) \subseteq {n} /\ put.missing = {}
  <2>1. put.fresh => Listed(found) = {} /\ found.missing = {}
    BY <1>2, <1>7 DEF Accounted
  <2>2. Listed(found) = {} => Numbers(found) = {}
    BY DEF Numbers
  <2> HIDE DEF put
  <2> QED BY <1>7, <2>1, <2>2
<1> HIDE DEF put
<1>9. b \in Buffers /\ Kept(b, put) /\ Accounted(b) /\ ~b.fresh /\ n <= b.latest /\ n \notin b.missing
  <2>1. /\ put.missing \subseteq 1 .. put.latest /\ Cardinality(put.missing) <= MaxNackListSize
        /\ \A k \in Numbers(put) : k = n \/ (k <= put.latest /\ k \notin put.missing)
        /\ ~put.nack => put.missing = {}
    BY <1>2, <1>7 DEF Accounted
  <2> QED BY <1>7, <1>8, <2>1, ReceivedIsAccounted
<1> HIDE DEF b
<1>10. Listed(b) \subseteq Listed(put) /\ (t \in Listed(b) => FrameOf(b, t) = FrameOf(put, t))
  BY <1>7, <1>9, KeptNumbers, BufferFacts DEF Kept, Listed, FrameOf
<1>11. b.last \in {jb.last, Initial} /\ (\A x \in Nat : Chained(jb.dec, x) => Chained(b.dec, x))
       /\ DOMAIN b.dec \subseteq DOMAIN found.dec
  BY <1>2, <1>7, <1>9 DEF Kept
<1>12. t \in DOMAIN b.dec => before.complete
  BY <1>2, <1>11, BufferFacts DEF Listed, FrameOf
<1>13. ASSUME t \in Listed(b), ~new PROVE Parts(frame) \subseteq Numbers(b)
  BY <1>7, <1>10, <1>13 DEF Numbers
<1> HIDE DEF t, frame, new, before
<1>14. a.new => a.ts \notin Listed(a.b) /\ a.frame \in FramesAt(a.ts) /\ Parts(a.frame) = {n}
  BY <1>1, <1>5, <1>6, <1>7, <1>10 DEF new, before
<1>15. a.new /\ ~a.starved => \E d \in Buffers : Listed(a.b) \subseteq Listed(d) /\ Room(d)
  BY <1>1, <1>2, <1>7, <1>10
<1>16. ~a.new => \/ a.frame = EmptyFrame
                 \/ /\ a.ts \in Listed(a.b) /\ a.frame \in FramesAt(a.ts)
                    /\ Parts(a.frame) \subseteq Numbers(a.b)
  BY <1>1, <1>5, <1>13
<1>17. new \in BOOLEAN
  BY DEF new
<1>18. a.ts = stream[n].frame /\ a.ts \in Timestamps /\ a.new \in BOOLEAN
  BY <1>1, <1>3, <1>17 DEF t
<1>19. /\ a.b \in Buffers /\ Accounted(a.b) /\ Listed(a.b) \subseteq Listed(jb)
       /\ n <= a.b.latest /\ n \notin a.b.missing /\ ~a.b.fresh /\ a.b.last \in {jb.last, Initial}
  BY <1>1, <1>2, <1>7, <1>9, <1>10, <1>11
<1>20. \A x \in Nat : Chained(jb.dec, x) => Chained(a.b.dec, x)
  BY <1>1, <1>11
<1>21. a.ts \in DOMAIN a.b.dec => a.before.complete
  BY <1>1, <1>12
<1> QED BY <1>14, <1>15, <1>16, <1>18, <1>19, <1>20, <1>21

(***************************************************************************)
(* Frames that get decodable                                                *)
(***************************************************************************)
(* No media has a number between two successive ones.                       *)
LEMMA NothingBetween ==
  ASSUME stream \in Streams, NEW m \in Packets, NEW n \in Packets, n = m + 1
  PROVE  Between(stream[m].frame, stream[n].frame) /\ stream[m].frame <= stream[n].frame
<1>1. m \in Nat /\ n \in Nat /\ stream[m].frame \in Nat /\ stream[n].frame \in Nat
  BY StreamFacts
<1>2. ASSUME NEW k \in Packets, stream[k].frame \in stream[m].frame + 1 .. stream[n].frame - 1 PROVE FALSE
  <2>1. k \in Nat /\ stream[k].frame \in Nat
    BY StreamFacts
  <2>2. stream[m].frame < stream[k].frame /\ stream[k].frame < stream[n].frame
    BY <1>1, <1>2, <2>1
  <2>3. m < k /\ k < n
    BY <2>2, SentInOrder
  <2> QED BY <1>1, <2>1, <2>3
<1>3. stream[m].frame <= stream[n].frame
  BY <1>1, SentInOrder
<1> QED BY <1>2, <1>3 DEF Between

(* What follows the last packet decoded follows the frame decoded last.     *)
LEMMA NextFrame ==
  ASSUME stream \in Streams, NEW s \in States, ~s.initial, NEW t, NEW f \in FramesAt(t),
         LowSequenceNumber(f) = s.seq + 1
  PROVE  Between(s.ts, t) /\ s.ts <= t
<1>1. LowSequenceNumber(f) \in Packets /\ stream[LowSequenceNumber(f)].frame = t
  BY FrameFacts
<1>2. s.seq \in Packets /\ s.ts = stream[s.seq].frame
  BY StateFacts
<1> QED BY <1>1, <1>2, NothingBetween

LEMMA StateAfterFacts ==
  ASSUME stream \in Streams, NEW t, NEW f \in FramesAt(t)
  PROVE  /\ StateAfter(f, t) \in States /\ ~StateAfter(f, t).initial /\ StateAfter(f, t).ts = t
         /\ StateAfter(f, t).seq = HighSequenceNumber(f)
<1>1. HighSequenceNumber(f) \in Packets /\ stream[HighSequenceNumber(f)].frame = t
  BY FrameFacts
<1> QED BY <1>1 DEF StateAfter, States

(* The waiting frames that get decodable with frame f of time t.            *)
LEMMA FollowersFacts ==
  ASSUME stream \in Streams, NEW inc \in Lists, NEW t, NEW f \in FramesAt(t)
  PROVE  LET M == Followers(inc, f, t) IN
         /\ M \subseteq DOMAIN inc /\ \A u \in M : u > t /\ inc[u].complete
         /\ \A u \in M : inc[u].kind = "delta" => \E w \in M \cup {t} : w < u /\ Between(w, u)
<1> DEFINE D == DOMAIN inc
           m == Cardinality(D)
           Fine(c) == /\ ~c.last.initial /\ c.last.ts \in c.moved \cup {t} /\ c.last.ts >= t
                      /\ \A u \in c.moved : u > t /\ inc[u].complete
                      /\ \A u \in c.moved : inc[u].kind = "delta" =>
                           \E w \in c.moved \cup {t} : w < u /\ Between(w, u)
           T == {c \in [last : States, moved : SUBSET D] : Fine(c)}
           Can(c) == {u \in D : u > c.last.ts /\ IsContinuousInState(inc[u], c.last)}
           Step(c) == IF Can(c) = {} THEN c
                      ELSE [last |-> StateAfter(inc[Min(Can(c))], Min(Can(c))),
                            moved |-> c.moved \cup {Min(Can(c))}]
           start == [last |-> StateAfter(f, t), moved |-> {}]
           g == CHOOSE h : h = [i \in 0 .. m |-> IF i = 0 THEN start ELSE Step(h[i - 1])]
<1>1. m \in Nat /\ t \in Nat /\ D \in SUBSET Nat /\ D \subseteq Timestamps
  <2>1. D \subseteq Timestamps /\ t \in Timestamps
    BY ListFacts, FrameFacts
  <2> QED BY <2>1, StreamFacts, FS_Subset, FS_CardinalityType
<1>2. start \in T
  <2>1. StateAfter(f, t) \in States /\ ~StateAfter(f, t).initial /\ StateAfter(f, t).ts = t
    BY StateAfterFacts
  <2> QED BY <1>1, <2>1
<1>3. ASSUME NEW c \in T PROVE Step(c) \in T
  <2>1. CASE Can(c) = {}
    BY <2>1
  <2>2. CASE Can(c) # {}
    <3> DEFINE w == Min(Can(c))
               d == [last |-> StateAfter(inc[w], w), moved |-> c.moved \cup {w}]
    <3>1. w \in D /\ w > c.last.ts /\ IsContinuousInState(inc[w], c.last)
      <4> DEFINE S == Can(c)
      <4>1. S # {} /\ S \in SUBSET Nat
        BY <1>1, <2>2
      <4>2. Min(S) \in S
        <5> HIDE DEF S
        <5> QED BY <4>1, MinOf
      <4> QED BY <4>2
    <3> HIDE DEF w
    <3>2. w \in Nat /\ inc[w] \in FramesAt(w)
      BY <1>1, <3>1, ListFacts
    <3>3. StateAfter(inc[w], w) \in States /\ ~StateAfter(inc[w], w).initial /\ StateAfter(inc[w], w).ts = w
      BY <3>2, StateAfterFacts
    <3>4. c.last \in States /\ c.last.ts \in Nat /\ ~c.last.initial /\ c.last.ts \in c.moved \cup {t}
      BY StateFacts
    <3>5. inc[w].complete /\ (inc[w].kind = "delta" => Between(c.last.ts, w))
      BY <3>1, <3>2, <3>4, NextFrame DEF IsContinuousInState, ContinuousFrame
    <3>6. d \in [last : States, moved : SUBSET D] /\ d.last = StateAfter(inc[w], w) /\ d.moved = c.moved \cup {w}
      BY <3>1, <3>3
    <3> HIDE DEF d
    <3>7. \A u \in d.moved : u > t /\ inc[u].complete
      BY <1>1, <3>1, <3>2, <3>4, <3>5, <3>6
    <3>8. ASSUME NEW u \in d.moved, inc[u].kind = "delta"
          PROVE  \E x \in d.moved \cup {t} : x < u /\ Between(x, u)
      <4>1. CASE u = w
        BY <3>1, <3>4, <3>5, <3>6, <3>8, <4>1
      <4>2. CASE u # w
        BY <3>6, <3>8, <4>2
      <4> QED BY <4>1, <4>2
    <3>9. d.last.ts >= t
      BY <1>1, <3>1, <3>2, <3>3, <3>4, <3>6
    <3>10. Fine(d)
      BY <3>3, <3>6, <3>7, <3>8, <3>9
    <3>11. Step(c) = d
      BY <2>2 DEF d, w
    <3> QED BY <3>6, <3>10, <3>11
  <2> QED BY <2>1, <2>2
<1>4. Followers(inc, f, t) = g[m].moved
  BY DEF Followers
<1>5. g = [i \in 0 .. m |-> IF i = 0 THEN start ELSE Step(g[i - 1])]
  <2> DEFINE step == [c \in T |-> Step(c)]
             IsLoop(h) == h = [i \in 0 .. m |-> IF i = 0 THEN start ELSE Step(h[i - 1])]
  <2>1. step \in [T -> T]
    <3> HIDE DEF T, Step
    <3> QED BY <1>3
  <2>2. PICK h \in [0 .. m -> T] : RoundsOf(h, start, step, m)
    <3> HIDE DEF step, T, start, m
    <3> QED BY <1>1, <1>2, <2>1, RoundsExist
  <2>3. \A i \in 0 .. m : i # 0 => step[h[i - 1]] = Step(h[i - 1])
    <3> HIDE DEF T, Step, start, m
    <3> SUFFICES ASSUME NEW i \in 0 .. m, i # 0 PROVE step[h[i - 1]] = Step(h[i - 1])
      OBVIOUS
    <3>1. i - 1 \in 0 .. m
      BY <1>1
    <3>2. h[i - 1] \in T
      BY <2>2, <3>1
    <3> QED BY <3>2 DEF step
  <2>4. IsLoop(h)
    <3> HIDE DEF step, T, Step, start, m
    <3> QED BY <2>2, <2>3 DEF RoundsOf
  <2>5. IsLoop(CHOOSE k : IsLoop(k))
    <3> HIDE DEF IsLoop
    <3> QED BY <2>4
  <2> QED BY <2>5
<1> HIDE DEF g, Step, T
<1>6. g[m] \in T
  <2> DEFINE I == {i \in 0 .. m : g[i] \in T}
  <2>1. 0 \in I
    <3> HIDE DEF start, m
    <3> QED BY <1>1, <1>2, <1>5
  <2>2. ASSUME NEW i \in 0 .. m - 1, i \in I PROVE i + 1 \in I
    <3> HIDE DEF start, m
    <3>1. i + 1 \in 0 .. m /\ i + 1 # 0 /\ (i + 1) - 1 = i
      BY <1>1
    <3>2. g[i + 1] = Step(g[i])
      BY <1>5, <3>1
    <3> QED BY <1>3, <2>2, <3>1, <3>2
  <2>3. \A i \in 0 .. m : i \in I
    <3> HIDE DEF I, m
    <3> QED BY <1>1, <2>1, <2>2, UpTo
  <2> QED BY <1>1, <2>3
<1> QED BY <1>4, <1>6 DEF T

(* A frame gets decodable, and the frames that follow it.                   *)
LEMMA DecodableInserted ==
  ASSUME stream \in Streams, NEW b \in Buffers, NEW t, NEW f \in FramesAt(t), f.complete,
         t \notin DOMAIN b.dec
  PROVE  LET c == InsertDecodable(b, f, t) IN
         /\ c \in Buffers /\ Listed(c) = Listed(b) \cup {t}
         /\ Numbers(c) \subseteq Numbers(b) \cup Parts(f)
         /\ c.last = b.last /\ c.missing = b.missing /\ c.latest = b.latest
         /\ c.fresh = b.fresh /\ c.nack = b.nack
         /\ \A x \in Nat :
              /\ Chained(b.dec, x)
              /\ f.kind = "delta" /\ t > x =>
                   Between(x, t) \/ \E u \in DOMAIN b.dec : u < t /\ Between(u, t)
              => Chained(c.dec, x)
<1> DEFINE M == Followers(b.inc, f, t)
           D == DOMAIN b.dec \cup M \cup {t}
           dec == [u \in D |-> IF u \in M THEN b.inc[u] ELSE IF u = t THEN f ELSE b.dec[u]]
           R == DOMAIN b.inc \ (M \cup {t})
           inc == Restrict(b.inc, R)
           c == InsertDecodable(b, f, t)
<1>1. /\ b.dec \in Lists /\ b.inc \in Lists /\ DOMAIN b.dec \cap DOMAIN b.inc = {}
      /\ DOMAIN b.dec \subseteq Timestamps /\ DOMAIN b.inc \subseteq Timestamps
      /\ \A u \in DOMAIN b.dec : b.dec[u] \in FramesAt(u) /\ b.dec[u].complete
      /\ \A u \in DOMAIN b.inc : b.inc[u] \in FramesAt(u)
  BY BufferFacts, ListFacts
<1>2. /\ M \subseteq DOMAIN b.inc /\ \A u \in M : u > t /\ b.inc[u].complete
      /\ \A u \in M : b.inc[u].kind = "delta" => \E w \in M \cup {t} : w < u /\ Between(w, u)
  BY <1>1, FollowersFacts
<1> HIDE DEF M
<1>3. t \in Timestamps /\ t \in Nat
  BY FrameFacts, StreamFacts
<1>4. t \notin M
  BY <1>2, <1>3
<1>5. /\ DOMAIN dec = D /\ dec[t] = f /\ \A u \in M : dec[u] = b.inc[u]
      /\ \A u \in DOMAIN b.dec : dec[u] = b.dec[u]
  BY <1>1, <1>2, <1>4
<1>6. dec = [u \in D |-> dec[u]]
  BY <1>5
<1> HIDE DEF dec
<1>7. \A u \in D : dec[u] \in FramesAt(u) /\ dec[u].complete
  BY <1>1, <1>2, <1>5
<1>8. dec \in Lists
  <2>1. D \in SUBSET Timestamps
    BY <1>1, <1>2, <1>3
  <2> HIDE DEF D
  <2> QED BY <2>1, <1>5, <1>6, <1>7, MadeList
<1>9. inc \in Lists /\ DOMAIN inc = R /\ \A u \in R : inc[u] = b.inc[u]
  <2>1. R \in SUBSET DOMAIN b.inc
    OBVIOUS
  <2> HIDE DEF R
  <2> QED BY <1>1, <2>1, RestrictedList
<1>10. /\ c \in AnyBuffer /\ c.dec = dec /\ c.inc = inc /\ c.last = b.last /\ c.missing = b.missing
       /\ c.latest = b.latest /\ c.fresh = b.fresh /\ c.nack = b.nack
  <2>1. c = [b EXCEPT !.dec = dec, !.inc = inc]
    BY DEF InsertDecodable, M, dec
  <2> DEFINE e == [b EXCEPT !.dec = dec]
  <2> HIDE DEF c, inc
  <2>2. /\ e \in AnyBuffer /\ e.dec = dec /\ e.last = b.last /\ e.missing = b.missing
        /\ e.latest = b.latest /\ e.fresh = b.fresh /\ e.nack = b.nack
    BY <1>8, BufferFacts DEF AnyBuffer
  <2>3. c = [e EXCEPT !.inc = inc]
    BY <2>1
  <2> HIDE DEF e
  <2> QED BY <1>9, <2>2, <2>3 DEF AnyBuffer
<1> HIDE DEF c, inc
<1>11. D \cap R = {} /\ D \cup R = DOMAIN b.dec \cup DOMAIN b.inc \cup {t}
  BY <1>1, <1>2
<1>12. c \in Buffers /\ Listed(c) = Listed(b) \cup {t}
  BY <1>5, <1>7, <1>9, <1>10, <1>11 DEF Buffers, Listed
<1>13. Numbers(c) \subseteq Numbers(b) \cup Parts(f)
  <2> SUFFICES ASSUME NEW k \in Numbers(c) PROVE k \in Numbers(b) \cup Parts(f)
    OBVIOUS
  <2>1. PICK u \in Listed(c) : k \in Parts(FrameOf(c, u))
    BY DEF Numbers
  <2>2. CASE u = t
    <3>1. t \in D /\ t \notin R
      OBVIOUS
    <3>2. FrameOf(c, u) = f
      BY <1>5, <1>9, <1>10, <2>2, <3>1 DEF FrameOf
    <3> QED BY <2>1, <3>2
  <2>3. CASE u # t
    <3>1. u \in Listed(b) /\ FrameOf(c, u) = FrameOf(b, u)
      BY <1>1, <1>2, <1>5, <1>9, <1>10, <1>12, <2>3 DEF FrameOf, Listed
    <3> QED BY <2>1, <3>1 DEF Numbers
  <2> QED BY <2>2, <2>3
<1>14. ASSUME NEW x \in Nat, Chained(b.dec, x),
              f.kind = "delta" /\ t > x =>
                Between(x, t) \/ \E u \in DOMAIN b.dec : u < t /\ Between(u, t)
       PROVE  Chained(c.dec, x)
  <2> SUFFICES ASSUME NEW u \in D, dec[u].kind = "delta", u > x
               PROVE  Between(x, u) \/ \E w \in D : w < u /\ Between(w, u)
    BY <1>5, <1>10 DEF Chained
  <2>1. CASE u \in DOMAIN b.dec
    <3>1. b.dec[u].kind = "delta"
      BY <1>5, <2>1
    <3>2. Between(x, u) \/ \E w \in DOMAIN b.dec : w < u /\ Between(w, u)
      BY <1>14, <2>1, <3>1 DEF Chained
    <3> QED BY <3>2
  <2>2. CASE u \in M
    <3>1. \E w \in M \cup {t} : w < u /\ Between(w, u)
      BY <1>2, <1>5, <2>2
    <3> QED BY <3>1
  <2>3. CASE u = t
    BY <1>5, <1>14, <2>3
  <2> QED BY <2>1, <2>2, <2>3
<1> QED BY <1>10, <1>12, <1>13, <1>14 DEF c

(***************************************************************************)
(* Old and empty frames                                                     *)
(***************************************************************************)
\* Up to the frame decoded last there is only padding after time x.
Behind(s, x) == ~s.initial => Between(x, s.ts + 1)
Newer(u, s) == s.initial \/ u > s.ts

(* An empty frame that is dropped was next: frames that were newer are newer*)
(* than it.                                                                 *)
LEMMA EmptyDropped ==
  ASSUME stream \in Streams, NEW s \in States, NEW t, NEW f \in FramesAt(t), f.media = {},
         CanDropEmpty(f, s)
  PROVE  LET r == StateAfterEmpty(f, t, s) IN
         /\ r \in States
         /\ \A x \in Nat : Behind(s, x) => Behind(r, x)
         /\ \A u \in Timestamps \ {t} : Newer(u, s) => Newer(u, r)
<1> DEFINE r == StateAfterEmpty(f, t, s)
<1>1. CASE s.initial
  BY <1>1 DEF StateAfterEmpty
<1>2. CASE ~s.initial
  <2> DEFINE l == LowSequenceNumber(f)
             h == HighSequenceNumber(f)
  <2>1. /\ l \in Packets /\ stream[l].frame = t /\ stream[l].kind = "empty"
        /\ h \in Packets /\ stream[h].frame = t
        /\ t \in Timestamps /\ t \in Nat /\ f.kind = "delta"
    <3>1. l \in f.pads
      BY FrameFacts DEF Parts
    <3> QED BY <3>1, FrameFacts, StreamFacts DEF FramesAt
  <2>2. l = s.seq + 1
    <3> HIDE DEF l, h
    <3> QED BY <1>2, <2>1 DEF CanDropEmpty, ContinuousFrame, l, h
  <2>3. s.seq \in Packets /\ s.ts = stream[s.seq].frame /\ s.seq \in Nat /\ s.ts \in Nat
    BY <1>2, StateFacts
  <2>4. Between(s.ts, t) /\ s.ts <= t
    BY <1>2, <2>2, NextFrame
  <2>5. r = [initial |-> FALSE, seq |-> h, ts |-> t]
    <3>1. r = [s EXCEPT !.seq = h, !.ts = t]
      BY <1>2 DEF StateAfterEmpty
    <3>2. PICK n \in Packets : s = [initial |-> FALSE, seq |-> n, ts |-> stream[n].frame]
      BY <1>2 DEF States, Initial
    <3> HIDE DEF r, h
    <3> QED BY <3>1, <3>2
  <2>6. r \in States
    <3> HIDE DEF r, h
    <3> QED BY <2>1, <2>5 DEF States
  <2>7. ASSUME NEW k \in Packets, stream[k].frame >= s.ts + 1
        PROVE  k >= l /\ stream[k].frame >= t
    <3>1. k \in Nat /\ stream[k].frame \in Nat /\ l \in Nat
      BY <2>1, StreamFacts
    <3>2. s.seq < k
      BY <2>3, <2>7, <3>1, SentInOrder
    <3>3. l <= k
      <4> HIDE DEF l
      <4> QED BY <2>2, <2>3, <3>1, <3>2
    <3>4. stream[l].frame <= stream[k].frame
      <4> HIDE DEF l
      <4> QED BY <2>1, <3>3, SentInOrder
    <3> QED BY <2>1, <3>1, <3>3, <3>4
  <2>8. ASSUME NEW x \in Nat, Behind(s, x) PROVE Behind(r, x)
    <3>1. Between(x, s.ts + 1)
      BY <1>2, <2>8 DEF Behind
    <3>2. ASSUME NEW n \in Packets, stream[n].frame \in x + 1 .. (t + 1) - 1
          PROVE  stream[n].kind = "empty"
      <4>1. stream[n].frame \in Nat
        BY StreamFacts
      <4>2. CASE stream[n].frame <= s.ts
        <5>1. stream[n].frame \in x + 1 .. (s.ts + 1) - 1
          BY <2>3, <3>2, <4>1, <4>2
        <5> QED BY <3>1, <5>1 DEF Between
      <4>3. CASE stream[n].frame > s.ts
        <5>1. n >= l /\ stream[n].frame >= t
          BY <2>3, <2>7, <4>1, <4>3
        <5>2. stream[n].frame = t
          BY <2>1, <3>2, <4>1, <5>1
        <5>3. l <= n /\ l \in Packets
          BY <2>1, <5>1, StreamFacts
        <5> HIDE DEF l
        <5> QED BY <2>1, <5>2, <5>3, SentInOrder
      <4> QED BY <2>3, <4>1, <4>2, <4>3
    <3>3. Between(x, t + 1)
      BY <3>2 DEF Between
    <3>4. r.ts = t
      BY <2>5
    <3> QED BY <3>3, <3>4 DEF Behind
  <2>9. ASSUME NEW u \in Timestamps \ {t}, Newer(u, s) PROVE Newer(u, r)
    <3>1. u \in Nat /\ u > s.ts
      BY <1>2, <2>9, StreamFacts DEF Newer
    <3>2. PICK k \in Packets : stream[k].frame = u
      BY DEF Timestamps
    <3>3. u >= t
      BY <2>3, <2>7, <3>1, <3>2
    <3>4. r.ts = t
      BY <2>5
    <3> QED BY <2>1, <3>1, <3>3, <3>4 DEF Newer
  <2> QED BY <2>6, <2>8, <2>9
<1> QED BY <1>1, <1>2

\* c is b without some of its waiting frames, which may have moved its state.
Tidied(c, b) ==
  /\ c.dec = b.dec
  /\ DOMAIN c.inc \subseteq DOMAIN b.inc /\ \A t \in DOMAIN c.inc : c.inc[t] = b.inc[t]
  /\ \A x \in Nat : Behind(b.last, x) => Behind(c.last, x)
  /\ \A u \in Listed(c) : Newer(u, b.last) => Newer(u, c.last)
  /\ c.missing = b.missing /\ c.latest = b.latest /\ c.fresh = b.fresh /\ c.nack = b.nack

LEMMA FrontTidied ==
  ASSUME stream \in Streams, NEW b \in Buffers, b.inc # NoFrames
  PROVE  CleanUpFront(b) \in Buffers /\ Tidied(CleanUpFront(b), b)
<1> DEFINE t == Oldest(b.inc)
           f == b.inc[t]
           rest == [b EXCEPT !.inc = Without(b.inc, t)]
           after == [rest EXCEPT !.last = StateAfterEmpty(f, t, b.last)]
           c == CleanUpFront(b)
<1>1. t \in DOMAIN b.inc /\ f \in FramesAt(t) /\ b.inc \in Lists
  BY BufferFacts, OldestOf, ListFacts
<1>2. /\ Without(b.inc, t) \in Lists /\ DOMAIN Without(b.inc, t) = DOMAIN b.inc \ {t}
      /\ \A u \in DOMAIN b.inc \ {t} : Without(b.inc, t)[u] = b.inc[u]
  <2> DEFINE D == DOMAIN b.inc \ {t}
  <2>1. D \in SUBSET DOMAIN b.inc
    OBVIOUS
  <2> HIDE DEF D
  <2>2. /\ Restrict(b.inc, D) \in Lists /\ DOMAIN Restrict(b.inc, D) = D
        /\ \A u \in D : Restrict(b.inc, D)[u] = b.inc[u]
    BY <1>1, <2>1, RestrictedList
  <2> QED BY <2>2 DEF Without, D
<1>3. /\ rest \in AnyBuffer /\ rest.dec = b.dec /\ rest.inc = Without(b.inc, t) /\ rest.last = b.last
      /\ rest.missing = b.missing /\ rest.latest = b.latest /\ rest.fresh = b.fresh
      /\ rest.nack = b.nack
  BY <1>2, BufferFacts DEF AnyBuffer
<1> HIDE DEF rest
<1>4. rest \in Buffers
  BY <1>2, <1>3, BufferFacts DEF Buffers
<1>5. Listed(rest) = Listed(b) \ {t}
  BY <1>1, <1>2, <1>3, BufferFacts DEF Listed
<1>6. Tidied(rest, b)
  BY <1>2, <1>3 DEF Tidied
<1>7. ASSUME IsEmptyState(f), CanDropEmpty(f, b.last)
      PROVE  after \in Buffers /\ Tidied(after, b)
  <2> DEFINE r == StateAfterEmpty(f, t, b.last)
  <2>1. /\ r \in States
        /\ \A x \in Nat : Behind(b.last, x) => Behind(r, x)
        /\ \A u \in Timestamps \ {t} : Newer(u, b.last) => Newer(u, r)
    <3> HIDE DEF t, f
    <3> QED BY <1>1, <1>7, BufferFacts, EmptyDropped DEF IsEmptyState
  <2> HIDE DEF r
  <2>2. /\ after \in AnyBuffer /\ after.dec = rest.dec /\ after.inc = rest.inc /\ after.last = r
        /\ after.missing = rest.missing /\ after.latest = rest.latest /\ after.fresh = rest.fresh
        /\ after.nack = rest.nack
    <3>1. after = [rest EXCEPT !.last = r]
      BY DEF r
    <3> HIDE DEF after
    <3> QED BY <1>4, <2>1, <3>1, BufferFacts DEF AnyBuffer
  <2> HIDE DEF after
  <2>3. after \in Buffers
    BY <1>4, <2>2, BufferFacts DEF Buffers
  <2>4. Listed(after) = Listed(b) \ {t} /\ Listed(b) \subseteq Timestamps
    BY <1>5, <2>2, BufferFacts DEF Listed
  <2>5. \A u \in Listed(after) : Newer(u, b.last) => Newer(u, after.last)
    BY <2>1, <2>2, <2>4
  <2> QED BY <1>2, <1>3, <2>1, <2>2, <2>3, <2>5 DEF Tidied
<1>8. Tidied(b, b)
  BY DEF Tidied
<1>9. c \in {b, rest} \/ (c = after /\ IsEmptyState(f) /\ CanDropEmpty(f, b.last))
  <2>1. c = IF IsEmptyState(f) /\ Cardinality(DOMAIN b.inc) > 1
            THEN IF CanDropEmpty(f, b.last) THEN after ELSE b
            ELSE IF IsOld(b.last, t) THEN rest ELSE b
    BY DEF CleanUpFront, rest
  <2> HIDE DEF c, after, t, f
  <2> QED BY <2>1
<1> HIDE DEF c, after
<1>10. c \in Buffers /\ Tidied(c, b)
  BY <1>4, <1>6, <1>7, <1>8, <1>9
<1> QED BY <1>10 DEF c

LEMMA TidiedTransitive ==
  ASSUME NEW a, NEW b, NEW c, Tidied(b, a), Tidied(c, b)
  PROVE  Tidied(c, a)
<1>1. Listed(c) \subseteq Listed(b)
  BY DEF Tidied, Listed
<1>2. \A u \in Listed(c) : Newer(u, a.last) => Newer(u, c.last)
  BY <1>1 DEF Tidied
<1>3. /\ c.dec = a.dec
      /\ DOMAIN c.inc \subseteq DOMAIN a.inc /\ \A t \in DOMAIN c.inc : c.inc[t] = a.inc[t]
      /\ c.missing = a.missing /\ c.latest = a.latest /\ c.fresh = a.fresh /\ c.nack = a.nack
  BY DEF Tidied
<1>4. \A x \in Nat : Behind(a.last, x) => Behind(c.last, x)
  BY DEF Tidied
<1> QED BY <1>2, <1>3, <1>4 DEF Tidied

(* CleanUpOldOrEmptyFrames: what it drops was decoded or is padding, and the*)
(* decodable frames it leaves are newer than its state.                     *)
LEMMA CleanedUp ==
  ASSUME stream \in Streams, NEW b \in Buffers, Accounted(b)
  PROVE  LET c == CleanUpOldOrEmptyFrames(b) IN
         /\ c \in Buffers /\ Accounted(c) /\ Listed(c) \subseteq Listed(b)
         /\ \A x \in Nat : Behind(b.last, x) => Behind(c.last, x)
         /\ \A x \in Nat : Behind(b.last, x) /\ Chained(b.dec, x) => Chained(c.dec, x)
         /\ \A u \in Listed(c) : Newer(u, b.last) => Newer(u, c.last)
         /\ \A u \in DOMAIN c.dec : Newer(u, c.last)
<1> DEFINE K == {t \in DOMAIN b.dec : ~IsOld(b.last, t)}
           start == [b EXCEPT !.dec = Restrict(b.dec, K)]
           m == Cardinality(DOMAIN b.inc)
           T == {c \in Buffers : Tidied(c, start)}
           Step(c) == IF c.inc = NoFrames THEN c ELSE CleanUpFront(c)
           g == CHOOSE h : h = [i \in 0 .. m |-> IF i = 0 THEN start
                                  ELSE IF h[i - 1].inc = NoFrames THEN h[i - 1] ELSE CleanUpFront(h[i - 1])]
           d == g[m]
           c == CleanUpOldOrEmptyFrames(b)
<1>1. m \in Nat
  <2>1. DOMAIN b.inc \subseteq Timestamps
    BY BufferFacts, ListFacts
  <2> QED BY <2>1, StreamFacts, FS_Subset, FS_CardinalityType
<1>2. /\ Restrict(b.dec, K) \in Lists /\ DOMAIN Restrict(b.dec, K) = K
      /\ \A t \in K : Restrict(b.dec, K)[t] = b.dec[t]
  <2>1. K \in SUBSET DOMAIN b.dec
    OBVIOUS
  <2> HIDE DEF K
  <2> QED BY <2>1, BufferFacts, RestrictedList
<1>3. /\ start \in AnyBuffer /\ start.dec = Restrict(b.dec, K) /\ start.inc = b.inc
      /\ start.last = b.last /\ start.missing = b.missing /\ start.latest = b.latest
      /\ start.fresh = b.fresh /\ start.nack = b.nack
  <2> HIDE DEF K
  <2> QED BY <1>2, BufferFacts DEF AnyBuffer
<1> HIDE DEF start
<1>4. start \in Buffers
  BY <1>2, <1>3, BufferFacts DEF Buffers
<1>5. ASSUME NEW x \in T PROVE Step(x) \in T
  <2>1. CASE x.inc = NoFrames
    BY <2>1
  <2>2. CASE x.inc # NoFrames
    <3>1. CleanUpFront(x) \in Buffers /\ Tidied(CleanUpFront(x), x)
      BY <2>2, FrontTidied
    <3> QED BY <2>2, <3>1, TidiedTransitive
  <2> QED BY <2>1, <2>2
<1>6. start \in T
  BY <1>4 DEF Tidied
<1>7. g = [i \in 0 .. m |-> IF i = 0 THEN start ELSE Step(g[i - 1])]
  <2> DEFINE step == [x \in T |-> Step(x)]
             IsLoop(h) == h = [i \in 0 .. m |-> IF i = 0 THEN start
                                 ELSE IF h[i - 1].inc = NoFrames THEN h[i - 1] ELSE CleanUpFront(h[i - 1])]
  <2>1. step \in [T -> T]
    <3> HIDE DEF T, Step
    <3> QED BY <1>5
  <2>2. PICK h \in [0 .. m -> T] : RoundsOf(h, start, step, m)
    <3> HIDE DEF step, T, m
    <3> QED BY <1>1, <1>6, <2>1, RoundsExist
  <2>3. \A i \in 0 .. m : i # 0 => step[h[i - 1]] = Step(h[i - 1])
    <3> HIDE DEF T, Step, m
    <3> SUFFICES ASSUME NEW i \in 0 .. m, i # 0 PROVE step[h[i - 1]] = Step(h[i - 1])
      OBVIOUS
    <3>1. i - 1 \in 0 .. m
      BY <1>1
    <3>2. h[i - 1] \in T
      BY <2>2, <3>1
    <3> QED BY <3>2 DEF step
  <2>4. IsLoop(h)
    <3> HIDE DEF step, T, m
    <3> QED BY <2>2, <2>3 DEF RoundsOf
  <2>5. IsLoop(CHOOSE k : IsLoop(k))
    <3> HIDE DEF IsLoop
    <3> QED BY <2>4
  <2> QED BY <2>5
<1>8. c = IF d.last.initial THEN d ELSE DropPackets(d, d.last.seq)
  BY DEF CleanUpOldOrEmptyFrames, start
<1> HIDE DEF g
<1>9. d \in T
  <2> HIDE DEF T, Step
  <2> DEFINE I == {i \in 0 .. m : g[i] \in T}
  <2>1. 0 \in I
    BY <1>1, <1>6, <1>7
  <2>2. ASSUME NEW i \in 0 .. m - 1, i \in I PROVE i + 1 \in I
    <3> HIDE DEF m
    <3>1. i + 1 \in 0 .. m /\ i + 1 # 0 /\ (i + 1) - 1 = i
      BY <1>1
    <3>2. g[i + 1] = Step(g[i])
      BY <1>7, <3>1
    <3> QED BY <1>5, <2>2, <3>1, <3>2
  <2>3. \A i \in 0 .. m : i \in I
    <3> HIDE DEF I, m
    <3> QED BY <1>1, <2>1, <2>2, UpTo
  <2> QED BY <1>1, <2>3
<1> HIDE DEF d
<1>10. d \in Buffers /\ Tidied(d, start)
  BY <1>9
<1>11. /\ c \in AnyBuffer /\ c.dec = d.dec /\ c.inc = d.inc /\ c.last = d.last
       /\ c.missing \subseteq d.missing /\ c.latest = d.latest /\ c.fresh = d.fresh /\ c.nack = d.nack
  <2>1. CASE d.last.initial
    BY <1>8, <1>10, <2>1, BufferFacts
  <2>2. CASE ~d.last.initial
    <3>1. c = [d EXCEPT !.missing = {n \in @ : n > d.last.seq}]
      BY <1>8, <2>2 DEF DropPackets
    <3> HIDE DEF c
    <3> QED BY <1>10, <3>1, BufferFacts DEF AnyBuffer
  <2> QED BY <2>1, <2>2
<1> HIDE DEF c
<1>12. c \in Buffers
  BY <1>10, <1>11, BufferFacts DEF Buffers
<1>13. /\ DOMAIN c.dec = K /\ \A t \in K : c.dec[t] = b.dec[t]
       /\ DOMAIN c.inc \subseteq DOMAIN b.inc /\ \A t \in DOMAIN c.inc : c.inc[t] = b.inc[t]
       /\ c.missing \subseteq b.missing /\ c.latest = b.latest /\ c.fresh = b.fresh /\ c.nack = b.nack
       /\ \A x \in Nat : Behind(b.last, x) => Behind(c.last, x)
       /\ \A u \in Listed(c) : Newer(u, b.last) => Newer(u, c.last)
  <2>1. Listed(c) = Listed(d)
    BY <1>11 DEF Listed
  <2> HIDE DEF K
  <2> QED BY <1>2, <1>3, <1>10, <1>11, <2>1 DEF Tidied
<1>14. Listed(c) \subseteq Listed(b) /\ Numbers(c) \subseteq Numbers(b)
  <2>1. Listed(c) \subseteq Listed(b)
    BY <1>13 DEF Listed
  <2>2. \A t \in Listed(c) : FrameOf(c, t) = FrameOf(b, t)
    BY <1>13, BufferFacts DEF Listed, FrameOf
  <2> QED BY <2>1, <2>2 DEF Numbers
<1>15. Accounted(c)
  BY <1>12, <1>13, <1>14, LessIsAccounted
<1>16. \A u \in DOMAIN c.dec : Newer(u, b.last)
  <2>1. b.last.ts \in Nat /\ \A u \in DOMAIN b.dec : u \in Nat
    BY BufferFacts, StateFacts, ListFacts, StreamFacts
  <2> QED BY <1>13, <2>1 DEF Newer, IsOld
<1>17. \A u \in DOMAIN c.dec : Newer(u, c.last)
  BY <1>13, <1>16 DEF Listed
<1>18. ASSUME NEW x \in Nat, Behind(b.last, x), Chained(b.dec, x) PROVE Chained(c.dec, x)
  <2> SUFFICES ASSUME NEW u \in K, b.dec[u].kind = "delta", u > x
               PROVE  Between(x, u) \/ \E w \in K : w < u /\ Between(w, u)
    BY <1>13 DEF Chained
  <2>1. CASE Between(x, u)
    BY <2>1
  <2>2. CASE \E w \in DOMAIN b.dec : w < u /\ Between(w, u)
    <3>1. PICK w \in DOMAIN b.dec : w < u /\ Between(w, u)
      BY <2>2
    <3>2. u \in Nat /\ w \in Nat /\ b.last.ts \in Nat
      BY BufferFacts, StateFacts, ListFacts, StreamFacts
    <3>3. CASE w \in K
      BY <3>1, <3>3
    <3>4. CASE w \notin K
      <4>1. ~b.last.initial /\ w <= b.last.ts
        BY <3>4 DEF IsOld
      <4>2. Between(x, b.last.ts + 1)
        BY <1>18, <4>1 DEF Behind
      <4>3. ASSUME NEW n \in Packets, stream[n].frame \in x + 1 .. u - 1 PROVE stream[n].kind = "empty"
        <5>1. stream[n].frame \in Nat
          BY StreamFacts
        <5>2. \/ stream[n].frame \in x + 1 .. (b.last.ts + 1) - 1
              \/ stream[n].frame \in w + 1 .. u - 1
          BY <3>2, <4>1, <4>3, <5>1
        <5> QED BY <3>1, <4>2, <5>2 DEF Between
      <4> QED BY <4>3 DEF Between
    <3> QED BY <3>3, <3>4
  <2> QED BY <1>18, <2>1, <2>2 DEF Chained
<1> QED BY <1>12, <1>13, <1>14, <1>15, <1>17, <1>18 DEF c

(***************************************************************************)
(* The inductive invariant                                                  *)
(***************************************************************************)
InUse(b, l, h) == Cardinality(Listed(b)) + l + (IF h = NoHeld THEN 0 ELSE 1)

\* If t is the time of a delta frame and newer than x, it follows x.
Follows(t, x) ==
  (\E n \in Packets : stream[n].frame = t /\ stream[n].kind = "delta") => t <= x \/ Between(x, t)

\* Buffer b, l buffers lost, fault f, frame h in hand, p picked and x handed over last.
Sound(b, l, f, h, p, x) ==
  /\ b \in Buffers /\ Accounted(b)
  /\ l \in 0 .. MaxNumberOfFrames
  /\ p \in Timestamps \cup {0} /\ x \in Timestamps \cup {0} /\ h.ts \in Timestamps \cup {0}
  /\ p # 0 => h = NoHeld /\ Follows(p, x)
  /\ f = "none" =>
       /\ InUse(b, l, h) <= MaxNumberOfFrames
       /\ Chained(b.dec, x) /\ Behind(b.last, x)
       /\ p \in Listed(b) => Newer(p, b.last)

IInv ==
  /\ stream \in Streams /\ fault \in {"none", "aliased", "starved"} /\ resetting \in BOOLEAN
  /\ Sound(jb, lost, fault, held, picked, newest)

(* The stream does not change, and so does nothing that is said of it.      *)
LEMMA StreamStays ==
  ASSUME stream' = stream
  PROVE  Packets' = Packets /\ Timestamps' = Timestamps /\ Buffers' = Buffers
<1>1. Packets' = Packets /\ Timestamps' = Timestamps
  BY DEF Packets, Timestamps
<1>2. AnyFrame' = AnyFrame
  BY <1>1 DEF AnyFrame
<1>3. ASSUME NEW t PROVE FramesAt(t)' = FramesAt(t)
  <2>1. ASSUME NEW f PROVE IsFrame(f, t)' <=> IsFrame(f, t)
    BY <1>1 DEF IsFrame, HaveFirstPacket
  <2>2. ASSUME NEW f PROVE f \in FramesAt(t)' <=> f \in FramesAt(t)
    BY <1>2, <2>1 DEF FramesAt
  <2> QED BY <2>2
<1>4. Lists' = Lists
  <2>1. FrameSet' = FrameSet
    BY <1>1, <1>3 DEF FrameSet
  <2>2. ASSUME NEW l PROVE l \in Lists' <=> l \in Lists
    BY <1>1, <1>3, <2>1 DEF Lists
  <2> QED BY <2>2
<1>5. States' = States
  BY <1>1 DEF States
<1>6. AnyBuffer' = AnyBuffer
  BY <1>1, <1>4, <1>5 DEF AnyBuffer
<1>7. Buffers' = Buffers
  BY <1>6 DEF Buffers
<1> QED BY <1>1, <1>7

LEMMA InvariantAfter ==
  ASSUME stream \in Streams, stream' = stream, fault' \in {"none", "aliased", "starved"},
         resetting' \in BOOLEAN, NEW b, NEW l, NEW h, NEW p, NEW x, Sound(b, l, fault', h, p, x),
         jb' = b, lost' = l, held' = h, picked' = p, newest' = x
  PROVE  IInv'
<1>1. Packets' = Packets /\ Timestamps' = Timestamps /\ Buffers' = Buffers
  BY StreamStays
<1>2. ASSUME NEW u, NEW v PROVE Between(u, v)' <=> Between(u, v)
  BY <1>1 DEF Between
<1>3. Follows(picked, newest)' <=> Follows(p, x)
  BY <1>1 DEF Follows, Between
<1>4. Chained(jb.dec, newest)' <=> Chained(b.dec, x)
  BY <1>1, <1>2 DEF Chained
<1>5. Behind(jb.last, newest)' <=> Behind(b.last, x)
  BY <1>1, <1>2 DEF Behind
<1>6. (Accounted(jb)' <=> Accounted(b)) /\ Listed(jb)' = Listed(b)
  BY DEF Accounted, Numbers, Parts, FrameOf, Listed
<1>7. Sound(jb, lost, fault, held, picked, newest)'
  BY <1>1, <1>3, <1>4, <1>5, <1>6 DEF Sound, InUse, NoHeld, Newer
<1> QED BY <1>7 DEF IInv

(***************************************************************************)
(* The network thread                                                       *)
(***************************************************************************)
LEMMA FewerListed ==
  ASSUME stream \in Streams, NEW b \in Buffers, NEW c \in Buffers
  PROVE  /\ Cardinality(Listed(b)) \in Nat
         /\ Listed(c) \subseteq Listed(b) => Cardinality(Listed(c)) <= Cardinality(Listed(b))
         /\ \A t : Listed(c) \subseteq Listed(b) \cup {t} =>
              Cardinality(Listed(c)) <= Cardinality(Listed(b)) + 1
<1>1. IsFiniteSet(Listed(b)) /\ Cardinality(Listed(b)) \in Nat /\ Cardinality(Listed(c)) \in Nat
  BY ListedIsFinite
<1>2. Listed(c) \subseteq Listed(b) => Cardinality(Listed(c)) <= Cardinality(Listed(b))
  BY <1>1, FS_Subset
<1>3. ASSUME NEW t, Listed(c) \subseteq Listed(b) \cup {t}
      PROVE  Cardinality(Listed(c)) <= Cardinality(Listed(b)) + 1
  <2> DEFINE S == Listed(b) \cup {t}
  <2>1. IsFiniteSet(S) /\ Cardinality(S) \in Nat /\ Cardinality(S) <= Cardinality(Listed(b)) + 1
    <3>1. IsFiniteSet(S)
          /\ Cardinality(S) = IF t \in Listed(b) THEN Cardinality(Listed(b)) ELSE Cardinality(Listed(b)) + 1
      BY <1>1, FS_AddElement
    <3> QED BY <1>1, <3>1
  <2> HIDE DEF S
  <2>2. Listed(c) \subseteq S
    BY <1>3 DEF S
  <2>3. Cardinality(Listed(c)) <= Cardinality(S)
    BY <2>1, <2>2, FS_Subset
  <2> QED BY <1>1, <2>1, <2>3
<1> QED BY <1>1, <1>2, <1>3

LEMMA SettledFacts ==
  ASSUME NEW b \in Buffers
  PROVE  LET c == Settled(b) IN
         /\ c \in Buffers /\ Listed(c) = Listed(b) /\ Numbers(c) = Numbers(b)
         /\ c.dec = b.dec /\ c.inc = b.inc /\ c.last = b.last /\ c.missing = b.missing
         /\ c.latest = b.latest /\ c.fresh = b.fresh /\ c.nack = b.nack
         /\ Accounted(b) => Accounted(c)
<1> DEFINE c == Settled(b)
<1>1. c \in Buffers
  BY SettledIsSmaller DEF Smaller
<1>2. /\ c.dec = b.dec /\ c.inc = b.inc /\ c.last = b.last /\ c.missing = b.missing
      /\ c.latest = b.latest /\ c.fresh = b.fresh /\ c.nack = b.nack
  BY BufferFacts DEF Settled, AnyBuffer
<1> HIDE DEF c
<1>3. Listed(c) = Listed(b) /\ Numbers(c) = Numbers(b)
  BY <1>2 DEF Listed, Numbers, FrameOf
<1>4. Accounted(b) => Accounted(c)
  BY <1>2, <1>3 DEF Accounted
<1> QED BY <1>1, <1>2, <1>3, <1>4 DEF c

LEMMA SoundFacts ==
  ASSUME IInv
  PROVE  /\ stream \in Streams /\ lost \in Nat /\ newest \in Nat /\ picked \in Nat
         /\ MaxNumberOfFrames \in Nat /\ jb \in Buffers /\ Accounted(jb)
BY StreamFacts, JitterBufferAssumption DEF IInv, Sound

(* The buffer a packet not too old is put into, before its own frame is.    *)
LEMMA ArrivalSound ==
  ASSUME IInv, fault = "none", NEW n \in Packets, ~IsOld(jb.last, stream[n].frame),
         NEW a, a = Arrival(n), ~a.starved
  PROVE  LET b == Settled(a.b) IN
         /\ Sound(b, lost, "none", held, picked, newest)
         /\ n <= b.latest /\ n \notin b.missing /\ ~b.fresh /\ Newer(a.ts, b.last)
         /\ a.new => InUse(b, lost, held) < MaxNumberOfFrames /\ a.ts \notin Listed(b)
<1> DEFINE b == Settled(a.b)
<1> USE SoundFacts
<1>1. /\ a.ts = stream[n].frame /\ a.ts \in Timestamps
      /\ a.b \in Buffers /\ Accounted(a.b) /\ Listed(a.b) \subseteq Listed(jb)
      /\ n <= a.b.latest /\ n \notin a.b.missing /\ ~a.b.fresh /\ a.b.last \in {jb.last, Initial}
      /\ \A x \in Nat : Chained(jb.dec, x) => Chained(a.b.dec, x)
  BY ArrivalFacts
<1>2. /\ b \in Buffers /\ Listed(b) = Listed(a.b) /\ Accounted(b)
      /\ b.dec = a.b.dec /\ b.last = a.b.last /\ b.missing = a.b.missing
      /\ b.latest = a.b.latest /\ b.fresh = a.b.fresh
  BY <1>1, SettledFacts
<1> HIDE DEF b
<1>3. InUse(b, lost, held) <= MaxNumberOfFrames
  <2>1. Cardinality(Listed(b)) <= Cardinality(Listed(jb))
        /\ Cardinality(Listed(b)) \in Nat /\ Cardinality(Listed(jb)) \in Nat
    BY <1>1, <1>2, FewerListed
  <2> QED BY <2>1 DEF IInv, Sound, InUse
<1>4. /\ Chained(b.dec, newest) /\ Behind(b.last, newest)
      /\ picked \in Listed(b) => Newer(picked, b.last)
  <2>1. Chained(jb.dec, newest) /\ Behind(jb.last, newest) /\ (picked \in Listed(jb) => Newer(picked, jb.last))
    BY DEF IInv, Sound
  <2> QED BY <1>1, <1>2, <2>1 DEF Behind, Newer, Initial
<1>5. Sound(b, lost, "none", held, picked, newest)
  BY <1>2, <1>3, <1>4 DEF IInv, Sound
<1>6. Newer(a.ts, b.last)
  <2>1. jb.last.ts \in Nat /\ a.ts \in Nat
    BY <1>1, BufferFacts, StateFacts, StreamFacts
  <2> QED BY <1>1, <1>2, <2>1 DEF Newer, IsOld, Initial
<1>7. ASSUME a.new PROVE InUse(b, lost, held) < MaxNumberOfFrames /\ a.ts \notin Listed(b)
  <2>1. a.ts \notin Listed(b)
    BY <1>2, <1>7, ArrivalFacts
  <2>2. PICK found \in Buffers : Listed(a.b) \subseteq Listed(found) /\ Room(found)
    BY <1>7, ArrivalFacts
  <2>3. Cardinality(Listed(b)) <= Cardinality(Listed(found))
        /\ Cardinality(Listed(b)) \in Nat /\ Cardinality(Listed(found)) \in Nat
    BY <1>2, <2>2, FewerListed
  <2> QED BY <2>1, <2>2, <2>3 DEF InUse, Room
<1> QED BY <1>1, <1>2, <1>5, <1>6, <1>7 DEF b

(* The frame waits, with one buffer more in use.                            *)
LEMMA WaitingIsSound ==
  ASSUME IInv, fault = "none", NEW n \in Packets, ~IsOld(jb.last, stream[n].frame),
         NEW a, a = Arrival(n), InsertWaiting(n, a)
  PROVE  IInv'
<1> DEFINE b == Settled(a.b)
           c == [b EXCEPT !.inc = With(@, a.ts, a.frame)]
<1> USE SoundFacts
<1>1. ~a.starved /\ jb' = (IF a.new THEN c ELSE b) /\ fault' = "none"
      /\ UNCHANGED <<stream, lost, resetting, picked, held, newest>>
  BY DEF InsertWaiting, Accepted
<1>2. /\ Sound(b, lost, "none", held, picked, newest)
      /\ n <= b.latest /\ n \notin b.missing /\ ~b.fresh /\ Newer(a.ts, b.last)
      /\ a.new => InUse(b, lost, held) < MaxNumberOfFrames /\ a.ts \notin Listed(b)
  BY <1>1, ArrivalSound
<1> HIDE DEF b
<1>3. CASE ~a.new
  BY <1>1, <1>2, <1>3, InvariantAfter DEF IInv
<1>4. CASE a.new
  <2>1. a.frame \in FramesAt(a.ts) /\ Parts(a.frame) = {n} /\ a.ts \in Timestamps /\ a.ts \notin Listed(b)
    BY <1>2, <1>4, ArrivalFacts
  <2>2. b \in Buffers /\ Accounted(b)
    BY <1>2 DEF Sound
  <2> DEFINE l == With(b.inc, a.ts, a.frame)
  <2>3. l \in Lists /\ DOMAIN l = DOMAIN b.inc \cup {a.ts} /\ l[a.ts] = a.frame
        /\ \A u \in DOMAIN b.inc \ {a.ts} : l[u] = b.inc[u]
    <3>1. b.inc \in Lists
      BY <2>2, BufferFacts
    <3>2. l \in Lists /\ DOMAIN l = DOMAIN b.inc \cup {a.ts}
      BY <2>1, <3>1, ListWith
    <3>3. l[a.ts] = a.frame /\ \A u \in DOMAIN b.inc \ {a.ts} : l[u] = b.inc[u]
      BY DEF With
    <3> QED BY <3>2, <3>3
  <2> HIDE DEF l
  <2>4. /\ c \in AnyBuffer /\ c.dec = b.dec /\ c.inc = l /\ c.last = b.last /\ c.missing = b.missing
        /\ c.latest = b.latest /\ c.fresh = b.fresh /\ c.nack = b.nack
    <3>1. c = [b EXCEPT !.inc = l]
      BY DEF l
    <3> HIDE DEF c
    <3> QED BY <2>2, <2>3, <3>1, BufferFacts DEF AnyBuffer
  <2> HIDE DEF c
  <2>5. c \in Buffers /\ Listed(c) = Listed(b) \cup {a.ts}
    BY <2>1, <2>2, <2>3, <2>4, BufferFacts DEF Buffers, Listed
  <2>6. Numbers(c) \subseteq Numbers(b) \cup {n}
    <3> SUFFICES ASSUME NEW k \in Numbers(c) PROVE k \in Numbers(b) \cup {n}
      OBVIOUS
    <3>1. PICK u \in Listed(c) : k \in Parts(FrameOf(c, u))
      BY DEF Numbers
    <3>2. CASE u = a.ts
      BY <2>1, <2>3, <2>4, <3>1, <3>2 DEF FrameOf
    <3>3. CASE u # a.ts
      <4>1. u \in Listed(b) /\ FrameOf(c, u) = FrameOf(b, u)
        BY <2>3, <2>4, <2>5, <3>3 DEF FrameOf
      <4> QED BY <3>1, <4>1 DEF Numbers
    <3> QED BY <3>2, <3>3
  <2>7. Accounted(c)
    BY <1>2, <2>2, <2>4, <2>6 DEF Accounted
  <2>8. InUse(c, lost, held) <= MaxNumberOfFrames
    <3>1. Cardinality(Listed(c)) <= Cardinality(Listed(b)) + 1
          /\ Cardinality(Listed(c)) \in Nat /\ Cardinality(Listed(b)) \in Nat
      BY <2>2, <2>5, FewerListed
    <3> QED BY <1>2, <1>4, <3>1 DEF InUse
  <2>9. picked \in Listed(c) => Newer(picked, c.last)
    BY <1>2, <2>4, <2>5 DEF Sound
  <2>10. Sound(c, lost, "none", held, picked, newest)
    BY <1>2, <2>4, <2>5, <2>7, <2>8, <2>9 DEF Sound
  <2> QED BY <1>1, <1>4, <2>10, InvariantAfter DEF IInv
<1> QED BY <1>3, <1>4

(* An empty frame that was next is dropped; a frame that is in a list then  *)
(* is in use twice, and nothing is said of what comes.                      *)
LEMMA EmptyIsSound ==
  ASSUME IInv, fault = "none", NEW n \in Packets, ~IsOld(jb.last, stream[n].frame),
         NEW a, a = Arrival(n), InsertEmpty(n, a)
  PROVE  IInv'
<1> DEFINE b == Settled(a.b)
           r == StateAfterEmpty(a.frame, a.ts, b.last)
           c == [b EXCEPT !.last = StateAfterEmpty(a.frame, a.ts, @)]
<1> USE SoundFacts
<1>1. /\ ~a.starved /\ jb' = c /\ fault' = (IF a.new THEN "none" ELSE "aliased")
      /\ UNCHANGED <<stream, lost, resetting, picked, held, newest>>
      /\ IsEmptyState(a.frame) /\ CanDropEmpty(a.frame, a.b.last)
  BY DEF InsertEmpty, Accepted, DropsEmpty
<1>2. /\ Sound(b, lost, "none", held, picked, newest)
      /\ a.new => a.ts \notin Listed(b)
  BY <1>1, ArrivalSound
<1>3. b.last = a.b.last /\ b \in Buffers /\ Accounted(b) /\ b.last \in States
  <2>1. a.b \in Buffers
    BY ArrivalFacts
  <2> QED BY <1>2, <2>1, SettledFacts, BufferFacts DEF Sound
<1> HIDE DEF b
<1>4. CASE a.frame \in FramesAt(a.ts)
  <2>1. /\ r \in States
        /\ \A x \in Nat : Behind(b.last, x) => Behind(r, x)
        /\ \A u \in Timestamps \ {a.ts} : Newer(u, b.last) => Newer(u, r)
    BY <1>1, <1>3, <1>4, EmptyDropped DEF IsEmptyState
  <2> HIDE DEF r
  <2>2. /\ c \in AnyBuffer /\ c.dec = b.dec /\ c.inc = b.inc /\ c.last = r /\ c.missing = b.missing
        /\ c.latest = b.latest /\ c.fresh = b.fresh /\ c.nack = b.nack
    <3>1. c = [b EXCEPT !.last = r]
      BY DEF r
    <3> HIDE DEF c
    <3> QED BY <1>3, <2>1, <3>1, BufferFacts DEF AnyBuffer
  <2> HIDE DEF c
  <2>3. c \in Buffers /\ Listed(c) = Listed(b) /\ Numbers(c) = Numbers(b)
    BY <1>3, <2>2, BufferFacts DEF Buffers, Listed, Numbers, FrameOf
  <2>4. Accounted(c)
    BY <1>3, <2>2, <2>3 DEF Accounted
  <2>5. a.new /\ picked \in Listed(c) => Newer(picked, r)
    BY <1>2, <1>3, <2>1, <2>3, BufferFacts DEF Sound
  <2>6. Sound(c, lost, fault', held, picked, newest)
    BY <1>1, <1>2, <2>1, <2>2, <2>3, <2>4, <2>5 DEF Sound, InUse
  <2> QED BY <1>1, <2>6, InvariantAfter DEF IInv
<1>5. CASE a.frame \notin FramesAt(a.ts)
  <2>1. a.frame = EmptyFrame /\ ~a.new
    BY <1>5, ArrivalFacts
  <2>2. LowSequenceNumber(EmptyFrame) = -1 /\ HighSequenceNumber(EmptyFrame) = -1
        /\ EmptyFrame.kind = "delta"
    BY DEF LowSequenceNumber, HighSequenceNumber, EmptyFrame
  <2>3. b.last.initial
    <3>1. b.last.seq \in Nat
      BY <1>3, StateFacts
    <3> QED BY <1>1, <1>3, <2>1, <2>2, <3>1 DEF CanDropEmpty, ContinuousFrame
  <2>4. c = b
    <3>1. c = [b EXCEPT !.last = b.last]
      BY <2>3 DEF StateAfterEmpty
    <3> QED BY <1>3, <3>1, BufferFacts DEF AnyBuffer
  <2> HIDE DEF c
  <2>5. Sound(c, lost, "aliased", held, picked, newest)
    BY <1>2, <2>4 DEF Sound
  <2> QED BY <1>1, <2>1, <2>5, InvariantAfter DEF IInv
<1> QED BY <1>4, <1>5

(* A continuous frame gets decodable.  It follows the frame decoded last, or*)
(* a decodable one.                                                         *)
LEMMA ContinuousIsSound ==
  ASSUME IInv, fault = "none", NEW n \in Packets, ~IsOld(jb.last, stream[n].frame),
         NEW a, a = Arrival(n), InsertContinuous(n, a)
  PROVE  IInv'
<1> DEFINE b == Settled(a.b)
           t == a.ts
           f == a.frame
           c == InsertDecodable(b, f, t)
<1> USE SoundFacts
<1>1. /\ ~a.starved /\ jb' = c /\ fault' = "none"
      /\ UNCHANGED <<stream, lost, resetting, picked, held, newest>>
      /\ ~a.before.complete /\ IsContinuous(a.b, f, t)
  BY DEF InsertContinuous, Accepted
<1>2. /\ Sound(b, lost, "none", held, picked, newest)
      /\ n <= b.latest /\ n \notin b.missing /\ ~b.fresh /\ Newer(t, b.last)
      /\ a.new => InUse(b, lost, held) < MaxNumberOfFrames /\ t \notin Listed(b)
  BY <1>1, ArrivalSound
<1>3. a.b \in Buffers /\ b.dec = a.b.dec /\ b.last = a.b.last /\ Numbers(b) = Numbers(a.b)
      /\ Listed(b) = Listed(a.b)
  BY ArrivalFacts, SettledFacts
<1>4. b \in Buffers /\ Accounted(b)
  BY <1>2 DEF Sound
<1> HIDE DEF b
<1>5. /\ f.complete /\ f \in FramesAt(t) /\ t \in Timestamps /\ Parts(f) \subseteq Numbers(b) \cup {n}
      /\ a.new \/ t \in Listed(b)
  <2>1. f.complete
    BY <1>1 DEF IsContinuous, IsContinuousInState
  <2>2. ~EmptyFrame.complete
    BY DEF EmptyFrame
  <2> QED BY <1>3, <2>1, <2>2, ArrivalFacts
<1>6. t \notin DOMAIN b.dec
  BY <1>1, <1>3, ArrivalFacts
<1>7. ASSUME f.kind = "delta", t > newest
      PROVE  Between(newest, t) \/ \E u \in DOMAIN b.dec : u < t /\ Between(u, t)
  <2>1. CASE IsContinuousInState(f, b.last)
    <3>1. ~b.last.initial /\ LowSequenceNumber(f) = b.last.seq + 1
      BY <1>7, <2>1 DEF IsContinuousInState, ContinuousFrame
    <3>2. Between(b.last.ts, t) /\ b.last.ts \in Nat
      BY <1>4, <1>5, <3>1, NextFrame, StateFacts, BufferFacts
    <3>3. Between(newest, b.last.ts + 1)
      BY <1>2, <3>1 DEF Sound, Behind
    <3>4. ASSUME NEW k \in Packets, stream[k].frame \in newest + 1 .. t - 1 PROVE stream[k].kind = "empty"
      <4>1. stream[k].frame \in Nat /\ t \in Nat
        BY <1>5, StreamFacts
      <4>2. \/ stream[k].frame \in newest + 1 .. (b.last.ts + 1) - 1
            \/ stream[k].frame \in b.last.ts + 1 .. t - 1
        BY <3>2, <3>4, <4>1
      <4> QED BY <3>2, <3>3, <4>2 DEF Between
    <3> QED BY <3>4 DEF Between
  <2>2. CASE \E u \in DOMAIN b.dec : u <= t /\ IsContinuousInState(f, StateAfter(b.dec[u], u))
    <3>1. PICK u \in DOMAIN b.dec : u <= t /\ IsContinuousInState(f, StateAfter(b.dec[u], u))
      BY <2>2
    <3>2. b.dec[u] \in FramesAt(u) /\ u \in Nat /\ t \in Nat
      BY <1>4, <1>5, BufferFacts, ListFacts, StreamFacts
    <3>3. LowSequenceNumber(f) = StateAfter(b.dec[u], u).seq + 1
      BY <1>7, <3>1 DEF IsContinuousInState, ContinuousFrame
    <3>4. StateAfter(b.dec[u], u) \in States /\ ~StateAfter(b.dec[u], u).initial /\ StateAfter(b.dec[u], u).ts = u
      BY <3>2, StateAfterFacts
    <3>5. Between(u, t)
      BY <1>5, <3>3, <3>4, NextFrame
    <3> QED BY <1>6, <3>1, <3>2, <3>5
  <2> QED BY <1>1, <1>3, <2>1, <2>2 DEF IsContinuous
<1>8. /\ c \in Buffers /\ Listed(c) = Listed(b) \cup {t}
      /\ Numbers(c) \subseteq Numbers(b) \cup Parts(f)
      /\ c.last = b.last /\ c.missing = b.missing /\ c.latest = b.latest
      /\ c.fresh = b.fresh /\ c.nack = b.nack
      /\ Chained(b.dec, newest) => Chained(c.dec, newest)
  <2> HIDE DEF f, t
  <2> QED BY <1>4, <1>5, <1>6, <1>7, DecodableInserted
<1> HIDE DEF c
<1>9. Accounted(c)
  <2>1. Numbers(c) \subseteq Numbers(b) \cup {n}
    BY <1>5, <1>8
  <2> QED BY <1>2, <1>4, <1>8, <2>1 DEF Accounted
<1>10. InUse(c, lost, held) <= MaxNumberOfFrames
  <2>1. /\ Cardinality(Listed(c)) <= Cardinality(Listed(b)) + 1
        /\ Cardinality(Listed(c)) \in Nat /\ Cardinality(Listed(b)) \in Nat
        /\ Listed(c) \subseteq Listed(b) => Cardinality(Listed(c)) <= Cardinality(Listed(b))
    BY <1>4, <1>8, FewerListed
  <2>2. CASE a.new
    BY <1>2, <2>1, <2>2 DEF InUse
  <2>3. CASE t \in Listed(b)
    <3>1. Listed(c) \subseteq Listed(b)
      BY <1>8, <2>3
    <3> QED BY <1>2, <2>1, <3>1 DEF InUse, Sound
  <2> QED BY <1>5, <2>2, <2>3
<1>11. picked \in Listed(c) => Newer(picked, c.last)
  BY <1>2, <1>8 DEF Sound
<1>12. Sound(c, lost, "none", held, picked, newest)
  BY <1>2, <1>8, <1>9, <1>10, <1>11 DEF Sound, Behind
<1> QED BY <1>1, <1>12, InvariantAfter DEF IInv

(* A packet that needs a key frame: its frame may be lost.                  *)
LEMMA FlushIsSound ==
  ASSUME IInv, fault = "none", NEW n \in Packets, ~IsOld(jb.last, stream[n].frame),
         NEW a, a = Arrival(n), InsertAndFlush(n, a)
  PROVE  IInv'
<1> DEFINE b == Settled(a.b)
           l == IF a.new THEN lost + 1 ELSE lost
<1> USE SoundFacts
<1>1. /\ ~a.starved /\ jb' = b /\ lost' = l /\ resetting' = TRUE
      /\ UNCHANGED <<stream, fault, picked, held, newest>>
  BY DEF InsertAndFlush
<1>2. /\ Sound(b, lost, "none", held, picked, newest)
      /\ a.new => InUse(b, lost, held) < MaxNumberOfFrames
  BY <1>1, ArrivalSound
<1>3. b \in Buffers /\ Cardinality(Listed(b)) \in Nat
  BY <1>2, ListedIsFinite DEF Sound
<1> HIDE DEF b
<1>4. l \in 0 .. MaxNumberOfFrames /\ InUse(b, l, held) <= MaxNumberOfFrames
  <2>1. CASE a.new
    BY <1>2, <1>3, <2>1 DEF InUse
  <2>2. CASE ~a.new
    BY <1>2, <2>2 DEF Sound
  <2> QED BY <2>1, <2>2
<1> HIDE DEF l
<1>5. Sound(b, l, "none", held, picked, newest)
  BY <1>2, <1>4 DEF Sound
<1> QED BY <1>1, <1>5, InvariantAfter DEF IInv

LEMMA NewPacketIsSound ==
  ASSUME IInv, NEW n \in Packets, InsertNewPacket(n)
  PROVE  IInv'
<1>1. fault = "none" /\ ~IsOld(jb.last, stream[n].frame)
  BY DEF InsertNewPacket
<1>2. PICK a : /\ a = Arrival(n)
               /\ \/ NoBufferLeft(a) \/ InsertAndFlush(n, a)
                  \/ InsertContinuous(n, a) \/ InsertEmpty(n, a) \/ InsertWaiting(n, a)
  BY DEF InsertNewPacket
<1>3. CASE NoBufferLeft(a)
  <2>1. Sound(jb, lost, "starved", held, picked, newest)
    BY DEF IInv, Sound
  <2> QED BY <1>3, <2>1, SoundFacts, InvariantAfter DEF NoBufferLeft, IInv
<1> QED BY <1>1, <1>2, <1>3, FlushIsSound, ContinuousIsSound, EmptyIsSound, WaitingIsSound

(* Nothing is left after Flush.                                             *)
LEMMA Flushed ==
  ASSUME stream \in Streams, NEW b \in Buffers
  PROVE  LET c == Flush(b) IN
         /\ c \in Buffers /\ Accounted(c) /\ Listed(c) = {} /\ c.last = Initial
         /\ c.dec = NoFrames /\ c.inc = NoFrames /\ c.missing = {}
<1> DEFINE c == Flush(b)
<1>1. /\ c \in AnyBuffer /\ c.dec = NoFrames /\ c.inc = NoFrames /\ c.last = Initial
      /\ c.missing = {} /\ c.fresh = TRUE /\ c.latest = b.latest
  <2> DEFINE d == [b EXCEPT !.dec = NoFrames]
             e == [d EXCEPT !.inc = NoFrames]
             f == [e EXCEPT !.last = Initial]
             g == [f EXCEPT !.old = 0]
             h == [g EXCEPT !.fresh = TRUE]
  <2>1. c = [h EXCEPT !.missing = {}]
    BY DEF Flush
  <2>2. NoFrames \in Lists /\ Initial \in States /\ 0 \in 0 .. MaxOldPackets /\ {} \in SUBSET Packets
    BY NoFramesIsList, JitterBufferAssumption DEF States
  <2>3. d \in AnyBuffer /\ d.dec = NoFrames /\ d.latest = b.latest
    BY <2>2, BufferFacts DEF AnyBuffer
  <2> HIDE DEF c, d
  <2>4. e \in AnyBuffer /\ e.dec = NoFrames /\ e.inc = NoFrames /\ e.latest = b.latest
    BY <2>2, <2>3 DEF AnyBuffer
  <2> HIDE DEF e
  <2>5. f \in AnyBuffer /\ f.dec = NoFrames /\ f.inc = NoFrames /\ f.last = Initial /\ f.latest = b.latest
    BY <2>2, <2>4 DEF AnyBuffer
  <2> HIDE DEF f
  <2>6. g \in AnyBuffer /\ g.dec = NoFrames /\ g.inc = NoFrames /\ g.last = Initial /\ g.latest = b.latest
    BY <2>2, <2>5 DEF AnyBuffer
  <2> HIDE DEF g
  <2>7. /\ h \in AnyBuffer /\ h.dec = NoFrames /\ h.inc = NoFrames /\ h.last = Initial
        /\ h.latest = b.latest /\ h.fresh = TRUE
    BY <2>6 DEF AnyBuffer
  <2> HIDE DEF h
  <2> QED BY <2>1, <2>2, <2>7 DEF AnyBuffer
<1> HIDE DEF c
<1>2. DOMAIN NoFrames = {}
  BY NoFramesIsList
<1>3. c \in Buffers /\ Listed(c) = {}
  BY <1>1, <1>2 DEF Buffers, Listed
<1>4. Accounted(c)
  <2>1. Numbers(c) = {}
    BY <1>3 DEF Numbers
  <2>2. Cardinality({}) = 0
    BY FS_EmptySet
  <2> QED BY <1>1, <1>3, <2>1, <2>2, JitterBufferAssumption DEF Accounted
<1> QED BY <1>1, <1>3, <1>4 DEF c

\* What is in use apart from the lists.
LEMMA FlushedIsSound ==
  ASSUME stream \in Streams, NEW b \in Buffers, NEW l, NEW h, NEW p, NEW x,
         Sound(b, l, "none", h, p, x)
  PROVE  Sound(Flush(b), l, "none", h, p, x)
<1> DEFINE c == Flush(b)
<1>1. /\ c \in Buffers /\ Accounted(c) /\ Listed(c) = {} /\ c.last = Initial
      /\ c.dec = NoFrames
  BY Flushed
<1> HIDE DEF c
<1>2. Chained(c.dec, x)
  BY <1>1, NoFramesIsList DEF Chained
<1>3. Behind(c.last, x)
  BY <1>1 DEF Behind, Initial
<1>4. InUse(c, l, h) <= MaxNumberOfFrames
  <2>1. Cardinality(Listed(c)) <= Cardinality(Listed(b))
        /\ Cardinality(Listed(b)) \in Nat /\ Cardinality(Listed(c)) \in Nat
    BY <1>1, FewerListed
  <2> QED BY <2>1, JitterBufferAssumption DEF Sound, InUse
<1>5. Sound(c, l, "none", h, p, x)
  BY <1>1, <1>2, <1>3, <1>4 DEF Sound
<1> QED BY <1>5 DEF c

(* A buffer with no more frames, and a state the others still are newer than*)
LEMMA LessIsSound ==
  ASSUME stream \in Streams, NEW b, NEW c \in Buffers, NEW l, NEW h, NEW p, NEW x,
         Sound(b, l, "none", h, p, x), Accounted(c), Listed(c) \subseteq Listed(b),
         Chained(c.dec, x), Behind(c.last, x), p \in Listed(c) => Newer(p, c.last)
  PROVE  Sound(c, l, "none", h, p, x)
<1>1. InUse(c, l, h) <= MaxNumberOfFrames
  <2>1. Cardinality(Listed(c)) <= Cardinality(Listed(b))
        /\ Cardinality(Listed(b)) \in Nat /\ Cardinality(Listed(c)) \in Nat
    BY FewerListed DEF Sound
  <2> QED BY <2>1, JitterBufferAssumption DEF Sound, InUse
<1> QED BY <1>1 DEF Sound

(* Frames recycled, numbers dropped.                                        *)
LEMMA RecycledIsSound ==
  ASSUME stream \in Streams, NEW b, NEW c \in Buffers, NEW l, NEW h, NEW p, NEW x,
         Sound(b, l, "none", h, p, x), Recycled(c, b)
  PROVE  Sound(c, l, "none", h, p, x)
<1>1. b \in Buffers /\ Accounted(b) /\ x \in Nat
  BY StreamFacts DEF Sound
<1>2. Accounted(c) /\ Listed(c) \subseteq Listed(b)
  BY <1>1, RecycledIsAccounted, KeptNumbers DEF Recycled
<1>3. Chained(c.dec, x) /\ c.last \in {b.last, Initial}
  BY <1>1 DEF Recycled, Kept, Sound
<1>4. Behind(c.last, x) /\ (p \in Listed(c) => Newer(p, c.last))
  BY <1>2, <1>3 DEF Sound, Behind, Newer, Initial
<1> QED BY <1>2, <1>3, <1>4, LessIsSound

(* A packet of a frame decoded already.                                     *)
LEMMA OldPacketIsSound ==
  ASSUME IInv, NEW n \in Packets, InsertOldPacket(n)
  PROVE  IInv'
<1> DEFINE s == UpdateOldPacket(jb.last, n)
           d == [jb EXCEPT !.last = UpdateOldPacket(@, n)]
           b == DropPackets(d, s.seq)
           old == IF stream[n].kind = "empty" THEN jb.old ELSE jb.old + 1
           e == [b EXCEPT !.old = old]
<1> USE SoundFacts
<1>1. /\ fault = "none" /\ ~jb.last.initial
      /\ jb' = (IF old > MaxOldPackets THEN Flush(b) ELSE e)
      /\ resetting' \in BOOLEAN
      /\ UNCHANGED <<stream, lost, fault, picked, held, newest>>
  BY DEF InsertOldPacket, IsOld
<1>2. s \in States /\ s.initial = jb.last.initial /\ s.ts = jb.last.ts
  <2>1. PICK m \in Packets : jb.last = [initial |-> FALSE, seq |-> m, ts |-> stream[m].frame]
    <3>1. jb.last \in States /\ jb.last # Initial
      BY <1>1, BufferFacts DEF Initial
    <3> QED BY <3>1 DEF States
  <2>2. CASE stream[n].frame = jb.last.ts /\ n > jb.last.seq
    <3>1. s = [jb.last EXCEPT !.seq = n]
      BY <2>2 DEF UpdateOldPacket
    <3> DEFINE ts == stream[m].frame
    <3>2. s = [initial |-> FALSE, seq |-> n, ts |-> ts]
      <4>1. jb.last = [initial |-> FALSE, seq |-> m, ts |-> ts]
        BY <2>1
      <4>2. s = [[initial |-> FALSE, seq |-> m, ts |-> ts] EXCEPT !.seq = n]
        BY <3>1, <4>1
      <4> HIDE DEF s, ts
      <4> QED BY <4>2
    <3>3. ts = stream[n].frame /\ jb.last.ts = ts /\ jb.last.initial = FALSE
      BY <2>1, <2>2
    <3> HIDE DEF s, ts
    <3> QED BY <3>2, <3>3 DEF States
  <2>3. CASE ~(stream[n].frame = jb.last.ts /\ n > jb.last.seq)
    <3>1. s = jb.last
      BY <2>3 DEF UpdateOldPacket
    <3> HIDE DEF s
    <3> QED BY <3>1, BufferFacts
  <2> QED BY <2>2, <2>3
<1>3. /\ b \in AnyBuffer /\ b.dec = jb.dec /\ b.inc = jb.inc /\ b.last = s
      /\ b.missing \subseteq jb.missing /\ b.latest = jb.latest /\ b.fresh = jb.fresh
      /\ b.nack = jb.nack /\ b.old = jb.old
  <2>1. d = [jb EXCEPT !.last = s]
    OBVIOUS
  <2> HIDE DEF s, d
  <2>2. /\ d \in AnyBuffer /\ d.dec = jb.dec /\ d.inc = jb.inc /\ d.last = s
        /\ d.missing = jb.missing /\ d.latest = jb.latest /\ d.fresh = jb.fresh
        /\ d.nack = jb.nack /\ d.old = jb.old
    BY <1>2, <2>1, BufferFacts DEF AnyBuffer
  <2>3. b = [d EXCEPT !.missing = {k \in @ : k > s.seq}]
    BY DEF DropPackets
  <2> HIDE DEF b
  <2> QED BY <2>2, <2>3 DEF AnyBuffer
<1> HIDE DEF s, b
<1>4. b \in Buffers /\ Listed(b) = Listed(jb) /\ Numbers(b) = Numbers(jb)
  BY <1>3, BufferFacts DEF Buffers, Listed, Numbers, FrameOf
<1>5. Sound(jb, lost, "none", held, picked, newest)
  BY <1>1 DEF IInv
<1>6. Sound(b, lost, "none", held, picked, newest)
  <2>1. Accounted(b)
    BY <1>3, <1>4, LessIsAccounted
  <2>2. Chained(b.dec, newest) /\ Behind(b.last, newest)
    BY <1>2, <1>3, <1>5 DEF Sound, Behind
  <2>3. picked \in Listed(b) => Newer(picked, b.last)
    BY <1>2, <1>3, <1>4, <1>5 DEF Sound, Newer
  <2> QED BY <1>4, <1>5, <2>1, <2>2, <2>3, LessIsSound
<1>7. CASE old > MaxOldPackets
  <2>1. Sound(Flush(b), lost, "none", held, picked, newest)
    BY <1>4, <1>6, FlushedIsSound
  <2> QED BY <1>1, <1>7, <2>1, InvariantAfter
<1>8. CASE ~(old > MaxOldPackets)
  <2>1. old \in 0 .. MaxOldPackets
    BY <1>8, BufferFacts, JitterBufferAssumption
  <2> HIDE DEF old
  <2>2. /\ e \in AnyBuffer /\ e.dec = b.dec /\ e.inc = b.inc /\ e.last = b.last
        /\ e.missing = b.missing /\ e.latest = b.latest /\ e.fresh = b.fresh /\ e.nack = b.nack
    BY <1>3, <2>1 DEF AnyBuffer
  <2> HIDE DEF e
  <2>3. e \in Buffers /\ Listed(e) = Listed(b) /\ Numbers(e) = Numbers(b)
    BY <1>4, <2>2, BufferFacts DEF Buffers, Listed, Numbers, FrameOf
  <2>4. Accounted(e)
    BY <1>6, <2>2, <2>3 DEF Accounted, Sound
  <2>5. Sound(e, lost, "none", held, picked, newest)
    BY <1>6, <2>2, <2>3, <2>4 DEF Sound, InUse
  <2> QED BY <1>1, <1>8, <2>5, InvariantAfter
<1> QED BY <1>7, <1>8

(***************************************************************************)
(* The decode thread                                                        *)
(***************************************************************************)
(* A decodable frame that is taken next follows the newest one.             *)
LEMMA PickedFollows ==
  ASSUME stream \in Streams, NEW b \in Buffers, b.dec # NoFrames, NEW x \in Nat, Chained(b.dec, x)
  PROVE  Follows(Oldest(b.dec), x) /\ Oldest(b.dec) \in Timestamps
<1> DEFINE t == Oldest(b.dec)
           f == b.dec[t]
<1>1. b.dec \in Lists /\ t \in DOMAIN b.dec /\ (\A u \in DOMAIN b.dec : t <= u) /\ DOMAIN b.dec \subseteq Timestamps
  BY BufferFacts, OldestOf
<1> HIDE DEF t
<1>2. f \in FramesAt(t) /\ f.complete /\ t \in Nat
  BY <1>1, BufferFacts, ListFacts, StreamFacts
<1>3. ASSUME NEW n \in Packets, stream[n].frame = t, stream[n].kind = "delta"
      PROVE  t <= x \/ Between(x, t)
  <2>1. PICK k \in f.media : stream[k].frame = t /\ stream[k].kind # "empty" /\ stream[k].kind = f.kind
    BY <1>2, FrameFacts DEF FramesAt, IsFrame
  <2>2. k \in Packets
    BY <1>2, <2>1, FrameFacts DEF Parts
  <2>3. f.kind = "delta"
    BY <1>3, <2>1, <2>2, OneKind
  <2>4. ~\E u \in DOMAIN b.dec : u < t
    BY <1>1, <1>2, StreamFacts
  <2> QED BY <1>1, <1>2, <2>3, <2>4 DEF Chained
<1> QED BY <1>1, <1>3 DEF Follows, t

LEMMA CleanedUpIsSound ==
  ASSUME IInv, fault = "none"
  PROVE  LET b == CleanUpOldOrEmptyFrames(jb) IN
         /\ Sound(b, lost, "none", held, picked, newest)
         /\ \A u \in DOMAIN b.dec : Newer(u, b.last)
<1> DEFINE b == CleanUpOldOrEmptyFrames(jb)
<1> USE SoundFacts
<1>1. Sound(jb, lost, "none", held, picked, newest)
  BY DEF IInv
<1>2. /\ b \in Buffers /\ Accounted(b) /\ Listed(b) \subseteq Listed(jb)
      /\ \A x \in Nat : Behind(jb.last, x) => Behind(b.last, x)
      /\ \A x \in Nat : Behind(jb.last, x) /\ Chained(jb.dec, x) => Chained(b.dec, x)
      /\ \A u \in Listed(b) : Newer(u, jb.last) => Newer(u, b.last)
      /\ \A u \in DOMAIN b.dec : Newer(u, b.last)
  BY CleanedUp
<1> HIDE DEF b
<1>3. /\ Chained(b.dec, newest) /\ Behind(b.last, newest)
      /\ picked \in Listed(b) => Newer(picked, b.last)
  BY <1>1, <1>2 DEF Sound
<1>4. Sound(b, lost, "none", held, picked, newest)
  BY <1>1, <1>2, <1>3, LessIsSound
<1> QED BY <1>2, <1>4 DEF b

LEMMA PickIsSound ==
  ASSUME IInv, NextCompleteTimestamp
  PROVE  IInv'
<1> DEFINE b == CleanUpOldOrEmptyFrames(jb)
           p == IF b.dec = NoFrames THEN 0 ELSE Oldest(b.dec)
<1> USE SoundFacts
<1>1. /\ fault = "none" /\ held = NoHeld /\ jb' = b /\ picked' = p
      /\ UNCHANGED <<stream, lost, fault, resetting, held, newest>>
  BY DEF NextCompleteTimestamp
<1>2. /\ Sound(b, lost, "none", held, picked, newest)
      /\ \A u \in DOMAIN b.dec : Newer(u, b.last)
  BY <1>1, CleanedUpIsSound
<1> HIDE DEF b
<1>3. /\ p \in Timestamps \cup {0}
      /\ p # 0 => Follows(p, newest)
      /\ p \in Listed(b) => Newer(p, b.last)
  <2>1. CASE b.dec = NoFrames
    <3>1. p = 0 /\ 0 \notin Listed(b)
      BY <1>2, <2>1, BufferFacts, StreamFacts DEF Sound
    <3> HIDE DEF p
    <3> QED BY <3>1
  <2>2. CASE b.dec # NoFrames
    <3>1. p = Oldest(b.dec)
      BY <2>2
    <3>2. Follows(Oldest(b.dec), newest) /\ Oldest(b.dec) \in Timestamps
      BY <1>2, <2>2, PickedFollows DEF Sound
    <3>3. Oldest(b.dec) \in DOMAIN b.dec
      BY <1>2, <2>2, OldestOf, BufferFacts DEF Sound
    <3> HIDE DEF p
    <3> QED BY <1>2, <3>1, <3>2, <3>3
  <2> QED BY <2>1, <2>2
<1> HIDE DEF p
<1>4. Sound(b, lost, "none", held, p, newest)
  BY <1>1, <1>2, <1>3 DEF Sound
<1> QED BY <1>1, <1>4, InvariantAfter DEF IInv

LEMMA NothingPicked ==
  ASSUME stream \in Streams, NEW b, NEW l, NEW h, NEW p, NEW x, Sound(b, l, "none", h, p, x)
  PROVE  Sound(b, l, "none", h, 0, x)
<1>1. 0 \notin Listed(b)
  BY BufferFacts, StreamFacts DEF Sound
<1> QED BY <1>1 DEF Sound

LEMMA NotDueIsSound ==
  ASSUME IInv, NotDueYet
  PROVE  IInv'
<1>1. Sound(jb, lost, "none", held, picked, newest)
  BY DEF IInv, NotDueYet
<1>2. Sound(jb, lost, "none", held, 0, newest)
  BY <1>1, SoundFacts, NothingPicked
<1> QED BY <1>2, SoundFacts, InvariantAfter DEF NotDueYet, IInv

LEMMA TimingErrorIsSound ==
  ASSUME IInv, TimingError
  PROVE  IInv'
<1>1. Sound(jb, lost, "none", held, picked, newest)
  BY DEF IInv, TimingError
<1>2. Sound(Flush(jb), lost, "none", held, 0, newest)
  BY <1>1, SoundFacts, NothingPicked, FlushedIsSound
<1> QED BY <1>2, SoundFacts, InvariantAfter DEF TimingError, IInv

(* The list without the frame that is taken.                                *)
LEMMA WithoutFacts ==
  ASSUME NEW l \in Lists, NEW t
  PROVE  /\ Without(l, t) \in Lists /\ DOMAIN Without(l, t) = DOMAIN l \ {t}
         /\ \A u \in DOMAIN l \ {t} : Without(l, t)[u] = l[u]
<1> DEFINE D == DOMAIN l \ {t}
<1>1. D \in SUBSET DOMAIN l
  OBVIOUS
<1> HIDE DEF D
<1>2. Restrict(l, D) \in Lists /\ DOMAIN Restrict(l, D) = D /\ \A u \in D : Restrict(l, D)[u] = l[u]
  BY <1>1, RestrictedList
<1> QED BY <1>2 DEF Without, D

(* Of what is left a frame that followed the frame taken follows the newest.*)
LEMMA ChainAfter ==
  ASSUME stream \in Streams, NEW dec \in Lists, NEW t \in Nat, NEW x \in Nat, NEW y \in Nat,
         Chained(dec, x), x <= y, t <= y
  PROVE  Chained(Without(dec, t), y)
<1>1. /\ DOMAIN Without(dec, t) = DOMAIN dec \ {t}
      /\ \A u \in DOMAIN dec \ {t} : Without(dec, t)[u] = dec[u]
  BY WithoutFacts
<1> SUFFICES ASSUME NEW u \in DOMAIN dec \ {t}, dec[u].kind = "delta", u > y
             PROVE  Between(y, u) \/ \E w \in DOMAIN dec \ {t} : w < u /\ Between(w, u)
  BY <1>1 DEF Chained
<1>2. u \in Nat
  BY ListFacts, StreamFacts
<1>3. ASSUME NEW v \in Nat, v <= y, Between(v, u) PROVE Between(y, u)
  <2> SUFFICES ASSUME NEW n \in Packets, stream[n].frame \in y + 1 .. u - 1
               PROVE  stream[n].kind = "empty"
    BY DEF Between
  <2>1. stream[n].frame \in v + 1 .. u - 1
    BY <1>2, <1>3, StreamFacts
  <2> QED BY <1>3, <2>1 DEF Between
<1>4. Between(x, u) \/ \E w \in DOMAIN dec : w < u /\ Between(w, u)
  BY <1>2 DEF Chained
<1> QED BY <1>3, <1>4

(* The frame picked is taken, if it is still there.                         *)
LEMMA ExtractIsSound ==
  ASSUME IInv, ExtractAndSetDecode
  PROVE  IInv'
<1> USE SoundFacts
<1>1. /\ fault = "none" /\ picked # 0 /\ picked' = 0
      /\ UNCHANGED <<stream, lost, fault, resetting>>
  BY DEF ExtractAndSetDecode
<1>2. Sound(jb, lost, "none", held, picked, newest)
  BY <1>1 DEF IInv
<1>3. CASE picked \notin Listed(jb)
  <2>1. UNCHANGED <<jb, held, newest>>
    BY <1>3 DEF ExtractAndSetDecode
  <2>2. Sound(jb, lost, "none", held, 0, newest)
    BY <1>2, NothingPicked
  <2> QED BY <1>1, <2>1, <2>2, InvariantAfter DEF IInv
<1>4. CASE picked \in Listed(jb)
  <2> DEFINE f == IF picked \in DOMAIN jb.dec THEN jb.dec[picked] ELSE jb.inc[picked]
             r == StateAfter(f, picked)
             dec == Without(jb.dec, picked)
             inc == IF picked \in DOMAIN jb.dec THEN jb.inc ELSE Without(jb.inc, picked)
             b == [jb EXCEPT !.dec = dec, !.inc = inc, !.last = r]
             d == DropPackets(b, b.last.seq)
             h == [ts |-> picked, frame |-> f,
                   missing |-> picked \notin DOMAIN jb.dec /\ ~ContinuousFrame(f, jb.last)]
             x == IF picked > newest THEN picked ELSE newest
  <2>1. jb' = d /\ held' = h /\ newest' = x
    <3>1. LET g == IF picked \in DOMAIN jb.dec THEN jb.dec[picked] ELSE jb.inc[picked]
              c == [jb EXCEPT !.dec = Without(@, picked),
                              !.inc = IF picked \in DOMAIN jb.dec THEN @ ELSE Without(@, picked),
                              !.last = StateAfter(g, picked)]
          IN  /\ jb' = DropPackets(c, c.last.seq)
              /\ held' = [ts |-> picked, frame |-> g,
                          missing |-> picked \notin DOMAIN jb.dec /\ ~ContinuousFrame(g, jb.last)]
              /\ newest' = IF picked > newest THEN picked ELSE newest
      BY <1>4 DEF ExtractAndSetDecode
    <3> QED BY <3>1
  <2>2. f \in FramesAt(picked) /\ picked \in Timestamps
    BY <1>4, BufferFacts, ListFacts DEF Listed
  <2>3. r \in States /\ ~r.initial /\ r.ts = picked
    <3> HIDE DEF f
    <3> QED BY <2>2, StateAfterFacts
  <2>4. /\ dec \in Lists /\ DOMAIN dec = DOMAIN jb.dec \ {picked}
        /\ \A u \in DOMAIN dec : dec[u] = jb.dec[u]
    <3>1. jb.dec \in Lists
      BY BufferFacts
    <3>2. /\ dec \in Lists /\ DOMAIN dec = DOMAIN jb.dec \ {picked}
          /\ \A u \in DOMAIN jb.dec \ {picked} : dec[u] = jb.dec[u]
      BY <3>1, WithoutFacts
    <3> HIDE DEF dec
    <3> QED BY <3>2
  <2>5. /\ inc \in Lists /\ DOMAIN inc = DOMAIN jb.inc \ {picked}
        /\ \A u \in DOMAIN inc : inc[u] = jb.inc[u]
    <3>1. CASE picked \in DOMAIN jb.dec
      BY <3>1, BufferFacts
    <3>2. CASE picked \notin DOMAIN jb.dec
      <4>1. inc = Without(jb.inc, picked)
        BY <3>2
      <4>2. jb.inc \in Lists
        BY BufferFacts
      <4> DEFINE w == Without(jb.inc, picked)
      <4>3. /\ w \in Lists /\ DOMAIN w = DOMAIN jb.inc \ {picked}
            /\ \A u \in DOMAIN jb.inc \ {picked} : w[u] = jb.inc[u]
        BY <4>2, WithoutFacts
      <4> HIDE DEF inc, w
      <4>4. inc = w
        BY <4>1 DEF w
      <4> QED BY <4>3, <4>4
    <3> QED BY <3>1, <3>2
  <2>6. x \in Nat /\ x \in Timestamps \cup {0} /\ x >= picked /\ x >= newest
    BY <1>2, <2>2 DEF Sound
  <2>7. Chained(dec, x)
    <3>1. Chained(jb.dec, newest)
      BY <1>2 DEF Sound
    <3> HIDE DEF x
    <3> QED BY <2>6, <3>1, BufferFacts, ChainAfter
  <2>8. h.ts = picked /\ h # NoHeld
    <3>1. h.ts = picked
      OBVIOUS
    <3>2. NoHeld.ts = 0
      BY DEF NoHeld
    <3> HIDE DEF h
    <3> QED BY <1>1, <3>1, <3>2
  <2> HIDE DEF f, r, dec, inc, x, h
  <2>9. /\ d \in AnyBuffer /\ d.dec = dec /\ d.inc = inc /\ d.last = r
        /\ d.missing \subseteq jb.missing /\ d.latest = jb.latest /\ d.fresh = jb.fresh
        /\ d.nack = jb.nack
    <3> DEFINE u == [jb EXCEPT !.dec = dec]
               v == [u EXCEPT !.inc = inc]
    <3>1. /\ u \in AnyBuffer /\ u.dec = dec /\ u.missing = jb.missing /\ u.latest = jb.latest
          /\ u.fresh = jb.fresh /\ u.nack = jb.nack
      BY <2>4, BufferFacts DEF AnyBuffer
    <3>2. b = [v EXCEPT !.last = r]
      OBVIOUS
    <3> HIDE DEF u
    <3>3. /\ v \in AnyBuffer /\ v.dec = dec /\ v.inc = inc /\ v.missing = jb.missing
          /\ v.latest = jb.latest /\ v.fresh = jb.fresh /\ v.nack = jb.nack
      BY <2>5, <3>1 DEF AnyBuffer
    <3> HIDE DEF v, b
    <3>4. /\ b \in AnyBuffer /\ b.dec = dec /\ b.inc = inc /\ b.last = r /\ b.missing = jb.missing
          /\ b.latest = jb.latest /\ b.fresh = jb.fresh /\ b.nack = jb.nack
      BY <2>3, <3>2, <3>3 DEF AnyBuffer
    <3>5. d = [b EXCEPT !.missing = {k \in @ : k > b.last.seq}]
      BY DEF DropPackets
    <3> HIDE DEF d
    <3> QED BY <3>4, <3>5 DEF AnyBuffer
  <2> HIDE DEF b, d
  <2>10. d \in Buffers
    BY <2>4, <2>5, <2>9, BufferFacts DEF Buffers
  <2>11. Listed(d) = Listed(jb) \ {picked}
    BY <2>4, <2>5, <2>9 DEF Listed
  <2>12. Accounted(d)
    <3>1. \A u \in Listed(d) : FrameOf(d, u) = FrameOf(jb, u)
      BY <2>4, <2>5, <2>9, <2>11 DEF FrameOf, Listed
    <3>2. Numbers(d) \subseteq Numbers(jb)
      BY <2>11, <3>1 DEF Numbers
    <3> QED BY <2>9, <2>10, <2>11, <3>2, LessIsAccounted
  <2>13. InUse(d, lost, h) <= MaxNumberOfFrames
    <3>1. held = NoHeld /\ InUse(jb, lost, held) <= MaxNumberOfFrames
      BY <1>1, <1>2 DEF Sound
    <3>2. Cardinality(Listed(d)) = Cardinality(Listed(jb)) - 1 /\ Cardinality(Listed(jb)) \in Nat
      BY <1>4, <2>11, ListedIsFinite, FS_RemoveElement
    <3> QED BY <2>8, <3>1, <3>2 DEF InUse
  <2>14. Behind(d.last, x)
    <3>1. ASSUME NEW n \in Packets, stream[n].frame \in x + 1 .. (picked + 1) - 1 PROVE FALSE
      BY <2>6, <3>1, StreamFacts
    <3> QED BY <2>3, <2>9, <3>1 DEF Behind, Between
  <2>15. 0 \notin Listed(d)
    BY <2>10, BufferFacts, StreamFacts
  <2>16. Sound(d, lost, "none", h, 0, x)
    BY <1>2, <2>2, <2>6, <2>7, <2>8, <2>9, <2>10, <2>12, <2>13, <2>14, <2>15 DEF Sound
  <2> QED BY <1>1, <2>1, <2>16, InvariantAfter DEF IInv
<1> QED BY <1>3, <1>4

LEMMA ReleaseIsSound ==
  ASSUME IInv, ReleaseFrame
  PROVE  IInv'
<1> USE SoundFacts
<1>1. fault = "none" /\ Sound(jb, lost, "none", held, picked, newest)
  BY DEF IInv, ReleaseFrame
<1>2. InUse(jb, lost, NoHeld) <= InUse(jb, lost, held) /\ InUse(jb, lost, held) \in Int
  BY <1>1, ListedIsFinite DEF InUse
<1>3. Sound(jb, lost, "none", NoHeld, picked, newest)
  <2>1. InUse(jb, lost, NoHeld) <= MaxNumberOfFrames
    BY <1>1, <1>2, ListedIsFinite DEF Sound, InUse
  <2>2. NoHeld.ts = 0
    BY DEF NoHeld
  <2> QED BY <1>1, <2>1, <2>2 DEF Sound
<1> QED BY <1>1, <1>3, InvariantAfter DEF ReleaseFrame, IInv

(***************************************************************************)
(* The process thread and the control calls                                 *)
(***************************************************************************)
LEMMA NackListIsSound ==
  ASSUME IInv, GetNackList
  PROVE  IInv'
<1> DEFINE skip == jb.last.initial /\ ~StartsWithKeyFrame(jb)
           b == IF skip THEN RecycleFramesUntilKeyFrame(jb) ELSE jb
           c == IF skip /\ ~b.found THEN b ELSE HandleTooLargeNackList(b)
<1> USE SoundFacts
<1>1. /\ fault = "none" /\ jb' = Settled(c)
      /\ UNCHANGED <<stream, lost, fault, resetting, picked, held, newest>>
  BY DEF GetNackList
<1>2. Sound(jb, lost, "none", held, picked, newest)
  BY <1>1 DEF IInv
<1> HIDE DEF skip
<1>3. b \in Buffers /\ Recycled(b, jb)
  <2>1. RecycleFramesUntilKeyFrame(jb) \in Buffers /\ Recycled(RecycleFramesUntilKeyFrame(jb), jb)
    BY RecycledOnce
  <2> QED BY <2>1, RecycledReflexive
<1> HIDE DEF b
<1>4. c \in Buffers /\ Recycled(c, jb)
  <2>1. HandleTooLargeNackList(b) \in Buffers /\ Recycled(HandleTooLargeNackList(b), b)
    BY <1>3, TooLargeHandled
  <2>2. Recycled(HandleTooLargeNackList(b), jb)
    BY <1>3, <2>1, RecycledTransitive
  <2> QED BY <1>3, <2>1, <2>2
<1> HIDE DEF c
<1>5. Settled(c) \in Buffers /\ Recycled(Settled(c), c)
  BY <1>4, SettledIsSmaller DEF Smaller
<1>6. Recycled(Settled(c), jb)
  BY <1>4, <1>5, RecycledTransitive
<1>7. Sound(Settled(c), lost, "none", held, picked, newest)
  BY <1>2, <1>5, <1>6, RecycledIsSound
<1> QED BY <1>1, <1>7, InvariantAfter DEF IInv

LEMMA NackModeIsSound ==
  ASSUME IInv, NEW on \in NackModes, SetNackMode(on)
  PROVE  IInv'
<1> DEFINE d == [jb EXCEPT !.nack = on]
           M == IF on THEN jb.missing ELSE {}
           c == [jb EXCEPT !.nack = on, !.missing = IF on THEN @ ELSE {}]
<1> USE SoundFacts
<1>1. /\ fault = "none" /\ jb' = c
      /\ UNCHANGED <<stream, lost, fault, resetting, picked, held, newest>>
  BY DEF SetNackMode
<1>2. Sound(jb, lost, "none", held, picked, newest)
  BY <1>1 DEF IInv
<1>3. on \in BOOLEAN /\ M \in SUBSET Packets /\ M \subseteq jb.missing
  BY JitterBufferAssumption, BufferFacts
<1>4. /\ c \in AnyBuffer /\ c.dec = jb.dec /\ c.inc = jb.inc /\ c.last = jb.last
      /\ c.missing = M /\ c.latest = jb.latest /\ c.fresh = jb.fresh /\ c.nack = on
  <2>1. /\ d \in AnyBuffer /\ d.dec = jb.dec /\ d.inc = jb.inc /\ d.last = jb.last
        /\ d.missing = jb.missing /\ d.latest = jb.latest /\ d.fresh = jb.fresh /\ d.nack = on
    BY <1>3, BufferFacts DEF AnyBuffer
  <2>2. c = [d EXCEPT !.missing = IF on THEN jb.missing ELSE {}]
    OBVIOUS
  <2>3. c = [d EXCEPT !.missing = M]
    BY <2>2
  <2> HIDE DEF c, d, M
  <2> QED BY <1>3, <2>1, <2>3 DEF AnyBuffer
<1>5. ~on => M = {}
  OBVIOUS
<1> HIDE DEF c, M
<1>6. c \in Buffers /\ Listed(c) = Listed(jb) /\ Numbers(c) = Numbers(jb)
  BY <1>4, BufferFacts DEF Buffers, Listed, Numbers, FrameOf
<1>7. Accounted(c)
  <2>1. Cardinality(M) <= MaxNackListSize
    <3>1. IsFiniteSet(jb.missing) /\ Cardinality(jb.missing) \in Nat
      BY BufferFacts, MissingIsFinite
    <3>2. Cardinality(M) \in Nat /\ Cardinality(M) <= Cardinality(jb.missing)
      BY <1>3, <3>1, MissingIsFinite, FS_Subset
    <3> QED BY <3>1, <3>2, JitterBufferAssumption DEF Accounted
  <2> QED BY <1>3, <1>4, <1>5, <1>6, <2>1 DEF Accounted
<1>8. Sound(c, lost, "none", held, picked, newest)
  BY <1>2, <1>4, <1>6, <1>7 DEF Sound, InUse
<1> QED BY <1>1, <1>8, InvariantAfter DEF IInv

LEMMA RenderBufferIsSound ==
  ASSUME IInv, RenderBufferSize
  PROVE  IInv'
<1>1. /\ fault = "none" /\ jb' = CleanUpOldOrEmptyFrames(jb)
      /\ UNCHANGED <<stream, lost, fault, resetting, picked, held, newest>>
  BY DEF RenderBufferSize
<1>2. Sound(CleanUpOldOrEmptyFrames(jb), lost, "none", held, picked, newest)
  BY <1>1, CleanedUpIsSound
<1> QED BY <1>1, <1>2, SoundFacts, InvariantAfter DEF IInv

LEMMA ResetIsSound ==
  ASSUME IInv, Reset \/ ResetDecoder
  PROVE  IInv'
<1>1. /\ fault = "none" /\ jb' \in {jb, Flush(jb)} /\ resetting' \in BOOLEAN
      /\ UNCHANGED <<stream, lost, fault, picked, held, newest>>
  BY DEF Reset, ResetDecoder, IInv
<1>2. Sound(jb, lost, "none", held, picked, newest)
  BY <1>1 DEF IInv
<1>3. Sound(Flush(jb), lost, "none", held, picked, newest)
  BY <1>2, SoundFacts, FlushedIsSound
<1>4. Sound(jb', lost, fault', held, picked, newest)
  BY <1>1, <1>2, <1>3
<1> QED BY <1>1, <1>4, SoundFacts, InvariantAfter

(***************************************************************************)
(* The theorems                                                             *)
(***************************************************************************)
LEMMA InitInv == Init => IInv
<1> SUFFICES ASSUME Init PROVE IInv
  OBVIOUS
<1>1. stream \in Streams
  BY DEF Init
<1>2. PICK on \in NackModes :
        jb = [dec |-> NoFrames, inc |-> NoFrames, last |-> Initial, missing |-> {}, latest |-> 0,
              fresh |-> TRUE, old |-> 0, nack |-> on, found |-> TRUE]
  BY DEF Init
<1>3. on \in BOOLEAN /\ MaxOldPackets \in Nat /\ MaxNumberOfFrames \in Nat /\ MaxNackListSize \in Nat
  BY JitterBufferAssumption
<1>4. NoFrames \in Lists /\ DOMAIN NoFrames = {} /\ Initial \in States
  BY <1>1, NoFramesIsList DEF States
<1>5. jb \in AnyBuffer
  BY <1>2, <1>3, <1>4 DEF AnyBuffer
<1>6. /\ jb.dec = NoFrames /\ jb.inc = NoFrames /\ jb.last = Initial /\ jb.missing = {}
      /\ jb.latest = 0
  BY <1>2
<1>7. jb \in Buffers /\ Listed(jb) = {}
  BY <1>4, <1>5, <1>6 DEF Buffers, Listed
<1>8. Cardinality({}) = 0
  BY FS_EmptySet
<1>9. Accounted(jb)
  <2>1. Numbers(jb) = {}
    BY <1>7 DEF Numbers
  <2> QED BY <1>3, <1>6, <1>7, <1>8, <2>1 DEF Accounted
<1>10. Chained(jb.dec, 0) /\ Behind(jb.last, 0)
  BY <1>4, <1>6 DEF Chained, Behind, Initial
<1>11. NoHeld.ts = 0
  BY DEF NoHeld
<1>12. InUse(jb, 0, NoHeld) <= MaxNumberOfFrames
  BY <1>3, <1>7, <1>8 DEF InUse
<1>13. Sound(jb, 0, "none", NoHeld, 0, 0)
  BY <1>3, <1>7, <1>9, <1>10, <1>11, <1>12 DEF Sound
<1> QED BY <1>1, <1>13 DEF Init, IInv

LEMMA StepInv == IInv /\ [Next]_vars => IInv'
<1> SUFFICES ASSUME IInv, [Next]_vars PROVE IInv'
  OBVIOUS
<1>1. ASSUME NEW n \in Packets, InsertPacket(n) PROVE IInv'
  BY <1>1, NewPacketIsSound, OldPacketIsSound DEF InsertPacket
<1>2. ASSUME NEW on \in NackModes, SetNackMode(on) PROVE IInv'
  BY <1>2, NackModeIsSound
<1>3. CASE UNCHANGED vars
  BY <1>3, SoundFacts, InvariantAfter DEF vars, IInv
<1> QED BY <1>1, <1>2, <1>3, ResetIsSound, PickIsSound, NotDueIsSound, TimingErrorIsSound,
           ExtractIsSound, ReleaseIsSound, NackListIsSound, RenderBufferIsSound DEF Next

LEMMA InvAlways == Spec => []IInv
BY InitInv, StepInv, PTL DEF Spec

(* Types, and the shape of the lists: a frame is in one list and has only   *)
(* packets of its timestamp, decodable frames are complete, and no more     *)
(* buffers are in use than there are.                                       *)
THEOREM TypeCorrect == Spec => []TypeOK
<1>1. IInv => TypeOK
  <2> SUFFICES ASSUME IInv PROVE TypeOK
    OBVIOUS
  <2> USE SoundFacts
  <2>1. /\ lost \in 0 .. MaxNumberOfFrames
        /\ {picked, held.ts, newest} \subseteq Timestamps \cup {0}
    BY DEF IInv, Sound
  <2>2. /\ jb.last.initial \in BOOLEAN /\ jb.nack \in BOOLEAN /\ jb.latest \in Packets \cup {0}
        /\ jb.missing \subseteq Packets /\ jb.old \in 0 .. MaxOldPackets
        /\ Listed(jb) \subseteq Timestamps /\ DOMAIN jb.dec \cap DOMAIN jb.inc = {}
        /\ \A t \in DOMAIN jb.dec : jb.dec[t].complete
    BY BufferFacts, StateFacts
  <2>3. \A t \in Listed(jb) : IsFrame(FrameOf(jb, t), t)
    BY FrameOfFacts DEF FramesAt
  <2>4. fault = "none" =>
          Cardinality(Listed(jb)) + lost + (IF held = NoHeld THEN 0 ELSE 1) <= MaxNumberOfFrames
    BY DEF IInv, Sound, InUse
  <2>5. fault \in {"none", "aliased", "starved"} /\ resetting \in BOOLEAN
    BY DEF IInv
  <2> QED BY <2>1, <2>2, <2>3, <2>4, <2>5 DEF TypeOK
<1> QED BY <1>1, InvAlways, PTL

(* The list of missing numbers is no longer than the array it is copied to  *)
(* and names no packet that is in a list: what UpdateNackList adds came     *)
(* after all that was received, and it takes out the number that arrives.   *)
THEOREM NackListIsRight == Spec => []NackListRight
<1>1. IInv => NackListRight
  <2> SUFFICES ASSUME IInv PROVE NackListRight
    OBVIOUS
  <2>1. Accounted(jb)
    BY SoundFacts
  <2> QED BY <2>1 DEF NackListRight, Accounted, Numbers, Parts
<1> QED BY <1>1, InvAlways, PTL

(* Only ExtractAndSetDecode hands a frame over.                             *)
LEMMA ExtractedByDecode ==
  ASSUME [Next]_vars, Extracted
  PROVE  /\ ExtractAndSetDecode /\ picked \in Listed(jb)
         /\ held'.ts = picked
         /\ held'.frame = IF picked \in DOMAIN jb.dec THEN jb.dec[picked] ELSE jb.inc[picked]
         /\ ~held'.missing => picked \in DOMAIN jb.dec \/ ContinuousFrame(jb.inc[picked], jb.last)
<1>1. ASSUME NEW n \in Packets, InsertPacket(n) PROVE held' = held
  BY <1>1 DEF InsertPacket, InsertOldPacket, InsertNewPacket, NoBufferLeft, InsertAndFlush,
              InsertContinuous, InsertEmpty, InsertWaiting, Accepted
<1>2. ASSUME NEW on \in NackModes, SetNackMode(on) PROVE held' = held
  BY <1>2 DEF SetNackMode
<1>3. CASE ResetDecoder \/ NextCompleteTimestamp \/ NotDueYet \/ TimingError \/ GetNackList
           \/ RenderBufferSize \/ Reset \/ UNCHANGED vars
  BY <1>3 DEF ResetDecoder, NextCompleteTimestamp, NotDueYet, TimingError, GetNackList,
              RenderBufferSize, Reset, vars, Extracted
<1>4. ReleaseFrame => held' = NoHeld
  BY DEF ReleaseFrame
<1>5. ExtractAndSetDecode
  BY <1>1, <1>2, <1>3, <1>4 DEF Next, Extracted
<1>6. picked \in Listed(jb)
  BY <1>5 DEF ExtractAndSetDecode, Extracted
<1> DEFINE f == IF picked \in DOMAIN jb.dec THEN jb.dec[picked] ELSE jb.inc[picked]
<1>7. held' = [ts |-> picked, frame |-> f,
               missing |-> picked \notin DOMAIN jb.dec /\ ~ContinuousFrame(f, jb.last)]
  BY <1>5, <1>6 DEF ExtractAndSetDecode
<1>8. held'.missing = (picked \notin DOMAIN jb.dec /\ ~ContinuousFrame(f, jb.last))
  BY <1>7
<1>9. held'.ts = picked /\ held'.frame = f
  BY <1>7
<1> QED BY <1>5, <1>6, <1>8, <1>9

(* While the decoding goes on a frame handed over is newer than the one     *)
(* before: what NextCompleteTimestamp picks is newer than the state, and    *)
(* stays so if the network thread recycles and the frame begins again.      *)
THEOREM DecodesInOrder == Spec => InOrder
<1>1. IInv /\ [Next]_vars => [Extracted => jb.last.initial \/ held'.ts > jb.last.ts]_vars
  <2> SUFFICES ASSUME IInv, [Next]_vars, Extracted
               PROVE  jb.last.initial \/ held'.ts > jb.last.ts
    OBVIOUS
  <2>1. ExtractAndSetDecode /\ picked \in Listed(jb) /\ held'.ts = picked
    BY ExtractedByDecode
  <2>2. Newer(picked, jb.last)
    BY <2>1 DEF IInv, Sound, ExtractAndSetDecode
  <2> QED BY <2>1, <2>2 DEF Newer
<1> QED BY <1>1, InvAlways, PTL DEF Spec, InOrder

(* A delta frame handed over without the mark follows the newest one: it was*)
(* the oldest decodable frame when it was picked, or follows the state now. *)
THEOREM DecodesOrMarks == Spec => FollowsOrMarked
<1> DEFINE A == Extracted /\ ~held'.missing /\ held'.frame.kind = "delta" =>
                  \A n \in Packets : stream[n].frame \in newest + 1 .. held'.ts - 1 =>
                    stream[n].kind = "empty"
<1>1. IInv /\ [Next]_vars => [A]_vars
  <2> SUFFICES ASSUME IInv, [Next]_vars, Extracted, ~held'.missing, held'.frame.kind = "delta",
                      NEW n \in Packets, stream[n].frame \in newest + 1 .. held'.ts - 1
               PROVE  stream[n].kind = "empty"
    OBVIOUS
  <2> USE SoundFacts
  <2> DEFINE f == IF picked \in DOMAIN jb.dec THEN jb.dec[picked] ELSE jb.inc[picked]
  <2>1. /\ ExtractAndSetDecode /\ picked \in Listed(jb) /\ held'.ts = picked
        /\ held'.frame = f
        /\ picked \in DOMAIN jb.dec \/ ContinuousFrame(jb.inc[picked], jb.last)
    BY ExtractedByDecode
  <2>2. Sound(jb, lost, "none", held, picked, newest) /\ picked # 0
    BY <2>1 DEF IInv, ExtractAndSetDecode
  <2>3. stream[n].frame \in Nat /\ picked \in Nat
    BY StreamFacts
  <2>4. f \in FramesAt(picked) /\ f.kind = "delta"
    BY <2>1, BufferFacts, ListFacts DEF Listed
  <2>5. CASE picked \in DOMAIN jb.dec
    <3>1. f = jb.dec[picked] /\ f.complete
      BY <2>5, BufferFacts
    <3> HIDE DEF f
    <3>2. PICK k \in f.media : stream[k].frame = picked /\ stream[k].kind = f.kind
      BY <2>4, <3>1, FrameFacts DEF FramesAt, IsFrame
    <3>3. k \in Packets
      BY <2>4, <3>2, FrameFacts DEF Parts
    <3>4. picked <= newest \/ Between(newest, picked)
      BY <2>2, <2>4, <3>2, <3>3 DEF Sound, Follows
    <3> QED BY <2>1, <2>3, <3>4 DEF Between
  <2>6. CASE picked \notin DOMAIN jb.dec
    <3>1. f = jb.inc[picked]
      BY <2>6
    <3>2. ContinuousFrame(f, jb.last)
      BY <2>1, <2>6, <3>1
    <3> HIDE DEF f
    <3>3. ~jb.last.initial /\ LowSequenceNumber(f) = jb.last.seq + 1
      BY <2>4, <3>2 DEF ContinuousFrame
    <3>4. Between(jb.last.ts, picked) /\ jb.last.ts \in Nat
      BY <2>4, <3>3, NextFrame, BufferFacts, StateFacts
    <3>5. Between(newest, jb.last.ts + 1)
      BY <2>2, <3>3 DEF Sound, Behind
    <3>6. \/ stream[n].frame \in newest + 1 .. (jb.last.ts + 1) - 1
          \/ stream[n].frame \in jb.last.ts + 1 .. picked - 1
      BY <2>1, <2>3, <3>4
    <3> QED BY <3>4, <3>5, <3>6 DEF Between
  <2> QED BY <2>5, <2>6
<1> QED BY <1>1, InvAlways, PTL DEF Spec, FollowsOrMarked
=============================================================================
