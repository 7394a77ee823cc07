------------------------- MODULE PacketHistoryProofs -------------------------
(***************************************************************************)
(* Look-ups in the packet history are exact, for every ring size, number    *)
(* space and stream length: RingInv is inductive and implies LookupExact.   *)
(***************************************************************************)
EXTENDS PacketHistoryProps, SequenceTheorems, WellFoundedInduction,
        FiniteSetTheorems, TLAPS

(***************************************************************************)
(* Facts about numbers and sequences                                        *)
(***************************************************************************)
(* A non-empty set of natural numbers has a least element: a CHOOSE of the  *)
(* least, as in a linear search or a minimum of times, has a witness.       *)
LEMMA LeastElement ==
  ASSUME NEW S \in SUBSET Nat, S # {}
  PROVE  \E i \in S : \A j \in S : i <= j
<1> DEFINE R == OpToRel(<, Nat)
<1>1. \A x, y \in S : <<y, x>> \in R <=> y < x
  BY SMT DEF OpToRel
<1>2. IsWellFoundedOn(R, Nat)
  BY NatLessThanWellFounded
<1> HIDE DEF R
<1>3. PICK x \in S : \A y \in S : ~(<<y, x>> \in R)
  BY <1>2, WFMin
<1>4. \A y \in S : ~(y < x)
  BY <1>1, <1>3
<1> QED BY <1>4

(* One subtraction or addition is enough near the ring's ends.              *)
LEMMA ModWithin ==
  ASSUME NEW n \in Nat \ {0}
  PROVE  /\ \A a \in 0 .. n - 1 : a % n = a
         /\ \A a \in n .. 2 * n - 1 : a % n = a - n
         /\ \A a \in -n .. -1 : a % n = a + n
         /\ \A a \in Int : a % n \in 0 .. n - 1
<1>1. \A a \in 0 .. n - 1 : a % n = a
  OBVIOUS
<1>2. \A a \in n .. 2 * n - 1 : a % n = a - n
  OBVIOUS
<1>3. \A a \in -n .. -1 : a % n = a + n
  OBVIOUS
<1>4. \A a \in Int : a % n \in 0 .. n - 1
  OBVIOUS
<1> QED BY <1>1, <1>2, <1>3, <1>4

(* The remainder of a number that is r more than a multiple of n.           *)
LEMMA ModOf ==
  ASSUME NEW n \in Nat \ {0}, NEW k \in Int, NEW r \in 0 .. n - 1
  PROVE  (n * k + r) % n = r
<1> DEFINE a == n * k + r
<1>1. \A c \in Int : c = n * (c \div n) + (c % n) /\ c \div n \in Int /\ c % n \in 0 .. n - 1
  OBVIOUS
<1>2. a \in Int
  OBVIOUS
<1>3. PICK q \in Int, m \in 0 .. n - 1 : a = n * q + m /\ m = a % n
  BY <1>1, <1>2
<1> DEFINE d == q - k
<1>4. d \in Int /\ n * d = r - m
  <2>1. n * q - n * k = r - m
    BY <1>3
  <2> QED BY <2>1
<1> HIDE DEF d
<1>5. \A j \in Int : (j >= 1 => n * j >= n) /\ (j <= -1 => n * j <= -n)
  OBVIOUS
<1>6. d = 0
  BY <1>3, <1>4, <1>5
<1>7. m = r
  BY <1>3, <1>4, <1>6
<1> QED BY <1>3, <1>7

(* Without its first n elements.                                            *)
LEMMA DropFirst ==
  ASSUME NEW S, NEW s \in Seq(S), NEW n \in 0 .. Len(s)
  PROVE  /\ SubSeq(s, n + 1, Len(s)) \in Seq(S)
         /\ Len(SubSeq(s, n + 1, Len(s))) = Len(s) - n
         /\ \A i \in 1 .. Len(s) - n : SubSeq(s, n + 1, Len(s))[i] = s[n + i]
<1>1. \A i \in n + 1 .. Len(s) : s[i] \in S
  OBVIOUS
<1> QED BY <1>1

(* What FindSeqNum returns, whatever the ring holds: the hinted slot or the *)
(* first match, and nothing only when no slot has the number.               *)
LEMMA FindSeqNumResult ==
  ASSUME NEW n \in Nat \ {0}, NEW h \in HistoryOfSize(n), NEW s \in SeqNums
  PROVE  /\ Hint(h, s) \in Indices(h)
         /\ FindSeqNum(h, s) # NotFound =>
              /\ FindSeqNum(h, s) \in Matches(h, s)
              /\ \/ FindSeqNum(h, s) = Hint(h, s)
                 \/ \A j \in Matches(h, s) : FindSeqNum(h, s) <= j
         /\ FindSeqNum(h, s) = NotFound => Matches(h, s) = {}
<1>1. /\ Indices(h) = 0 .. n - 1
      /\ Indices(h) \subseteq Nat
      /\ h.prev \in 0 .. n - 1
      /\ NotFound \notin Indices(h)
  BY DEF HistoryOfSize, Indices, NotFound
<1>2. Hint(h, s) \in Indices(h)
  BY <1>1 DEF Hint, LastIndex, HistoryOfSize, Indices
<1>3. CASE h.ring[Hint(h, s)].seq = s
  <2>1. FindSeqNum(h, s) = Hint(h, s)
    BY <1>3 DEF FindSeqNum
  <2> QED BY <1>1, <1>2, <1>3, <2>1 DEF Matches
<1>4. CASE h.ring[Hint(h, s)].seq # s /\ Matches(h, s) = {}
  <2>1. FindSeqNum(h, s) = NotFound
    BY <1>4 DEF FindSeqNum
  <2> QED BY <1>2, <1>4, <2>1
<1>5. CASE h.ring[Hint(h, s)].seq # s /\ Matches(h, s) # {}
  <2>1. PICK i \in Matches(h, s) : \A j \in Matches(h, s) : i <= j
    <3>1. Matches(h, s) \in SUBSET Nat
      BY <1>1 DEF Matches
    <3> QED BY <1>5, <3>1, LeastElement
  <2>2. FindSeqNum(h, s) = CHOOSE k \in Matches(h, s) : \A j \in Matches(h, s) : k <= j
    BY <1>5 DEF FindSeqNum
  <2>3. /\ FindSeqNum(h, s) \in Matches(h, s)
        /\ \A j \in Matches(h, s) : FindSeqNum(h, s) <= j
    BY <2>1, <2>2
  <2>4. FindSeqNum(h, s) \in Indices(h)
    BY <2>3 DEF Matches
  <2> QED BY <1>1, <1>2, <2>3, <2>4
<1> QED BY <1>3, <1>4, <1>5

(* Two stored packets never share a number: their ages differ and both fit  *)
(* the number space.                                                        *)
LEMMA NumbersDistinct ==
  ASSUME RingInv
  PROVE  \A i, j \in LiveIndices(hist) :
           hist.ring[i].seq = hist.ring[j].seq => i = j
<1> SUFFICES ASSUME NEW i \in LiveIndices(hist), NEW j \in LiveIndices(hist),
                    hist.ring[i].seq = hist.ring[j].seq
             PROVE  i = j
  OBVIOUS
<1>1. PICK n \in HistSizes \union {0} : hist \in HistoryOfSize(n)
  BY DEF RingInv, TypeOK
<1>2. /\ hist.ring[i] \in Slot
      /\ hist.ring[j] \in Slot
  BY <1>1 DEF HistoryOfSize, LiveIndices, Indices
<1>3. /\ Age(i) \in 1 .. SeqSpace
      /\ Age(j) \in 1 .. SeqSpace
      /\ nextSeq - hist.ring[i].seq \in {Age(i), Age(i) - SeqSpace}
      /\ nextSeq - hist.ring[j].seq \in {Age(j), Age(j) - SeqSpace}
  BY DEF RingInv, AgeFromNumber, LiveIndices
<1>4. Age(i) = Age(j)
  BY <1>3, SeqSpaceAssumption
<1>5. hist.ring[i].packet = hist.ring[j].packet
  BY <1>2, <1>4 DEF Age, Slot, RingInv, TypeOK
<1> QED BY <1>5 DEF RingInv, DistinctPackets

(* An empty slot lies past the ones in use, and its number is 0.            *)
LEMMA EmptyPastPrev ==
  ASSUME RingInv, NEW i \in Indices(hist), ~Live(hist, i)
  PROVE  /\ hist.ring[i].seq = 0
         /\ hist.prev <= i
         /\ \A k \in Indices(hist) : Live(hist, k) <=> k < hist.prev
<1>1. hist.ring[i].seq = 0
  BY DEF RingInv, SlotShape, EmptySlot
<1>2. \A k \in Indices(hist) : Live(hist, k) <=> k < hist.prev
  BY DEF RingInv, FillShape
<1>3. i \in Int /\ hist.prev \in Int
  BY DEF RingInv, TypeOK, HistoryOfSize, Indices
<1> QED BY <1>1, <1>2, <1>3

(* A look-up of the number of a stored packet returns its slot.             *)
LEMMA LookupOfLive ==
  ASSUME RingInv, NEW i \in LiveIndices(hist)
  PROVE  FindSeqNum(hist, hist.ring[i].seq) = i
<1> DEFINE s == hist.ring[i].seq
           f == FindSeqNum(hist, s)
<1>1. PICK n \in HistSizes \union {0} : hist \in HistoryOfSize(n)
  BY DEF RingInv, TypeOK
<1>2. /\ i \in Indices(hist)
      /\ Live(hist, i)
      /\ Indices(hist) = 0 .. n - 1
      /\ n \in Nat \ {0}
  BY <1>1, SizesAssumption DEF HistoryOfSize, LiveIndices, Indices
<1>3. s \in SeqNums
  BY <1>1, <1>2 DEF HistoryOfSize, Slot
<1>4. i \in Matches(hist, s)
  BY <1>2 DEF Matches
<1> HIDE DEF s
<1>5. /\ f \in Matches(hist, s)
      /\ f = Hint(hist, s) \/ \A j \in Matches(hist, s) : f <= j
  BY <1>1, <1>2, <1>3, <1>4, FindSeqNumResult
<1>6. f \in Indices(hist) /\ hist.ring[f].seq = s
  BY <1>5 DEF Matches
<1>7. CASE Live(hist, f)
  BY <1>2, <1>6, <1>7, NumbersDistinct DEF s, LiveIndices
<1>8. CASE ~Live(hist, f)
  <2>1. /\ s = 0
        /\ hist.prev <= f
        /\ i < hist.prev
    BY <1>2, <1>6, <1>8, EmptyPastPrev
  <2>2. /\ hist.prev \in Nat
        /\ f \in Nat
        /\ i \in Nat
    BY <1>1, <1>2, <1>6, SizesAssumption DEF HistoryOfSize
  <2>3. hist.ring[LastIndex(hist)].seq \in Nat /\ LastIndex(hist) = hist.prev - 1
    <3>1. LastIndex(hist) = hist.prev - 1 /\ hist.prev - 1 \in 0 .. n - 1
      BY <1>1, <1>2, <2>1, <2>2 DEF LastIndex, HistoryOfSize
    <3>2. hist.ring[hist.prev - 1] \in Slot
      BY <1>1, <3>1 DEF HistoryOfSize
    <3> QED BY <3>1, <3>2, SeqSpaceAssumption DEF Slot, SeqNums
  <2>4. Hint(hist, s) < hist.prev
    BY <2>1, <2>2, <2>3 DEF Hint
  <2>5. f <= i
    BY <1>4, <1>5, <2>1, <2>2, <2>4
  <2> QED BY <2>1, <2>2, <2>5
<1> QED BY <1>7, <1>8 DEF s

(* The invariant makes every look-up exact.                                 *)
LEMMA RingInvLookup == RingInv => LookupExact
<1> SUFFICES ASSUME RingInv, hist.store, NEW s \in SeqNums
             PROVE  /\ HasRTPPacket(hist, s) <=>
                         \E i \in LiveIndices(hist) : hist.ring[i].seq = s
                    /\ \A i \in LiveIndices(hist) :
                         hist.ring[i].seq = s => FindSeqNum(hist, s) = i
  BY DEF LookupExact
<1>1. PICK n \in HistSizes \union {0} : hist \in HistoryOfSize(n)
  BY DEF RingInv, TypeOK
<1>2. /\ Indices(hist) = 0 .. n - 1
      /\ n \in Nat \ {0}
  BY <1>1, SizesAssumption DEF HistoryOfSize, Indices, RingInv, Allocated
<1>3. \A i \in LiveIndices(hist) : hist.ring[i].seq = s => FindSeqNum(hist, s) = i
  BY LookupOfLive
<1>4. ASSUME HasRTPPacket(hist, s)
      PROVE  FindSeqNum(hist, s) \in LiveIndices(hist)
             /\ hist.ring[FindSeqNum(hist, s)].seq = s
  <2>1. FindSeqNum(hist, s) \in Matches(hist, s)
    BY <1>1, <1>2, <1>4, FindSeqNumResult DEF HasRTPPacket
  <2>2. hist.ring[FindSeqNum(hist, s)].len > 0
    BY <1>1, <1>4 DEF HasRTPPacket, HistoryOfSize
  <2> QED BY <2>1, <2>2 DEF Matches, LiveIndices, Live
<1>5. ASSUME NEW i \in LiveIndices(hist), hist.ring[i].seq = s
      PROVE  HasRTPPacket(hist, s)
  <2>1. FindSeqNum(hist, s) = i
    BY <1>3, <1>5
  <2>2. i \in Indices(hist) /\ hist.ring[i].len > 0
    BY DEF LiveIndices, Live
  <2>3. i # NotFound
    BY <1>2, <2>2 DEF NotFound
  <2>4. /\ hist.ring[i].len \in Nat
        /\ hist.max \in Nat
        /\ hist.ring[i].len <= hist.max
    BY <1>1, <1>2, <2>2 DEF HistoryOfSize, Slot, RingInv, SlotShape
  <2>5. hist.ring[i].len \in 1 .. hist.max
    BY <2>2, <2>4
  <2> QED BY <2>1, <2>3, <2>5 DEF HasRTPPacket
<1> QED BY <1>3, <1>4, <1>5

(***************************************************************************)
(* RingInv is inductive: what each operation does to it.                    *)
(***************************************************************************)

\* What the history looks like after a packet is stored, field by field.
LEMMA StoreFields ==
  ASSUME NEW n \in Nat \ {0}, NEW h \in HistoryOfSize(n),
         NEW p \in [seq : SeqNums, len : Nat, packet : Nat, type : StorageTypes]
  PROVE  /\ Advance(WriteSlot(h, p)) \in HistoryOfSize(n)
         /\ Advance(WriteSlot(h, p)).store = h.store
         /\ Advance(WriteSlot(h, p)).max = h.max
         /\ Advance(WriteSlot(h, p)).prev = IF h.prev + 1 >= n THEN 0 ELSE h.prev + 1
         /\ Advance(WriteSlot(h, p)).ring = [h.ring EXCEPT ![h.prev] = SlotFor(p, 0)]
<1>1. h.prev \in 0 .. n - 1 /\ h.size = n
  BY DEF HistoryOfSize
<1>2. SlotFor(p, 0) \in Slot
  BY DEF Slot, SlotFor
<1>3. /\ WriteSlot(h, p) \in HistoryOfSize(n)
      /\ WriteSlot(h, p).store = h.store
      /\ WriteSlot(h, p).max = h.max
      /\ WriteSlot(h, p).prev = h.prev
      /\ WriteSlot(h, p).ring = [h.ring EXCEPT ![h.prev] = SlotFor(p, 0)]
  BY <1>1, <1>2 DEF WriteSlot, HistoryOfSize
<1> DEFINE w == WriteSlot(h, p)
<1> HIDE DEF w
<1>4. /\ w \in HistoryOfSize(n)
      /\ w.store = h.store
      /\ w.max = h.max
      /\ w.prev = h.prev
      /\ w.ring = [h.ring EXCEPT ![h.prev] = SlotFor(p, 0)]
  BY <1>3 DEF w
<1>5. /\ Advance(w) \in HistoryOfSize(n)
      /\ Advance(w).store = w.store
      /\ Advance(w).max = w.max
      /\ Advance(w).prev = IF h.prev + 1 >= n THEN 0 ELSE h.prev + 1
      /\ Advance(w).ring = w.ring
  <2> DEFINE q == IF w.prev + 1 >= w.size THEN 0 ELSE w.prev + 1
  <2>1. /\ w.size = n
        /\ w.store \in BOOLEAN /\ w.max \in Nat /\ w.ring \in [0 .. n - 1 -> Slot]
        /\ w = [store |-> w.store, prev |-> w.prev, max |-> w.max, size |-> w.size, ring |-> w.ring]
    BY <1>4 DEF HistoryOfSize
  <2>2. q \in {0} \cup 0 .. n - 1 /\ q = IF h.prev + 1 >= n THEN 0 ELSE h.prev + 1
    BY <1>1, <1>4, <2>1
  <2>3. Advance(w) = [store |-> w.store, prev |-> q, max |-> w.max, size |-> w.size, ring |-> w.ring]
    BY <2>1 DEF Advance
  <2> HIDE DEF q
  <2> QED BY <2>1, <2>2, <2>3 DEF HistoryOfSize
<1> QED BY <1>4, <1>5 DEF w

\* A history that has just been freed or allocated satisfies RingInv.
Fresh ==
  /\ \E n \in HistSizes \union {0} : hist = IF n = 0 THEN NoHistory ELSE Allocate(n)
  /\ nextSeq \in SeqNums /\ nextPacket \in Nat \ {0} /\ now \in Nat /\ answer \in Nat

LEMMA FreshHistory == Fresh => RingInv
<1> SUFFICES ASSUME Fresh PROVE RingInv
  OBVIOUS
<1> PICK n \in HistSizes \union {0} : hist = IF n = 0 THEN NoHistory ELSE Allocate(n)
  BY DEF Fresh
<1>1. EmptySlot \in Slot
  BY SeqSpaceAssumption DEF EmptySlot, Slot, SeqNums, NoPacket, StorageTypes
<1>2. /\ hist \in HistoryOfSize(n)
      /\ hist.size = n
      /\ hist.prev = 0
      /\ hist.max = 0
      /\ hist.store <=> n # 0
      /\ \A i \in 0 .. n - 1 : hist.ring[i] = EmptySlot
  <2>1. CASE n = 0
    BY <1>1, <2>1 DEF NoHistory, HistoryOfSize
  <2>2. CASE n # 0
    BY <1>1, <2>2 DEF Allocate, HistoryOfSize
  <2> QED BY <2>1, <2>2
<1>3. \A i \in Indices(hist) : hist.ring[i] = EmptySlot /\ ~Live(hist, i)
  BY <1>2 DEF Indices, Live, EmptySlot
<1>4. TypeOK
  BY <1>2 DEF TypeOK, Fresh
<1>5. Allocated
  BY <1>2 DEF Allocated
<1>6. FillShape
  BY <1>2, <1>3, SizesAssumption DEF FillShape, Indices
<1>7. SlotShape
  BY <1>2, <1>3 DEF SlotShape, EmptySlot
<1>8. DistinctPackets /\ AgeFromNumber
  BY <1>3 DEF DistinctPackets, AgeFromNumber, LiveIndices
<1> QED BY <1>4, <1>5, <1>6, <1>7, <1>8 DEF RingInv

(* Taking a number makes every stored packet one older, and the numbers     *)
(* still tell the ages, whether the counter wraps or not.                   *)
LEMMA AgesAfterTake ==
  ASSUME RingInv, TakeSeqNum,
         NEW n \in HistSizes \union {0}, hist' \in HistoryOfSize(n),
         WindowFits(hist'),
         \A i \in Indices(hist') : Live(hist', i) =>
           \/ /\ i \in LiveIndices(hist)
              /\ hist'.ring[i].seq = hist.ring[i].seq
              /\ hist'.ring[i].packet = hist.ring[i].packet
           \/ /\ hist'.ring[i].seq = nextSeq
              /\ hist'.ring[i].packet = nextPacket
  PROVE  AgeFromNumber' /\ nextSeq' \in SeqNums /\ nextPacket' \in Nat \ {0}
<1>1. /\ nextSeq \in 0 .. SeqSpace - 1
      /\ nextPacket \in Nat \ {0}
      /\ nextPacket' = nextPacket + 1
      /\ nextSeq' = IF nextSeq = SeqSpace - 1 THEN 0 ELSE nextSeq + 1
      /\ SeqSpace \in Nat \ {0, 1}
  BY SeqSpaceAssumption DEF RingInv, TypeOK, TakeSeqNum, NextSeqNum, SeqNums
<1>2. nextSeq' \in SeqNums /\ nextPacket' \in Nat \ {0}
  BY <1>1 DEF SeqNums
<1>3. ASSUME NEW i \in Indices(hist'), Live(hist', i)
      PROVE  LET a == nextPacket' - hist'.ring[i].packet
                 d == nextSeq' - hist'.ring[i].seq
             IN  a \in 1 .. SeqSpace /\ d \in {a, a - SeqSpace}
  <2>1. hist'.ring[i].seq \in 0 .. SeqSpace - 1 /\ hist'.ring[i].packet \in Nat
    <3>1. hist'.ring[i] \in Slot
      BY <1>3 DEF HistoryOfSize, Indices
    <3> QED BY <3>1 DEF Slot, SeqNums
  <2>2. nextPacket + 1 - hist'.ring[i].packet <= SeqSpace
    BY <1>3 DEF WindowFits
  <2>3. CASE /\ i \in LiveIndices(hist)
             /\ hist'.ring[i].seq = hist.ring[i].seq
             /\ hist'.ring[i].packet = hist.ring[i].packet
    <3>1. LET a == nextPacket - hist'.ring[i].packet
              d == nextSeq - hist'.ring[i].seq
          IN  a \in 1 .. SeqSpace /\ d \in {a, a - SeqSpace}
      BY <2>3 DEF RingInv, AgeFromNumber, Age, LiveIndices
    <3> QED BY <1>1, <2>1, <2>2, <3>1
  <2>4. CASE hist'.ring[i].seq = nextSeq /\ hist'.ring[i].packet = nextPacket
    BY <1>1, <2>1, <2>4
  <2> QED BY <1>3, <2>3, <2>4
<1> QED BY <1>2, <1>3 DEF AgeFromNumber, Age

(* A number that is not stored.                                             *)
LEMMA SkipStep == RingInv /\ SkipSeqNum => RingInv'
<1> SUFFICES ASSUME RingInv, SkipSeqNum PROVE RingInv'
  OBVIOUS
<1>1. /\ hist' = hist
      /\ now' = now
      /\ answer' = NoPacket
      /\ TakeSeqNum
      /\ WindowFits(hist)
  BY DEF SkipSeqNum
<1>2. PICK n \in HistSizes \union {0} : hist \in HistoryOfSize(n)
  BY DEF RingInv, TypeOK
<1>3. AgeFromNumber' /\ nextSeq' \in SeqNums /\ nextPacket' \in Nat \ {0}
  BY <1>1, <1>2, AgesAfterTake DEF LiveIndices
<1>4. TypeOK'
  BY <1>1, <1>3 DEF RingInv, TypeOK, NoPacket
<1> QED BY <1>1, <1>3, <1>4
     DEF RingInv, Allocated, FillShape, SlotShape, DistinctPackets, LiveIndices

(* Storing a packet, storing nothing, or failing to store.                  *)
LEMMA PutStep ==
  ASSUME RingInv, NEW len \in Lens, NEW maxLen \in MaxLens, NEW type \in StorageTypes,
         PutRTPPacket(len, maxLen, type)
  PROVE  RingInv'
<1> DEFINE p == [seq |-> nextSeq, len |-> len, packet |-> nextPacket, type |-> type]
           g == VerifyAndAllocate(hist, maxLen)
<1>1. /\ hist' = Put(hist, p, maxLen)
      /\ now' = now
      /\ answer' = NoPacket
      /\ TakeSeqNum
      /\ WindowFits(hist')
  BY DEF PutRTPPacket
<1>2. PICK n \in HistSizes \union {0} : hist \in HistoryOfSize(n)
  BY DEF RingInv, TypeOK
<1>3. /\ p \in [seq : SeqNums, len : Nat, packet : Nat, type : StorageTypes]
      /\ p.seq = nextSeq /\ p.packet = nextPacket
      /\ len \in Nat \ {0} /\ maxLen \in Nat
      /\ p.len = len
  BY LensAssumption DEF RingInv, TypeOK
<1> HIDE DEF p
<1>4. /\ g \in HistoryOfSize(n)
      /\ g.store = hist.store /\ g.prev = hist.prev /\ g.ring = hist.ring
      /\ g.size = hist.size
      /\ hist.max <= g.max
  <2>1. CASE g = hist
    BY <1>2, <2>1 DEF HistoryOfSize
  <2>2. CASE maxLen > hist.max /\ g = [hist EXCEPT !.max = maxLen]
    BY <1>2, <1>3, <2>2 DEF HistoryOfSize
  <2> QED BY <2>1, <2>2 DEF VerifyAndAllocate
<1> HIDE DEF g
<1>5. \A i \in Indices(hist) :
        hist.ring[i] \in Slot /\ (Live(hist, i) => hist.ring[i].packet < nextPacket)
  <2>1. \A i \in Indices(hist) : hist.ring[i] \in Slot
    BY <1>2 DEF HistoryOfSize, Indices
  <2>2. \A i \in Indices(hist) : Live(hist, i) => nextPacket - hist.ring[i].packet >= 1
    BY SeqSpaceAssumption DEF RingInv, AgeFromNumber, Age
  <2>3. nextPacket \in Nat
    BY DEF RingInv, TypeOK
  <2>4. \A i \in Indices(hist) : hist.ring[i].packet \in Nat
    BY <2>1 DEF Slot
  <2> QED BY <2>1, <2>2, <2>3, <2>4
<1>6. CASE hist' = hist
  <2>1. AgeFromNumber' /\ nextSeq' \in SeqNums /\ nextPacket' \in Nat \ {0}
    BY <1>1, <1>2, <1>6, AgesAfterTake DEF LiveIndices
  <2>2. TypeOK'
    BY <1>1, <1>6, <2>1 DEF RingInv, TypeOK, NoPacket
  <2> QED BY <1>6, <2>1, <2>2
       DEF RingInv, Allocated, FillShape, SlotShape, DistinctPackets, LiveIndices
<1>7. CASE hist.store /\ hist' = g
  <2>1. \A i \in Indices(hist') :
          i \in Indices(hist) /\ hist'.ring[i] = hist.ring[i]
          /\ (Live(hist', i) <=> Live(hist, i))
    BY <1>4, <1>7 DEF Indices, Live
  <2>2. AgeFromNumber' /\ nextSeq' \in SeqNums /\ nextPacket' \in Nat \ {0}
    BY <1>1, <1>4, <1>7, <2>1, AgesAfterTake DEF LiveIndices
  <2>3. TypeOK'
    BY <1>1, <1>4, <1>7, <2>2 DEF RingInv, TypeOK, NoPacket
  <2>4. Allocated' /\ FillShape' /\ DistinctPackets'
    <3>1. /\ hist'.store = hist.store
          /\ hist'.size = hist.size
          /\ hist'.prev = hist.prev
          /\ hist'.ring = hist.ring
          /\ Indices(hist') = Indices(hist)
          /\ LiveIndices(hist') = LiveIndices(hist)
      BY <1>4, <1>7 DEF Indices, LiveIndices, Live
    <3>2. Allocated'
      BY <3>1 DEF RingInv, Allocated
    <3>3. FillShape'
      BY <2>1, <3>1 DEF RingInv, FillShape
    <3> QED BY <3>1, <3>2, <3>3 DEF RingInv, DistinctPackets
  <2>5. SlotShape'
    BY <1>2, <1>4, <1>5, <1>7, <2>1 DEF RingInv, SlotShape, HistoryOfSize, Slot
  <2> QED BY <2>2, <2>3, <2>4, <2>5 DEF RingInv
<1>8. CASE hist.store /\ len <= g.max /\ hist' = Advance(WriteSlot(g, p))
  <2>1. n \in Nat \ {0} /\ hist.size = n /\ hist.prev \in 0 .. n - 1
    BY <1>2, <1>8, SizesAssumption DEF HistoryOfSize, RingInv, Allocated
  <2>2. /\ hist' \in HistoryOfSize(n)
        /\ hist'.store = hist.store
        /\ hist'.max = g.max
        /\ hist'.prev = IF hist.prev + 1 >= n THEN 0 ELSE hist.prev + 1
        /\ hist'.ring = [hist.ring EXCEPT ![hist.prev] = SlotFor(p, 0)]
    <3>1. /\ n \in Nat \ {0}
          /\ g \in HistoryOfSize(n)
          /\ p \in [seq : SeqNums, len : Nat, packet : Nat, type : StorageTypes]
      BY <1>3, <1>4, <2>1
    <3>2. /\ Advance(WriteSlot(g, p)) \in HistoryOfSize(n)
          /\ Advance(WriteSlot(g, p)).store = g.store
          /\ Advance(WriteSlot(g, p)).max = g.max
          /\ Advance(WriteSlot(g, p)).prev = IF g.prev + 1 >= n THEN 0 ELSE g.prev + 1
          /\ Advance(WriteSlot(g, p)).ring = [g.ring EXCEPT ![g.prev] = SlotFor(p, 0)]
      BY <3>1, StoreFields
    <3>3. hist' = Advance(WriteSlot(g, p))
      BY <1>8
    <3> QED BY <1>4, <3>2, <3>3
  <2>3. /\ Indices(hist) = 0 .. n - 1
        /\ Indices(hist') = 0 .. n - 1
        /\ hist'.size = n
    BY <2>1, <2>2 DEF Indices, HistoryOfSize
  <2>4. /\ hist'.ring[hist.prev] = SlotFor(p, 0)
        /\ \A i \in 0 .. n - 1 : i # hist.prev => hist'.ring[i] = hist.ring[i]
    BY <1>2, <2>1, <2>2 DEF HistoryOfSize
  <2>5. /\ SlotFor(p, 0).seq = nextSeq
        /\ SlotFor(p, 0).packet = nextPacket
        /\ SlotFor(p, 0).len = len
    BY <1>3 DEF SlotFor
  <2>6. /\ Live(hist', hist.prev)
        /\ \A i \in 0 .. n - 1 : i # hist.prev => (Live(hist', i) <=> Live(hist, i))
    BY <1>3, <2>4, <2>5 DEF Live
  <2>7. AgeFromNumber' /\ nextSeq' \in SeqNums /\ nextPacket' \in Nat \ {0}
    BY <1>1, <2>2, <2>3, <2>4, <2>5, <2>6, AgesAfterTake DEF LiveIndices
  <2>8. TypeOK'
    BY <1>1, <2>2, <2>7 DEF RingInv, TypeOK, NoPacket
  <2>9. Allocated'
    BY <1>8, <2>1, <2>2, <2>3 DEF Allocated
  <2>10. FillShape'
    <3>1. CASE \A i \in 0 .. n - 1 : Live(hist, i)
      BY <2>3, <2>6, <3>1 DEF FillShape
    <3>2. CASE \A i \in 0 .. n - 1 : Live(hist, i) <=> i < hist.prev
      BY <2>1, <2>2, <2>3, <2>6, <3>2 DEF FillShape
    <3> QED BY <2>3, <3>1, <3>2 DEF RingInv, FillShape
  <2>11. SlotShape'
    <3>1. ASSUME NEW i \in 0 .. n - 1, i # hist.prev
          PROVE  /\ ~Live(hist', i) => hist'.ring[i] = EmptySlot
                 /\ hist'.ring[i].len <= hist'.max
      <4>1. hist.ring[i].len \in Nat /\ hist.ring[i].len <= hist.max
        BY <1>5, <2>3, <3>1 DEF RingInv, SlotShape, Slot
      <4>2. hist.max \in Nat /\ g.max \in Nat
        BY <1>2, <1>4 DEF HistoryOfSize
      <4>3. ~Live(hist', i) => hist'.ring[i] = EmptySlot
        BY <2>3, <2>4, <2>6, <3>1 DEF RingInv, SlotShape
      <4> QED BY <1>4, <2>2, <2>4, <3>1, <4>1, <4>2, <4>3
    <3>2. Live(hist', hist.prev) /\ hist'.ring[hist.prev].len <= hist'.max
      BY <1>8, <2>2, <2>4, <2>5, <2>6
    <3> QED BY <2>3, <3>1, <3>2 DEF SlotShape
  <2>12. DistinctPackets'
    <3>1. \A i \in LiveIndices(hist') : i # hist.prev =>
            /\ i \in LiveIndices(hist)
            /\ hist'.ring[i].packet = hist.ring[i].packet
            /\ hist'.ring[i].packet # nextPacket
      <4>1. \A i \in Indices(hist) : hist.ring[i].packet \in Nat
        BY <1>5 DEF Slot
      <4>2. nextPacket \in Nat
        BY DEF RingInv, TypeOK
      <4> QED BY <1>5, <2>3, <2>4, <2>6, <4>1, <4>2 DEF LiveIndices
    <3> QED BY <2>4, <2>5, <3>1 DEF RingInv, DistinctPackets
  <2> QED BY <2>7, <2>8, <2>9, <2>10, <2>11, <2>12 DEF RingInv
<1>9. \/ hist' = hist
      \/ hist.store /\ hist' = g
      \/ hist.store /\ len <= g.max /\ hist' = Advance(WriteSlot(g, p))
  <2>1. hist' = IF p.type = "DontStore" \/ ~hist.store THEN hist
                ELSE IF p.len > g.max THEN g ELSE Advance(WriteSlot(g, p))
    BY <1>1 DEF Put, g
  <2>2. g.max \in Nat
    BY <1>4 DEF HistoryOfSize
  <2> QED BY <1>3, <2>1, <2>2
<1> QED BY <1>6, <1>7, <1>8, <1>9

(* RingInv reads the clock and the last answer only for their types.        *)
LEMMA HistoryUnchanged ==
  ASSUME RingInv, UNCHANGED <<hist, nextSeq, nextPacket>>, now' \in Nat, answer' \in Nat
  PROVE  RingInv'
BY DEF RingInv, TypeOK, Allocated, FillShape, SlotShape, DistinctPackets,
       AgeFromNumber, Age, LiveIndices

(* Freeing the history, or allocating another one.                          *)
LEMMA SetStoreStep ==
  ASSUME RingInv, NEW enable \in BOOLEAN, NEW n \in HistSizes,
         SetStorePacketsStatus(enable, n)
  PROVE  RingInv'
<1>1. /\ UNCHANGED <<nextSeq, nextPacket, now>>
      /\ answer' = NoPacket
      /\ nextSeq' \in SeqNums /\ nextPacket' \in Nat \ {0}
      /\ now' \in Nat /\ answer' \in Nat
  BY DEF SetStorePacketsStatus, RingInv, TypeOK, NoPacket
<1>2. CASE hist' = hist
  BY <1>1, <1>2, HistoryUnchanged
<1>3. CASE hist' = NoHistory
  <2>1. Fresh'
    BY <1>1, <1>3 DEF Fresh
  <2> QED BY <2>1, FreshHistory, PTL
<1>4. CASE hist' = Allocate(n)
  <2>1. Fresh'
    BY <1>1, <1>4, SizesAssumption DEF Fresh
  <2> QED BY <2>1, FreshHistory, PTL
<1> QED BY <1>2, <1>3, <1>4 DEF SetStorePacketsStatus, SetStore, Free

(* Handing out a packet changes its send time and nothing else.             *)
LEMMA FetchStep ==
  ASSUME RingInv, NEW s \in SeqNums, NEW minElapsed, NEW retransmit,
         GetPacketAndSetSendTime(s, minElapsed, retransmit)
  PROVE  RingInv'
<1> DEFINE f == FindSeqNum(hist, s)
<1>1. CASE ~Fetchable(hist, s, minElapsed, retransmit, now)
  BY <1>1, HistoryUnchanged DEF GetPacketAndSetSendTime, RingInv, TypeOK, NoPacket
<1>2. CASE Fetchable(hist, s, minElapsed, retransmit, now)
  <2>1. /\ hist' = [hist EXCEPT !.ring[f].sent = now]
        /\ answer' = hist.ring[f].packet
        /\ UNCHANGED <<nextSeq, nextPacket, now>>
    BY <1>2 DEF GetPacketAndSetSendTime, MarkSent
  <2>2. PICK n \in HistSizes \union {0} : hist \in HistoryOfSize(n)
    BY DEF RingInv, TypeOK
  <2>3. n \in Nat \ {0} /\ Indices(hist) = 0 .. n - 1
    BY <1>2, <2>2, SizesAssumption
       DEF HistoryOfSize, RingInv, Allocated, Fetchable, Indices
  <2>4. f \in Indices(hist)
    BY <1>2, <2>2, <2>3, FindSeqNumResult DEF Fetchable, Matches
  <2> HIDE DEF f
  <2>5. now \in Nat /\ \A i \in 0 .. n - 1 : hist.ring[i] \in Slot
    BY <2>2 DEF RingInv, TypeOK, HistoryOfSize
  <2>6. /\ hist' \in HistoryOfSize(n)
        /\ hist'.store = hist.store /\ hist'.prev = hist.prev
        /\ hist'.max = hist.max /\ hist'.size = hist.size
        /\ hist'.ring = [hist.ring EXCEPT ![f].sent = now]
    BY <2>1, <2>2, <2>3, <2>4, <2>5 DEF HistoryOfSize, Slot
  <2>7. /\ Indices(hist') = Indices(hist)
        /\ \A i \in Indices(hist) : hist'.ring[i] =
             IF i = f THEN [hist.ring[i] EXCEPT !.sent = now] ELSE hist.ring[i]
    BY <2>2, <2>3, <2>4, <2>6 DEF HistoryOfSize, Indices
  <2>8. \A i \in Indices(hist) :
          /\ hist'.ring[i].seq = hist.ring[i].seq
          /\ hist'.ring[i].len = hist.ring[i].len
          /\ hist'.ring[i].packet = hist.ring[i].packet
          /\ Live(hist', i) <=> Live(hist, i)
    BY <2>3, <2>5, <2>7 DEF Slot, Live
  <2>9. Live(hist, f) /\ answer' \in Nat
    BY <1>2, <2>1, <2>3, <2>4, <2>5 DEF Fetchable, Live, Slot, f
  <2>10. TypeOK' /\ Allocated'
    BY <2>1, <2>2, <2>6, <2>9 DEF RingInv, TypeOK, Allocated
  <2>11. FillShape'
    BY <2>6, <2>7, <2>8 DEF RingInv, FillShape
  <2>12. SlotShape'
    BY <2>6, <2>7, <2>8, <2>9 DEF RingInv, SlotShape
  <2>13. DistinctPackets' /\ AgeFromNumber'
    BY <2>1, <2>7, <2>8, SMTT(30) DEF RingInv, DistinctPackets, AgeFromNumber, Age, LiveIndices
  <2> QED BY <2>10, <2>11, <2>12, <2>13 DEF RingInv
<1> QED BY <1>1, <1>2

(* A request for padding finds a stored packet of the nearest length.       *)
LEMMA BestFittingIndex ==
  ASSUME RingInv, NEW size \in Nat, ~(size < MinRequest), LiveIndices(hist) # {}
  PROVE  /\ BestFitting(hist, size) \in LiveIndices(hist)
         /\ BestFitting(hist, size) # NotFound
         /\ \A j \in LiveIndices(hist) :
              Distance(hist.ring[BestFitting(hist, size)].len, size) <= Distance(hist.ring[j].len, size)
<1> DEFINE L == LiveIndices(hist)
           D(i) == Distance(hist.ring[i].len, size)
<1>1. PICK n \in HistSizes \union {0} : hist \in HistoryOfSize(n)
  BY DEF RingInv, TypeOK
<1>2. L \subseteq Nat /\ \A i \in L : D(i) \in Nat
  <2>1. L \subseteq Nat /\ \A i \in L : hist.ring[i] \in Slot
    BY <1>1, SizesAssumption DEF HistoryOfSize, LiveIndices, Indices
  <2>2. \A i \in L : hist.ring[i].len \in Nat
    BY <2>1 DEF Slot
  <2> QED BY <2>1, <2>2 DEF Distance
<1>3. /\ L # {}
      /\ BestFitting(hist, size) =
           CHOOSE i \in L : \A j \in L : D(i) < D(j) \/ (D(i) = D(j) /\ i <= j)
  BY DEF BestFitting
<1> HIDE DEF L, D
<1>4. PICK d \in {D(i) : i \in L} : \A e \in {D(i) : i \in L} : d <= e
  <2>1. {D(i) : i \in L} \in SUBSET Nat /\ {D(i) : i \in L} # {}
    BY <1>2, <1>3
  <2> QED BY <2>1, LeastElement
<1>5. PICK k \in {i \in L : D(i) = d} : \A j \in {i \in L : D(i) = d} : k <= j
  <2>1. {i \in L : D(i) = d} \in SUBSET Nat /\ {i \in L : D(i) = d} # {}
    BY <1>2, <1>4
  <2> QED BY <2>1, LeastElement
<1>6. k \in L /\ \A j \in L : D(k) < D(j) \/ (D(k) = D(j) /\ k <= j)
  BY <1>2, <1>4, <1>5
<1>7. LET f == BestFitting(hist, size)
      IN  f \in L /\ \A j \in L : D(f) < D(j) \/ (D(f) = D(j) /\ f <= j)
  BY <1>3, <1>6
<1>8. BestFitting(hist, size) \in L /\ \A j \in L : D(BestFitting(hist, size)) <= D(j)
  BY <1>2, <1>7
<1>9. BestFitting(hist, size) # NotFound
  BY <1>2, <1>8 DEF NotFound
<1> QED BY <1>8, <1>9 DEF L, D

(* Padding with an old packet reads the history.                            *)
LEMMA BestFittingStep ==
  ASSUME RingInv, NEW size \in Lens, GetBestFittingPacket(size)
  PROVE  RingInv'
<1>1. PICK n \in HistSizes \union {0} : hist \in HistoryOfSize(n)
  BY DEF RingInv, TypeOK
<1>2. answer' \in Nat
  <2>1. CASE answer' = NoPacket
    BY <2>1 DEF NoPacket
  <2>2. CASE BestFitting(hist, size) # NotFound
             /\ answer' = hist.ring[BestFitting(hist, size)].packet
    <3>1. BestFitting(hist, size) \in LiveIndices(hist)
      <4>1. size \in Nat
        BY LensAssumption
      <4>2. ~(size < MinRequest) /\ LiveIndices(hist) # {}
        BY <2>2 DEF BestFitting
      <4> QED BY <4>1, <4>2, BestFittingIndex
    <3>2. hist.ring[BestFitting(hist, size)] \in Slot
      BY <1>1, <3>1 DEF LiveIndices, HistoryOfSize, Indices
    <3> QED BY <2>2, <3>2 DEF Slot
  <2> QED BY <2>1, <2>2 DEF GetBestFittingPacket
<1>3. UNCHANGED <<hist, nextSeq, nextPacket, now>> /\ now \in Nat
  BY DEF GetBestFittingPacket, RingInv, TypeOK
<1> QED BY <1>2, <1>3, HistoryUnchanged

(***************************************************************************)
(* The theorems.                                                            *)
(***************************************************************************)

(* RingInv holds of every reachable state of the history.                   *)
THEOREM RingInvariant == Spec => []RingInv
<1>1. Init => RingInv
  <2>1. Init => Fresh
    BY TimeAssumption DEF Init, Fresh, NoPacket
  <2> QED BY <2>1, FreshHistory
<1>2. RingInv /\ [Next]_vars => RingInv'
  <2> SUFFICES ASSUME RingInv, [Next]_vars PROVE RingInv'
    OBVIOUS
  <2>1. ASSUME NEW enable \in BOOLEAN, NEW n \in HistSizes,
               SetStorePacketsStatus(enable, n)
        PROVE  RingInv'
    BY <2>1, SetStoreStep
  <2>2. ASSUME NEW len \in Lens, NEW maxLen \in MaxLens, NEW type \in StorageTypes,
               PutRTPPacket(len, maxLen, type)
        PROVE  RingInv'
    BY <2>2, PutStep
  <2>3. CASE SkipSeqNum
    BY <2>3, SkipStep
  <2>4. ASSUME NEW s \in SeqNums, NEW m \in MinElapsed, NEW r \in BOOLEAN,
               GetPacketAndSetSendTime(s, m, r)
        PROVE  RingInv'
    BY <2>4, FetchStep
  <2>5. ASSUME NEW size \in Lens, GetBestFittingPacket(size)
        PROVE  RingInv'
    BY <2>5, BestFittingStep
  <2>6. CASE Tick
    BY <2>6, HistoryUnchanged DEF Tick, RingInv, TypeOK
  <2>7. CASE UNCHANGED vars
    BY <2>7, HistoryUnchanged DEF vars, RingInv, TypeOK
  <2> QED BY <2>1, <2>2, <2>3, <2>4, <2>5, <2>6, <2>7 DEF Next
<1> QED BY <1>1, <1>2, PTL DEF Spec

(* The variables of the history keep their types.                           *)
THEOREM TypeCorrect == Spec => []TypeOK
<1>1. RingInv => TypeOK
  BY DEF RingInv
<1> QED BY <1>1, RingInvariant, PTL

(* A look-up by sequence number finds a packet exactly when one is stored   *)
(* under it, and finds that packet (FindSeqNum, HasRTPPacket), for every    *)
(* ring size, number space and stream that fits the window.                 *)
THEOREM LookupIsExact == Spec => []LookupExact
BY RingInvariant, RingInvLookup, PTL

(***************************************************************************)
(* The ring, read from its oldest packet, implements the window.            *)
(***************************************************************************)
Kept == [packet : Nat, len : Nat, sent : Nat, type : StorageTypes]
Keep(slot) == [packet |-> slot.packet, len |-> slot.len, sent |-> slot.sent, type |-> slot.type]

(* Full, FillShape and RingSeq of any history, where its k-th packet is, and*)
(* how many there are.                                                      *)
FullOf(h) == \A i \in Indices(h) : Live(h, i)
ShapeOf(h) == FullOf(h) \/ \A i \in Indices(h) : Live(h, i) <=> i < h.prev
RingSeqOf(h) ==
  LET count == Cardinality(LiveIndices(h))
      start == IF FullOf(h) THEN h.prev ELSE 0
      slot(k) == h.ring[(start + k - 1) % h.size]
  IN  [k \in 1 .. count |-> [packet |-> slot(k).packet, len |-> slot(k).len,
                             sent |-> slot(k).sent, type |-> slot(k).type]]
Count(h) == IF FullOf(h) THEN h.size ELSE h.prev
At(h, k) ==
  IF ~FullOf(h) THEN k - 1
  ELSE IF h.prev + k - 1 >= h.size THEN h.prev + k - 1 - h.size
  ELSE h.prev + k - 1

LEMMA RingRead ==
  ASSUME NEW n \in Nat, NEW h \in HistoryOfSize(n), ShapeOf(h)
  PROVE  /\ Count(h) \in 0 .. n /\ RingSeqOf(h) \in Seq(Kept)
         /\ Len(RingSeqOf(h)) = Count(h) /\ DOMAIN RingSeqOf(h) = 1 .. Count(h)
         /\ \A k \in 1 .. Count(h) :
              At(h, k) \in LiveIndices(h) /\ RingSeqOf(h)[k] = Keep(h.ring[At(h, k)])
         /\ \A j, k \in 1 .. Count(h) : At(h, j) = At(h, k) => j = k
         /\ \A i \in LiveIndices(h) : \E k \in 1 .. Count(h) : At(h, k) = i
<1> DEFINE c == Count(h)
           s == RingSeqOf(h)
           start == IF FullOf(h) THEN h.prev ELSE 0
           Facts == /\ c \in 0 .. n /\ Cardinality(LiveIndices(h)) = c
                    /\ \A k \in 1 .. c :
                         At(h, k) \in LiveIndices(h) /\ (start + k - 1) % n = At(h, k)
                    /\ \A j, k \in 1 .. c : At(h, j) = At(h, k) => j = k
                    /\ \A i \in LiveIndices(h) : \E k \in 1 .. c : At(h, k) = i
<1>1. /\ h.size = n /\ Indices(h) = 0 .. n - 1 /\ h.prev \in Nat
      /\ n # 0 => h.prev \in 0 .. n - 1
      /\ n = 0 => h.prev = 0
      /\ \A i \in 0 .. n - 1 : h.ring[i] \in Slot
  BY DEF HistoryOfSize, Indices
<1>2. ASSUME FullOf(h) PROVE Facts
  <2>1. LiveIndices(h) = 0 .. n - 1 /\ c = n /\ start = h.prev
    BY <1>1, <1>2 DEF LiveIndices, FullOf, Count
  <2>2. Cardinality(LiveIndices(h)) = c
    <3>1. Cardinality(0 .. n - 1) = IF 0 > n - 1 THEN 0 ELSE n - 1 - 0 + 1
      BY FS_Interval
    <3> QED BY <2>1, <3>1
  <2>3. \A k \in 1 .. c : /\ At(h, k) = IF h.prev + k - 1 >= n THEN h.prev + k - 1 - n ELSE h.prev + k - 1
                          /\ At(h, k) \in LiveIndices(h) /\ (start + k - 1) % n = At(h, k)
    <3> SUFFICES ASSUME NEW k \in 1 .. n
                 PROVE  /\ At(h, k) = IF h.prev + k - 1 >= n THEN h.prev + k - 1 - n ELSE h.prev + k - 1
                        /\ At(h, k) \in 0 .. n - 1 /\ (h.prev + k - 1) % n = At(h, k)
      BY <2>1
    <3>1. At(h, k) = IF h.prev + k - 1 >= n THEN h.prev + k - 1 - n ELSE h.prev + k - 1
      BY <1>1, <1>2 DEF At
    <3>2. n \in Nat \ {0} /\ h.prev \in 0 .. n - 1
      BY <1>1
    <3>3. /\ \A a \in 0 .. n - 1 : a % n = a
          /\ \A a \in n .. 2 * n - 1 : a % n = a - n
      BY <3>2, ModWithin
    <3>4. CASE h.prev + k - 1 >= n
      <4>1. h.prev + k - 1 \in n .. 2 * n - 1
        BY <3>2, <3>4
      <4> QED BY <3>1, <3>2, <3>3, <3>4, <4>1
    <3>5. CASE h.prev + k - 1 < n
      <4>1. h.prev + k - 1 \in 0 .. n - 1
        BY <3>2, <3>5
      <4> QED BY <3>1, <3>2, <3>3, <3>5, <4>1
    <3> QED BY <3>2, <3>4, <3>5
  <2> HIDE DEF c, start
  <2>4. ASSUME NEW j \in 1 .. c, NEW k \in 1 .. c, At(h, j) = At(h, k) PROVE j = k
    <3>1. /\ At(h, j) = IF h.prev + j - 1 >= n THEN h.prev + j - 1 - n ELSE h.prev + j - 1
          /\ At(h, k) = IF h.prev + k - 1 >= n THEN h.prev + k - 1 - n ELSE h.prev + k - 1
      BY <2>3
    <3>2. /\ n \in Nat /\ h.prev \in 0 .. n - 1 /\ j \in 1 .. n /\ k \in 1 .. n
      BY <1>1, <2>1
    <3> DEFINE J == IF h.prev + j - 1 >= n THEN h.prev + j - 1 - n ELSE h.prev + j - 1
               K == IF h.prev + k - 1 >= n THEN h.prev + k - 1 - n ELSE h.prev + k - 1
    <3>3. J = K => j = k
      BY <3>2
    <3> HIDE DEF J, K
    <3>4. J = K
      BY ONLY <2>4, <3>1, Zenon DEF J, K
    <3> QED BY <3>3, <3>4
  <2>5. ASSUME NEW i \in LiveIndices(h) PROVE \E k \in 1 .. c : At(h, k) = i
    <3> DEFINE k == IF i < h.prev THEN i + n - h.prev + 1 ELSE i - h.prev + 1
    <3>1. n # 0 /\ h.prev \in 0 .. n - 1 /\ i \in 0 .. n - 1
      BY <1>1, <2>1
    <3>2. k \in 1 .. c
      BY <2>1, <3>1
    <3>3. At(h, k) = IF h.prev + k - 1 >= n THEN h.prev + k - 1 - n ELSE h.prev + k - 1
      BY <2>3, <3>2
    <3>4. At(h, k) = i
      BY <3>1, <3>3
    <3> QED BY <3>2, <3>4
  <2>6. c \in 0 .. n
    BY <2>1
  <2> QED BY <2>2, <2>3, <2>4, <2>5, <2>6
<1>3. ASSUME ~FullOf(h) PROVE Facts
  <2>1. n # 0 /\ LiveIndices(h) = 0 .. h.prev - 1 /\ c = h.prev /\ start = 0 /\ h.prev \in 0 .. n - 1
    <3>1. n # 0 /\ h.prev \in 0 .. n - 1
      BY <1>1, <1>3 DEF FullOf
    <3> QED BY <1>1, <1>3, <3>1 DEF LiveIndices, ShapeOf, Count
  <2>2. Cardinality(LiveIndices(h)) = c
    <3>1. h.prev - 1 \in Int /\ 0 \in Int
      BY <1>1
    <3>2. Cardinality(0 .. h.prev - 1) = IF 0 > h.prev - 1 THEN 0 ELSE h.prev - 1 - 0 + 1
      BY ONLY <3>1, FS_Interval, Zenon
    <3> QED BY <1>1, <2>1, <3>2
  <2>3. \A k \in 1 .. c : At(h, k) = k - 1 /\ At(h, k) \in LiveIndices(h) /\ (start + k - 1) % n = At(h, k)
    <3>1. \A k \in 1 .. c : At(h, k) = k - 1 /\ k - 1 \in 0 .. n - 1
      BY <1>1, <1>3, <2>1 DEF At
    <3>2. \A a \in 0 .. n - 1 : a % n = a
      BY <2>1, ModWithin
    <3>3. \A k \in 1 .. c : k - 1 \in 0 .. h.prev - 1 /\ start + k - 1 = k - 1
      BY <1>1, <2>1
    <3> HIDE DEF c, start
    <3> QED BY <2>1, <3>1, <3>2, <3>3
  <2> HIDE DEF c, start
  <2>4. ASSUME NEW j \in 1 .. c, NEW k \in 1 .. c, At(h, j) = At(h, k) PROVE j = k
    <3>1. At(h, j) = j - 1 /\ At(h, k) = k - 1
      BY <2>3
    <3>2. j \in Int /\ k \in Int
      OBVIOUS
    <3>3. j - 1 = k - 1
      BY ONLY <2>4, <3>1, Zenon
    <3> QED BY <3>2, <3>3
  <2>5. ASSUME NEW i \in LiveIndices(h) PROVE \E k \in 1 .. c : At(h, k) = i
    <3>1. PICK k \in 1 .. c : k = i + 1 /\ i = k - 1
      BY <1>1, <2>1
    <3>2. At(h, k) = k - 1
      BY <2>3
    <3> QED BY <3>1, <3>2
  <2>6. c \in 0 .. n
    BY <2>1
  <2> QED BY <2>2, <2>3, <2>4, <2>5, <2>6
<1>4. Facts
  BY <1>2, <1>3
<1>5. s = [k \in 1 .. c |-> Keep(h.ring[(start + k - 1) % n])]
  BY <1>1, <1>4 DEF RingSeqOf, Keep
<1> HIDE DEF c, start, s
<1>6. \A k \in 1 .. c : At(h, k) \in LiveIndices(h) /\ s[k] = Keep(h.ring[At(h, k)])
  BY <1>4, <1>5
<1>7. \A k \in 1 .. c : s[k] \in Kept
  <2>1. \A k \in 1 .. c : h.ring[At(h, k)] \in Slot
    BY <1>1, <1>6 DEF LiveIndices
  <2>2. \A slot \in Slot : Keep(slot) \in Kept
    BY DEF Slot, Keep, Kept
  <2> QED BY <1>6, <2>1, <2>2
<1>8. s \in Seq(Kept) /\ Len(s) = c /\ DOMAIN s = 1 .. c
  <2>1. s \in [1 .. c -> Kept] /\ c \in Nat
    BY <1>4, <1>5, <1>7
  <2> QED BY <2>1
<1> QED BY <1>4, <1>6, <1>8 DEF c, s

(* A packet stored comes last, and pushes out the oldest of a full ring.    *)
LEMMA StoredLast ==
  ASSUME NEW n \in Nat \ {0}, NEW h \in HistoryOfSize(n), ShapeOf(h),
         NEW g \in HistoryOfSize(n), NEW slot \in Slot, slot.len > 0,
         g.prev = IF h.prev + 1 >= n THEN 0 ELSE h.prev + 1,
         g.ring = [h.ring EXCEPT ![h.prev] = slot]
  PROVE  LET a == Append(RingSeqOf(h), Keep(slot))
         IN  /\ ShapeOf(g)
             /\ RingSeqOf(g) = IF Len(a) <= n THEN a ELSE SubSeq(a, Len(a) - n + 1, Len(a))
<1> DEFINE s == RingSeqOf(h)
           r == RingSeqOf(g)
           a == Append(s, Keep(slot))
<1>1. /\ h.prev \in 0 .. n - 1 /\ h.size = n /\ g.size = n
      /\ Indices(h) = 0 .. n - 1 /\ Indices(g) = 0 .. n - 1
      /\ h.ring \in [0 .. n - 1 -> Slot]
  BY DEF HistoryOfSize, Indices
<1>2. /\ g.ring[h.prev] = slot
      /\ \A i \in 0 .. n - 1 : i # h.prev => g.ring[i] = h.ring[i]
  BY <1>1
<1>3. Live(g, h.prev) /\ \A i \in 0 .. n - 1 : i # h.prev => (Live(g, i) <=> Live(h, i))
  BY <1>2 DEF Live
<1>4. /\ Count(h) \in 0 .. n /\ s \in Seq(Kept) /\ Len(s) = Count(h)
      /\ \A k \in 1 .. Count(h) : s[k] = Keep(h.ring[At(h, k)])
  BY RingRead
<1>5. Keep(slot) \in Kept
  BY DEF Keep, Kept, Slot
<1>6. /\ a \in Seq(Kept) /\ Len(a) = Count(h) + 1 /\ a[Count(h) + 1] = Keep(slot)
      /\ \A k \in 1 .. Count(h) : a[k] = s[k]
  <2> HIDE DEF s
  <2> QED BY <1>4, <1>5, AppendProperties
<1>7. ShapeOf(g) =>
        /\ Count(g) \in 0 .. n /\ r \in Seq(Kept) /\ Len(r) = Count(g)
        /\ \A k \in 1 .. Count(g) : r[k] = Keep(g.ring[At(g, k)])
  BY RingRead
<1> HIDE DEF s, r, a
<1>8. CASE ~FullOf(h)
  <2>1. \A i \in 0 .. n - 1 : Live(g, i) <=> i < h.prev + 1
    <3>1. \A i \in 0 .. n - 1 : Live(h, i) <=> i < h.prev
      BY <1>1, <1>8 DEF ShapeOf
    <3> QED BY <1>1, <1>3, <3>1
  <2>2. ShapeOf(g) /\ Count(g) = h.prev + 1 /\ \A k \in 1 .. h.prev + 1 : At(g, k) = k - 1
    <3>1. CASE h.prev + 1 >= n
      <4>1. FullOf(g) /\ g.prev = 0 /\ h.prev + 1 = n
        BY <1>1, <2>1, <3>1 DEF FullOf
      <4> QED BY <1>1, <4>1 DEF ShapeOf, Count, At
    <3>2. CASE h.prev + 1 < n
      <4>1. g.prev = h.prev + 1 /\ h.prev + 1 \in 0 .. n - 1
        BY <1>1, <3>2
      <4>2. ~FullOf(g)
        BY <1>1, <2>1, <4>1 DEF FullOf
      <4> QED BY <1>1, <2>1, <4>1, <4>2 DEF ShapeOf, Count, At
    <3> QED BY <1>1, <3>1, <3>2
  <2>3. Count(h) = h.prev /\ \A k \in 1 .. h.prev : At(h, k) = k - 1
    BY <1>8 DEF Count, At
  <2>4. ASSUME NEW k \in 1 .. h.prev + 1 PROVE r[k] = a[k]
    <3>1. r[k] = Keep(g.ring[k - 1])
      BY <1>7, <2>2
    <3>2. CASE k = h.prev + 1
      <4>1. k - 1 = h.prev
        BY <1>1, <3>2
      <4> QED BY <1>2, <1>6, <2>3, <3>1, <3>2, <4>1
    <3>3. CASE k \in 1 .. h.prev
      <4>1. k - 1 \in 0 .. n - 1 /\ k - 1 # h.prev
        BY <1>1, <3>3
      <4>2. a[k] = Keep(h.ring[k - 1])
        BY <1>4, <1>6, <2>3, <3>3
      <4> QED BY <1>2, <3>1, <4>1, <4>2
    <3> QED BY <1>1, <3>2, <3>3
  <2>5. r = a
    <3>1. Len(r) = Len(a) /\ Len(r) = h.prev + 1
      BY <1>6, <1>7, <2>2, <2>3
    <3> QED BY <1>6, <1>7, <2>2, <2>4, <3>1, SeqEqual
  <2>6. Len(a) <= n
    BY <1>1, <1>6, <2>3
  <2> QED BY <2>2, <2>5, <2>6 DEF a, r, s
<1>9. CASE FullOf(h)
  <2>1. FullOf(g) /\ ShapeOf(g) /\ Count(g) = n /\ Count(h) = n
    BY <1>1, <1>3, <1>9 DEF FullOf, ShapeOf, Count
  <2> DEFINE b == SubSeq(a, 2, Len(a))
  <2>2. b \in Seq(Kept) /\ Len(b) = n /\ \A k \in 1 .. n : b[k] = a[k + 1]
    <3>1. 1 \in 0 .. Len(a) /\ Len(a) = n + 1
      BY <1>6, <2>1
    <3>2. /\ SubSeq(a, 1 + 1, Len(a)) \in Seq(Kept) /\ Len(SubSeq(a, 1 + 1, Len(a))) = Len(a) - 1
          /\ \A k \in 1 .. Len(a) - 1 : SubSeq(a, 1 + 1, Len(a))[k] = a[1 + k]
      BY <1>6, <3>1, DropFirst
    <3> QED BY <3>1, <3>2
  <2> HIDE DEF b
  <2>3. ASSUME NEW k \in 1 .. n PROVE r[k] = b[k]
    <3>1. r[k] = Keep(g.ring[At(g, k)]) /\ b[k] = a[k + 1]
      BY <1>7, <2>1, <2>2
    <3>2. At(g, k) = IF g.prev + k - 1 >= n THEN g.prev + k - 1 - n ELSE g.prev + k - 1
      BY <1>1, <2>1 DEF At
    <3>3. CASE k = n
      <4>1. At(g, k) = h.prev
        BY <1>1, <3>2, <3>3, SMTT(30)
      <4>2. a[k + 1] = Keep(slot)
        BY <1>6, <2>1, <3>3
      <4> QED BY <1>2, <3>1, <4>1, <4>2
    <3>4. CASE k \in 1 .. n - 1
      <4> DEFINE m == k + 1
      <4>1. m \in 1 .. n
        BY <3>4
      <4>2. At(h, m) = IF h.prev + m - 1 >= n THEN h.prev + m - 1 - n ELSE h.prev + m - 1
        BY <1>1, <1>9 DEF At
      <4>3. At(g, k) = At(h, m) /\ At(h, m) \in 0 .. n - 1 /\ At(h, m) # h.prev
        BY <1>1, <3>2, <3>4, <4>2
      <4> HIDE DEF m
      <4>4. a[m] = Keep(h.ring[At(h, m)])
        BY <1>4, <1>6, <2>1, <4>1
      <4> QED BY <1>2, <3>1, <4>3, <4>4 DEF m
    <3> QED BY <3>3, <3>4
  <2>4. r = b
    BY <1>7, <2>1, <2>2, <2>3, SeqEqual
  <2>5. Len(a) = n + 1 /\ ~(Len(a) <= n) /\ Len(a) - n + 1 = 2
    BY <1>6, <2>1
  <2> QED BY <2>1, <2>4, <2>5 DEF a, b, r, s
<1> QED BY <1>8, <1>9

(* A packet handed out keeps its place, and has a new send time.            *)
LEMMA SentChanges ==
  ASSUME NEW n \in Nat \ {0}, NEW h \in HistoryOfSize(n), ShapeOf(h),
         NEW k \in 1 .. Count(h), NEW t \in Nat
  PROVE  LET g == [h EXCEPT !.ring[At(h, k)].sent = t]
         IN  RingSeqOf(g) = [RingSeqOf(h) EXCEPT ![k].sent = t]
<1> DEFINE i == At(h, k)
           g == [h EXCEPT !.ring[i].sent = t]
           s == RingSeqOf(h)
           r == RingSeqOf(g)
           e == [s EXCEPT ![k].sent = t]
<1>1. /\ Count(h) \in 0 .. n /\ s \in Seq(Kept) /\ Len(s) = Count(h) /\ DOMAIN s = 1 .. Count(h)
      /\ \A j \in 1 .. Count(h) : At(h, j) \in LiveIndices(h) /\ s[j] = Keep(h.ring[At(h, j)])
      /\ \A j, m \in 1 .. Count(h) : At(h, j) = At(h, m) => j = m
  BY RingRead
<1>2. /\ i \in 0 .. n - 1 /\ h.ring \in [0 .. n - 1 -> Slot] /\ h.ring[i] \in Slot
      /\ Indices(h) = 0 .. n - 1 /\ h.size = n
  BY <1>1 DEF HistoryOfSize, Indices, LiveIndices
<1> HIDE DEF i, s, r, e
<1>3. [h.ring[i] EXCEPT !.sent = t] \in Slot
  BY <1>2 DEF Slot
<1>4. /\ g \in HistoryOfSize(n) /\ g.size = n /\ g.prev = h.prev
      /\ g.ring = [h.ring EXCEPT ![i] = [h.ring[i] EXCEPT !.sent = t]]
  <2> DEFINE new == [h.ring[i] EXCEPT !.sent = t]
             ring == [h.ring EXCEPT ![i] = new]
  <2>1. ring \in [0 .. n - 1 -> Slot]
    BY <1>2, <1>3
  <2>2. g = [h EXCEPT !.ring = ring]
    BY DEF HistoryOfSize
  <2> HIDE DEF ring, g
  <2>3. g \in HistoryOfSize(n) /\ g.size = n /\ g.prev = h.prev /\ g.ring = ring
    BY <2>1, <2>2 DEF HistoryOfSize
  <2> QED BY <2>3 DEF ring
<1> HIDE DEF g
<1>5. /\ g.ring[i] = [h.ring[i] EXCEPT !.sent = t]
      /\ \A j \in 0 .. n - 1 : j # i => g.ring[j] = h.ring[j]
  BY <1>2, <1>4
<1>6. Indices(g) = Indices(h) /\ \A j \in 0 .. n - 1 : Live(g, j) <=> Live(h, j)
  <2>1. [h.ring[i] EXCEPT !.sent = t].len = h.ring[i].len
    BY <1>2 DEF Slot
  <2> QED BY <1>2, <1>4, <1>5, <2>1 DEF Live, Indices
<1>7. FullOf(g) <=> FullOf(h)
  BY <1>2, <1>6 DEF FullOf
<1>8. ShapeOf(g) /\ Count(g) = Count(h) /\ \A j \in 1 .. Count(h) : At(g, j) = At(h, j)
  BY <1>2, <1>4, <1>6, <1>7 DEF ShapeOf, Count, At
<1>9. /\ r \in Seq(Kept) /\ Len(r) = Count(h)
      /\ \A j \in 1 .. Count(h) : r[j] = Keep(g.ring[At(h, j)])
  <2>1. /\ r \in Seq(Kept) /\ Len(r) = Count(g)
        /\ \A j \in 1 .. Count(g) : r[j] = Keep(g.ring[At(g, j)])
    BY <1>4, <1>8, RingRead DEF r
  <2> QED BY <1>8, <2>1
<1>10. /\ e \in Seq(Kept) /\ Len(e) = Count(h)
       /\ e[k] = [s[k] EXCEPT !.sent = t]
       /\ \A j \in 1 .. Count(h) : j # k => e[j] = s[j]
  <2>1. s[k] \in Kept
    BY <1>1
  <2>2. [s[k] EXCEPT !.sent = t] \in Kept
    BY <2>1 DEF Kept
  <2> DEFINE new == [s[k] EXCEPT !.sent = t]
  <2>3. e = [s EXCEPT ![k] = new]
    BY DEF e
  <2> HIDE DEF new
  <2>4. e \in [1 .. Count(h) -> Kept] /\ Count(h) \in Nat
    BY <1>1, <2>2, <2>3 DEF new
  <2>5. e \in Seq(Kept) /\ Len(e) = Count(h)
    BY <2>4
  <2> QED BY <1>1, <2>3, <2>5 DEF new
<1>11. ASSUME NEW j \in 1 .. Count(h) PROVE r[j] = e[j]
  <2>1. CASE j = k
    <3>1. r[j] = Keep([h.ring[i] EXCEPT !.sent = t])
      BY <1>5, <1>9, <2>1 DEF i
    <3>2. e[j] = [Keep(h.ring[i]) EXCEPT !.sent = t]
      BY <1>1, <1>10, <2>1 DEF i
    <3>3. \A slot \in Slot : Keep([slot EXCEPT !.sent = t]) = [Keep(slot) EXCEPT !.sent = t]
      BY DEF Keep, Slot
    <3> QED BY <1>2, <3>1, <3>2, <3>3
  <2>2. CASE j # k
    <3>1. At(h, j) # i /\ At(h, j) \in 0 .. n - 1
      BY <1>1, <1>2, <2>2 DEF i, LiveIndices
    <3> QED BY <1>1, <1>5, <1>9, <1>10, <2>2, <3>1
  <2> QED BY <2>1, <2>2
<1>12. r = e
  BY <1>9, <1>10, <1>11, SeqEqual
<1> QED BY <1>12 DEF r, e, s, g, i

(***************************************************************************)
(* The stream's numbers                                                     *)
(***************************************************************************)
First(seq, packet) == (seq - packet + 1) % SeqSpace

\* The number of the first packet does not change as numbers are taken.
LEMMA FirstStays ==
  ASSUME RingInv, TakeSeqNum
  PROVE  First(nextSeq', nextPacket') = First(nextSeq, nextPacket)
<1>1. /\ SeqSpace \in Nat \ {0} /\ nextSeq \in Int /\ nextPacket \in Int
      /\ nextPacket' = nextPacket + 1
      /\ nextSeq' = nextSeq + 1 \/ nextSeq' = nextSeq + 1 - SeqSpace
  BY SeqSpaceAssumption DEF RingInv, TypeOK, TakeSeqNum, NextSeqNum, SeqNums
<1> DEFINE a == nextSeq - nextPacket + 1
           b == nextSeq' - nextPacket' + 1
<1>2. a \in Int /\ (b = a \/ b = a - SeqSpace)
  BY <1>1
<1> HIDE DEF a, b
<1>3. b % SeqSpace = a % SeqSpace
  <2>1. CASE b = a
    BY <2>1
  <2>2. CASE b = a - SeqSpace
    <3>1. PICK q \in Int, m \in 0 .. SeqSpace - 1 : a = SeqSpace * q + m /\ m = a % SeqSpace
      <4>1. /\ a = SeqSpace * (a \div SeqSpace) + (a % SeqSpace)
            /\ a \div SeqSpace \in Int /\ a % SeqSpace \in 0 .. SeqSpace - 1
        BY <1>1, <1>2
      <4> QED BY <4>1
    <3>2. b = SeqSpace * (q - 1) + m /\ q - 1 \in Int
      BY <1>1, <2>2, <3>1
    <3>3. (SeqSpace * (q - 1) + m) % SeqSpace = m
      BY <1>1, <3>2, ModOf
    <3> QED BY <3>1, <3>2, <3>3
  <2> QED BY <1>2, <2>1, <2>2
<1> QED BY <1>3 DEF First, a, b

\* The number stored with a packet is the one its position was sent under.
LEMMA NumberKept ==
  ASSUME RingInv, NEW i \in LiveIndices(hist)
  PROVE  (First(nextSeq, nextPacket) + hist.ring[i].packet - 1) % SeqSpace = hist.ring[i].seq
<1> DEFINE seq == hist.ring[i].seq
           packet == hist.ring[i].packet
           a == nextSeq - nextPacket + 1
<1>1. /\ SeqSpace \in Nat \ {0} /\ nextSeq \in Int /\ nextPacket \in Int
      /\ seq \in 0 .. SeqSpace - 1 /\ packet \in Int
  <2>1. PICK n \in HistSizes \union {0} : hist \in HistoryOfSize(n)
    BY DEF RingInv, TypeOK
  <2>2. hist.ring[i] \in Slot
    BY <2>1 DEF HistoryOfSize, LiveIndices, Indices
  <2> QED BY <2>2, SeqSpaceAssumption DEF Slot, SeqNums, RingInv, TypeOK
<1>2. nextSeq - seq = nextPacket - packet \/ nextSeq - seq = nextPacket - packet - SeqSpace
  BY DEF RingInv, AgeFromNumber, Age, LiveIndices
<1>3. a \in Int
  BY <1>1
<1>4. PICK q \in Int, m \in 0 .. SeqSpace - 1 : a = SeqSpace * q + m /\ m = a % SeqSpace
  <2>1. /\ a = SeqSpace * (a \div SeqSpace) + (a % SeqSpace)
        /\ a \div SeqSpace \in Int /\ a % SeqSpace \in 0 .. SeqSpace - 1
    BY <1>1, <1>3
  <2> QED BY <2>1
<1> HIDE DEF seq, packet
<1>5. \E k \in Int : m + packet - 1 = SeqSpace * k + seq
  <2>1. CASE nextSeq - seq = nextPacket - packet
    <3>1. m + packet - 1 = SeqSpace * (-q) + seq /\ -q \in Int
      <4>1. m + packet - 1 = seq - SeqSpace * q
        BY <1>1, <1>4, <2>1
      <4> QED BY <1>1, <1>4, <4>1
    <3> QED BY <3>1
  <2>2. CASE nextSeq - seq = nextPacket - packet - SeqSpace
    <3>1. m + packet - 1 = SeqSpace * (-q - 1) + seq /\ -q - 1 \in Int
      <4>1. m + packet - 1 = seq - SeqSpace * q - SeqSpace
        BY <1>1, <1>4, <2>2
      <4> QED BY <1>1, <1>4, <4>1
    <3> QED BY <3>1
  <2> QED BY <1>2, <2>1, <2>2
<1>6. PICK k \in Int : m + packet - 1 = SeqSpace * k + seq
  BY <1>5
<1>7. (SeqSpace * k + seq) % SeqSpace = seq
  BY <1>1, ModOf
<1>8. First(nextSeq, nextPacket) = m
  BY <1>4 DEF First
<1> QED BY <1>6, <1>7, <1>8 DEF seq, packet

(***************************************************************************)
(* Every step of the history is a step of the window                        *)
(***************************************************************************)
Numbered(seq, packet) == [first |-> First(seq, packet), next |-> packet]

LEMMA View ==
  /\ RingSeq = RingSeqOf(hist) /\ RingSeq' = RingSeqOf(hist')
  /\ Window!vars = <<hist.size, RingSeqOf(hist), Numbered(nextSeq, nextPacket), now, answer>>
  /\ Window!vars' =
       <<hist'.size, RingSeqOf(hist'), Numbered(nextSeq', nextPacket'), now', answer'>>
<1>1. RingSeq = RingSeqOf(hist) /\ RingSeq' = RingSeqOf(hist')
  BY DEF RingSeq, RingSeqOf, Full, FullOf
<1> QED BY <1>1 DEF Window!vars, Numbered, First

\* What RingInv says of the ring as a sequence.
LEMMA RingOfInv ==
  ASSUME RingInv
  PROVE  /\ hist.size \in Nat /\ hist \in HistoryOfSize(hist.size) /\ ShapeOf(hist)
         /\ hist.store <=> hist.size # 0
         /\ hist.size \in HistSizes \union {0}
<1>1. PICK n \in HistSizes \union {0} : hist \in HistoryOfSize(n)
  BY DEF RingInv, TypeOK
<1>2. hist.size = n /\ n \in Nat
  BY <1>1, SizesAssumption DEF HistoryOfSize
<1>3. ShapeOf(hist)
  BY DEF RingInv, FillShape, ShapeOf, FullOf
<1> QED BY <1>1, <1>2, <1>3 DEF RingInv, Allocated

\* A history without packets is the empty window.
LEMMA NoneLive ==
  ASSUME NEW n \in Nat, NEW h \in HistoryOfSize(n), h.prev = 0,
         \A i \in 0 .. n - 1 : ~Live(h, i)
  PROVE  RingSeqOf(h) = <<>>
<1>1. h.size = n /\ Indices(h) = 0 .. n - 1
  BY DEF HistoryOfSize, Indices
<1>2. FullOf(h) => n = 0
  BY <1>1 DEF FullOf
<1>3. ShapeOf(h) /\ Count(h) = 0
  BY <1>1, <1>2 DEF ShapeOf, Count
<1>4. RingSeqOf(h) \in Seq(Kept) /\ Len(RingSeqOf(h)) = 0
  BY <1>3, RingRead
<1> QED BY <1>4

LEMMA TakeView ==
  ASSUME RingInv, TakeSeqNum
  PROVE  Numbered(nextSeq', nextPacket') = [Numbered(nextSeq, nextPacket) EXCEPT !.next = @ + 1]
<1>1. nextPacket' = nextPacket + 1
  BY DEF TakeSeqNum
<1> QED BY <1>1, FirstStays DEF Numbered

\* A number goes by without a packet being stored.
LEMMA PassStep ==
  ASSUME RingInv, TakeSeqNum, answer' = NoPacket, now' = now,
         hist'.size = hist.size, RingSeqOf(hist') = RingSeqOf(hist)
  PROVE  Window!Next
<1>1. Window!Take
  BY TakeView DEF Window!Take, Numbered, First
<1>2. Window!Pass
  BY <1>1, View DEF Window!Pass
<1> QED BY <1>2 DEF Window!Next

LEMMA InitWindow == Init => Window!Init
<1> SUFFICES ASSUME Init PROVE Window!Init
  OBVIOUS
<1>1. EmptySlot \in Slot
  BY SeqSpaceAssumption DEF EmptySlot, Slot, SeqNums, NoPacket, StorageTypes
<1>2. hist = NoHistory /\ hist.size = 0 /\ hist.prev = 0 /\ hist \in HistoryOfSize(0)
  BY <1>1 DEF Init, NoHistory, HistoryOfSize
<1>3. RingSeq = <<>>
  BY <1>2, NoneLive, View
<1>4. /\ (nextSeq - nextPacket + 1) % SeqSpace \in 0 .. SeqSpace - 1 /\ nextPacket = 1
  BY SeqSpaceAssumption, ModWithin DEF Init, SeqNums
<1> QED BY <1>2, <1>3, <1>4, TimeAssumption DEF Init, Window!Init

LEMMA ConfigureWindow ==
  ASSUME RingInv, NEW enable \in BOOLEAN, NEW n \in HistSizes, SetStorePacketsStatus(enable, n)
  PROVE  Window!Next
<1>1. UNCHANGED <<nextSeq, nextPacket, now>> /\ answer' = NoPacket
  BY DEF SetStorePacketsStatus
<1>2. EmptySlot \in Slot /\ EmptySlot.len = 0
  BY SeqSpaceAssumption DEF EmptySlot, Slot, SeqNums, NoPacket, StorageTypes
<1>3. hist'.size \in HistSizes \union {0} /\ RingSeqOf(hist') = <<>>
  <2>1. CASE hist' = NoHistory
    <3>1. hist'.size = 0 /\ hist'.prev = 0 /\ hist' \in HistoryOfSize(0)
      BY <1>2, <2>1 DEF NoHistory, HistoryOfSize
    <3> QED BY <3>1, NoneLive
  <2>2. CASE hist' = Allocate(n)
    <3>1. n \in Nat \ {0}
      BY SizesAssumption
    <3>2. /\ hist'.size = n /\ hist'.prev = 0 /\ hist' \in HistoryOfSize(n)
          /\ \A i \in 0 .. n - 1 : ~Live(hist', i)
      BY <1>2, <2>2, <3>1 DEF Allocate, HistoryOfSize, Live
    <3> QED BY <3>1, <3>2, NoneLive
  <2>3. CASE hist' = hist /\ ~hist.store
    <3>1. hist.size = 0 /\ hist \in HistoryOfSize(0)
      BY <2>3, RingOfInv
    <3>2. hist.prev = 0
      BY <3>1 DEF HistoryOfSize
    <3> QED BY <2>3, <3>1, <3>2, NoneLive
  <2> QED BY <2>1, <2>2, <2>3 DEF SetStorePacketsStatus, SetStore, Free
<1>4. Window!Configure
  BY <1>1, <1>3, View DEF Window!Configure
<1> QED BY <1>4 DEF Window!Next

LEMMA PutWindow ==
  ASSUME RingInv, NEW len \in Lens, NEW maxLen \in MaxLens, NEW type \in StorageTypes,
         PutRTPPacket(len, maxLen, type)
  PROVE  Window!Next
<1> DEFINE p == [seq |-> nextSeq, len |-> len, packet |-> nextPacket, type |-> type]
           g == VerifyAndAllocate(hist, maxLen)
           n == hist.size
           slot == SlotFor(p, 0)
<1>1. hist' = Put(hist, p, maxLen) /\ now' = now /\ answer' = NoPacket /\ TakeSeqNum
  BY DEF PutRTPPacket
<1>2. n \in Nat /\ hist \in HistoryOfSize(n) /\ ShapeOf(hist) /\ (hist.store <=> n # 0)
  BY RingOfInv
<1>3. /\ p \in [seq : SeqNums, len : Nat, packet : Nat, type : StorageTypes]
      /\ len \in Nat \ {0} /\ maxLen \in Nat /\ p.len = len /\ p.type = type
  BY LensAssumption DEF RingInv, TypeOK
<1>4. slot \in Slot /\ slot.len > 0 /\ Keep(slot) = [packet |-> nextPacket, len |-> len, sent |-> 0, type |-> type]
  BY <1>3 DEF SlotFor, Slot, Keep
<1> HIDE DEF n
<1>5. /\ g \in HistoryOfSize(n) /\ g.store = hist.store /\ g.prev = hist.prev
      /\ g.ring = hist.ring /\ g.size = n
  <2>1. CASE g = hist
    BY <1>2, <2>1 DEF n
  <2>2. CASE maxLen > hist.max /\ g = [hist EXCEPT !.max = maxLen]
    BY <1>2, <1>3, <2>2 DEF HistoryOfSize
  <2> QED BY <2>1, <2>2 DEF VerifyAndAllocate
<1> HIDE DEF p, g, slot
<1>6. CASE hist' = hist
  BY <1>1, <1>6, PassStep
<1>7. CASE hist' = g
  <2>1. hist'.size = hist.size /\ hist'.prev = hist.prev /\ hist'.ring = hist.ring
    BY <1>5, <1>7 DEF n
  <2>2. /\ Indices(hist') = Indices(hist) /\ LiveIndices(hist') = LiveIndices(hist)
        /\ FullOf(hist') <=> FullOf(hist)
    BY <2>1 DEF Indices, LiveIndices, Live, FullOf
  <2>3. RingSeqOf(hist') = RingSeqOf(hist)
    BY <2>1, <2>2 DEF RingSeqOf
  <2> QED BY <1>1, <2>1, <2>3, PassStep
<1>8. CASE hist.store /\ type # "DontStore" /\ hist' = Advance(WriteSlot(g, p))
  <2>1. n \in Nat \ {0}
    BY <1>2, <1>8
  <2>2. /\ hist' \in HistoryOfSize(n)
        /\ hist'.prev = IF hist.prev + 1 >= n THEN 0 ELSE hist.prev + 1
        /\ hist'.ring = [hist.ring EXCEPT ![hist.prev] = slot]
    <3>1. /\ Advance(WriteSlot(g, p)) \in HistoryOfSize(n)
          /\ Advance(WriteSlot(g, p)).prev = IF g.prev + 1 >= n THEN 0 ELSE g.prev + 1
          /\ Advance(WriteSlot(g, p)).ring = [g.ring EXCEPT ![g.prev] = SlotFor(p, 0)]
      BY <1>3, <1>5, <2>1, StoreFields
    <3> QED BY <1>5, <1>8, <3>1 DEF slot
  <2>3. hist'.size = n
    BY <2>2 DEF HistoryOfSize
  <2> DEFINE a == Append(RingSeqOf(hist), Keep(slot))
  <2>4. RingSeqOf(hist') = IF Len(a) <= n THEN a ELSE SubSeq(a, Len(a) - n + 1, Len(a))
    <3>1. hist \in HistoryOfSize(n) /\ ShapeOf(hist) /\ slot \in Slot /\ slot.len > 0
      BY <1>2, <1>4
    <3>2. ASSUME NEW x \in HistoryOfSize(n),
                 x.prev = IF hist.prev + 1 >= n THEN 0 ELSE hist.prev + 1,
                 x.ring = [hist.ring EXCEPT ![hist.prev] = slot]
          PROVE  RingSeqOf(x) = IF Len(a) <= n THEN a ELSE SubSeq(a, Len(a) - n + 1, Len(a))
      BY <2>1, <3>1, <3>2, StoredLast
    <3> QED BY <2>2, <3>2
  <2>5. a = Append(RingSeq, [packet |-> nextPacket, len |-> len, sent |-> 0, type |-> type])
    BY <1>4, View
  <2> HIDE DEF a
  <2>6. RingSeq' = Window!LastN(a)
    BY <2>4, View DEF Window!LastN, n
  <2>7. Window!Take
    BY <1>1, TakeView DEF Window!Take, Numbered, First
  <2>8. /\ hist.size > 0 /\ hist'.size = hist.size
        /\ \E l \in Lens, t \in StorageTypes \ {"DontStore"} :
             RingSeq' = Window!LastN(Append(RingSeq, [packet |-> nextPacket, len |-> l, sent |-> 0, type |-> t]))
    BY <1>8, <2>1, <2>3, <2>5, <2>6 DEF n
  <2>9. Window!Store
    BY <1>1, <2>7, <2>8 DEF Window!Store
  <2> QED BY <2>9 DEF Window!Next
<1>9. \/ hist' = hist \/ hist' = g
      \/ hist.store /\ type # "DontStore" /\ hist' = Advance(WriteSlot(g, p))
  <2>1. hist' = IF p.type = "DontStore" \/ ~hist.store THEN hist
                ELSE IF p.len > g.max THEN g ELSE Advance(WriteSlot(g, p))
    BY <1>1 DEF Put, g
  <2> QED BY <1>3, <2>1
<1> QED BY <1>6, <1>7, <1>8, <1>9

\* The k-th packet of the window is served when its number is asked for.
LEMMA Served ==
  ASSUME RingInv, NEW k \in 1 .. Count(hist), NEW s, NEW m, NEW r,
         Window!Servable(k, s, m, r)
  PROVE  FindSeqNum(hist, s) = At(hist, k) /\ Fetchable(hist, s, m, r, now)
<1> DEFINE i == At(hist, k)
<1>1. i \in LiveIndices(hist) /\ RingSeq[k] = Keep(hist.ring[i])
  BY RingOfInv, RingRead, View
<1>2. /\ (First(nextSeq, nextPacket) + hist.ring[i].packet - 1) % SeqSpace = s
      /\ m > 0 => now - hist.ring[i].sent >= m
      /\ r => hist.ring[i].type # "DontRetransmit"
  BY <1>1 DEF Window!Servable, Window!NumberOf, First, Keep
<1> HIDE DEF i
<1>3. hist.ring[i].seq = s
  BY <1>1, <1>2, NumberKept
<1>4. FindSeqNum(hist, s) = i
  BY <1>1, <1>3, LookupOfLive
<1>5. hist.store /\ i # NotFound /\ hist.ring[i].len # 0
  <2>1. i \in 0 .. hist.size - 1 /\ hist.ring[i].len > 0 /\ hist.size \in Nat
    BY <1>1, RingOfInv DEF LiveIndices, Live, Indices
  <2>2. hist.size # 0 /\ i # -1 /\ hist.ring[i].len # 0
    BY <2>1
  <2> QED BY <2>2, RingOfInv DEF NotFound
<1> QED BY <1>2, <1>4, <1>5 DEF Fetchable, i

LEMMA FetchWindow ==
  ASSUME RingInv, NEW s \in SeqNums, NEW m \in MinElapsed, NEW r \in BOOLEAN,
         GetPacketAndSetSendTime(s, m, r)
  PROVE  Window!Next
<1> DEFINE n == hist.size
           f == FindSeqNum(hist, s)
<1>1. n \in Nat /\ hist \in HistoryOfSize(n) /\ ShapeOf(hist) /\ (hist.store <=> n # 0)
  BY RingOfInv
<1>2. s \in 0 .. SeqSpace - 1
  BY DEF SeqNums
<1>3. /\ RingSeqOf(hist) \in Seq(Kept) /\ DOMAIN RingSeqOf(hist) = 1 .. Count(hist)
      /\ \A k \in 1 .. Count(hist) :
           At(hist, k) \in LiveIndices(hist) /\ RingSeqOf(hist)[k] = Keep(hist.ring[At(hist, k)])
      /\ \A i \in LiveIndices(hist) : \E k \in 1 .. Count(hist) : At(hist, k) = i
  BY <1>1, RingRead
<1>4. Window!Positions = 1 .. Count(hist)
  BY <1>3, View DEF Window!Positions
<1> HIDE DEF n
<1>5. CASE Fetchable(hist, s, m, r, now)
  <2>1. /\ hist' = [hist EXCEPT !.ring[f].sent = now] /\ answer' = hist.ring[f].packet
        /\ UNCHANGED <<nextSeq, nextPacket, now>>
    BY <1>5 DEF GetPacketAndSetSendTime, MarkSent
  <2>2. n \in Nat \ {0}
    BY <1>1, <1>5 DEF Fetchable
  <2>3. f \in Indices(hist) /\ hist.ring[f].seq = s
    BY <1>1, <1>5, <2>2, FindSeqNumResult DEF Fetchable, Matches
  <2>4. f \in LiveIndices(hist)
    <3>1. hist.ring[f] \in Slot
      BY <1>1, <2>3 DEF HistoryOfSize, Indices
    <3>2. hist.ring[f].len \in Nat /\ hist.ring[f].len # 0
      BY <1>5, <3>1 DEF Slot, Fetchable
    <3> HIDE DEF f
    <3> QED BY <2>3, <3>2 DEF LiveIndices, Live
  <2>5. PICK k \in 1 .. Count(hist) : At(hist, k) = f
    BY <1>3, <2>4
  <2>6. RingSeq[k] = Keep(hist.ring[f])
    BY <1>3, <2>5, View
  <2>7. (First(nextSeq, nextPacket) + hist.ring[f].packet - 1) % SeqSpace = s
    BY <2>3, <2>4, NumberKept
  <2>8. /\ m > 0 => now - hist.ring[f].sent >= m
        /\ r => hist.ring[f].type # "DontRetransmit"
    BY <1>5 DEF Fetchable
  <2> HIDE DEF f
  <2>9. Window!Servable(k, s, m, r)
    BY <2>6, <2>7, <2>8 DEF Window!Servable, Window!NumberOf, First, Keep
  <2>10. RingSeq' = [RingSeq EXCEPT ![k].sent = now]
    <3>1. now \in Nat
      BY DEF RingInv, TypeOK
    <3>2. hist' = [hist EXCEPT !.ring[At(hist, k)].sent = now]
      BY <2>1, <2>5
    <3>3. RingSeqOf([hist EXCEPT !.ring[At(hist, k)].sent = now]) = [RingSeqOf(hist) EXCEPT ![k].sent = now]
      BY <1>1, <2>2, <3>1, SentChanges
    <3> QED BY <3>2, <3>3, View
  <2>11. hist'.size = hist.size
    BY <1>1, <2>1 DEF HistoryOfSize
  <2>12. answer' = RingSeq[k].packet
    BY <2>1, <2>6 DEF Keep
  <2>13. Window!Answer(s, m, r)
    BY <1>4, <2>1, <2>9, <2>10, <2>11, <2>12 DEF Window!Answer
  <2> QED BY <1>2, <2>13 DEF Window!Next
<1>6. CASE ~Fetchable(hist, s, m, r, now)
  <2>1. answer' = NoPacket /\ UNCHANGED <<hist, nextSeq, nextPacket, now>>
    BY <1>6 DEF GetPacketAndSetSendTime
  <2>2. ~\E k \in Window!Positions : Window!Servable(k, s, m, r)
    BY <1>4, <1>6, Served
  <2>3. RingSeq' = RingSeq
    BY <2>1, View
  <2>4. Window!Answer(s, m, r)
    BY <2>1, <2>2, <2>3 DEF Window!Answer
  <2> QED BY <1>2, <2>4 DEF Window!Next
<1> QED BY <1>5, <1>6

LEMMA BestFittingWindow ==
  ASSUME RingInv, NEW size \in Lens, GetBestFittingPacket(size)
  PROVE  Window!Next
<1> DEFINE f == BestFitting(hist, size)
<1>1. /\ UNCHANGED <<hist, nextSeq, nextPacket, now>>
      /\ answer' = IF hist.store /\ f # NotFound THEN hist.ring[f].packet ELSE NoPacket
  BY DEF GetBestFittingPacket
<1>2. /\ hist.size \in Nat /\ hist \in HistoryOfSize(hist.size) /\ ShapeOf(hist)
      /\ hist.store <=> hist.size # 0
  BY RingOfInv
<1>3. /\ Count(hist) \in Nat
      /\ RingSeqOf(hist) \in Seq(Kept) /\ Len(RingSeqOf(hist)) = Count(hist)
      /\ DOMAIN RingSeqOf(hist) = 1 .. Count(hist)
      /\ \A k \in 1 .. Count(hist) :
           At(hist, k) \in LiveIndices(hist) /\ RingSeqOf(hist)[k] = Keep(hist.ring[At(hist, k)])
      /\ \A i \in LiveIndices(hist) : \E k \in 1 .. Count(hist) : At(hist, k) = i
  BY <1>2, RingRead
<1>4. Window!Positions = 1 .. Count(hist)
  BY <1>3, View DEF Window!Positions
<1>5. RingSeq = <<>> <=> LiveIndices(hist) = {}
  <2>1. RingSeq = <<>> <=> Count(hist) = 0
    BY <1>3, View
  <2>2. Count(hist) = 0 => LiveIndices(hist) = {}
    BY <1>3
  <2>3. Count(hist) # 0 => LiveIndices(hist) # {}
    <3>1. Count(hist) # 0 => 1 \in 1 .. Count(hist)
      BY <1>3
    <3> QED BY <1>3, <3>1
  <2> QED BY <2>1, <2>2, <2>3
<1>6. LiveIndices(hist) # {} => hist.store
  BY <1>2 DEF LiveIndices, Indices
<1>7. size \in Nat
  BY LensAssumption
<1>8. Window!AnswerBySize(size)
  <2>1. CASE size < MinRequest \/ LiveIndices(hist) = {}
    <3>1. f = NotFound
      BY <2>1 DEF BestFitting
    <3> QED BY <1>1, <1>5, <2>1, <3>1, View DEF Window!AnswerBySize
  <2>2. CASE ~(size < MinRequest) /\ LiveIndices(hist) # {}
    <3>1. /\ f \in LiveIndices(hist)
          /\ \A j \in LiveIndices(hist) :
               Distance(hist.ring[f].len, size) <= Distance(hist.ring[j].len, size)
      BY <1>7, <2>2, BestFittingIndex
    <3>2. f # NotFound
      BY <1>7, <2>2, BestFittingIndex
    <3> HIDE DEF f
    <3>3. PICK k \in 1 .. Count(hist) : At(hist, k) = f
      BY <1>3, <3>1, <3>2
    <3>4. \A j \in 1 .. Count(hist) : RingSeq[j] = Keep(hist.ring[At(hist, j)])
      BY <1>3, View
    <3>5. \A j \in 1 .. Count(hist) :
            Window!Abs(RingSeq[j].len - size) = Distance(hist.ring[At(hist, j)].len, size)
      <4> SUFFICES ASSUME NEW j \in 1 .. Count(hist)
                   PROVE  Window!Abs(RingSeq[j].len - size) = Distance(hist.ring[At(hist, j)].len, size)
        OBVIOUS
      <4>1. RingSeq[j].len = hist.ring[At(hist, j)].len
        <5>1. RingSeq[j] = Keep(hist.ring[At(hist, j)])
          BY <3>4
        <5>2. \A slot : Keep(slot).len = slot.len
          BY DEF Keep
        <5> QED BY ONLY <5>1, <5>2, Zenon
      <4>2. hist.ring[At(hist, j)].len \in Nat
        <5>1. hist.ring[At(hist, j)] \in Slot
          BY <1>2, <1>3 DEF HistoryOfSize, LiveIndices, Indices
        <5> QED BY <5>1 DEF Slot
      <4> QED BY <1>7, <4>1, <4>2 DEF Window!Abs, Distance
    <3>6. \A j \in 1 .. Count(hist) : Window!Abs(RingSeq[k].len - size) <= Window!Abs(RingSeq[j].len - size)
      <4> SUFFICES ASSUME NEW j \in 1 .. Count(hist)
                   PROVE  Window!Abs(RingSeq[k].len - size) <= Window!Abs(RingSeq[j].len - size)
        OBVIOUS
      <4>1. Window!Abs(RingSeq[k].len - size) = Distance(hist.ring[f].len, size)
        BY <3>3, <3>5
      <4>2. Window!Abs(RingSeq[j].len - size) = Distance(hist.ring[At(hist, j)].len, size)
        BY <3>5
      <4>3. Distance(hist.ring[f].len, size) <= Distance(hist.ring[At(hist, j)].len, size)
        BY <1>3, <3>1
      <4> QED BY ONLY <4>1, <4>2, <4>3, Zenon
    <3>7. answer' = RingSeq[k].packet
      <4>1. answer' = hist.ring[f].packet
        BY <1>1, <1>6, <2>2, <3>2
      <4>2. RingSeq[k] = Keep(hist.ring[f])
        BY <3>3, <3>4
      <4>3. \A slot : Keep(slot).packet = slot.packet
        BY DEF Keep
      <4> QED BY ONLY <4>1, <4>2, <4>3, Zenon
    <3>8. RingSeq' = RingSeq
      BY <1>1, View
    <3> QED BY <1>1, <1>4, <1>5, <2>2, <3>6, <3>7, <3>8 DEF Window!AnswerBySize
  <2> QED BY <2>1, <2>2
<1> QED BY <1>8 DEF Window!Next

LEMMA StepWindow == ASSUME RingInv, [Next]_vars PROVE [Window!Next]_(Window!vars)
<1>1. ASSUME NEW enable \in BOOLEAN, NEW n \in HistSizes, SetStorePacketsStatus(enable, n)
      PROVE  Window!Next
  BY <1>1, ConfigureWindow
<1>2. ASSUME NEW len \in Lens, NEW maxLen \in MaxLens, NEW type \in StorageTypes,
             PutRTPPacket(len, maxLen, type)
      PROVE  Window!Next
  BY <1>2, PutWindow
<1>3. CASE SkipSeqNum
  BY <1>3, PassStep DEF SkipSeqNum
<1>4. ASSUME NEW s \in SeqNums, NEW m \in MinElapsed, NEW r \in BOOLEAN,
             GetPacketAndSetSendTime(s, m, r)
      PROVE  Window!Next
  BY <1>4, FetchWindow
<1>5. ASSUME NEW size \in Lens, GetBestFittingPacket(size)
      PROVE  Window!Next
  BY <1>5, BestFittingWindow
<1>6. CASE Tick
  <2>1. RingSeq' = RingSeq /\ now' > now
    BY <1>6, View DEF Tick, RingInv, TypeOK
  <2>2. Window!TimePasses
    BY <1>6, <2>1 DEF Tick, Window!TimePasses
  <2> QED BY <2>2 DEF Window!Next
<1>7. CASE UNCHANGED vars
  BY <1>7, View DEF vars
<1> QED BY <1>1, <1>2, <1>3, <1>4, <1>5, <1>6, <1>7 DEF Next

(* The ring implements the window of the last packets: whatever is asked of *)
(* it, by number, by age or by size, it answers as the window does, for     *)
(* every ring size, number space and stream (FindSeqNum, PutRTPPacket).     *)
THEOREM ImplementsWindow == Spec => WindowSpec
<1>1. Init => Window!Init
  BY InitWindow
<1>2. RingInv /\ [Next]_vars => [Window!Next]_(Window!vars)
  BY StepWindow
<1> QED BY <1>1, <1>2, RingInvariant, PTL DEF Spec, WindowSpec, Window!Spec
=============================================================================
