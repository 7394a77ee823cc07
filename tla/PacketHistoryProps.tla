-------------------------- MODULE PacketHistoryProps --------------------------
(***************************************************************************)
(* What must hold of the packet history.                                    *)
(***************************************************************************)
EXTENDS PacketHistory, Sequences

(* Every variable keeps its type; an unallocated history has no slots, and  *)
(* prev_index_ is always a slot that can be written (PutRTPPacket).         *)
HistoryOfSize(n) ==
  [store : BOOLEAN, prev : {0} \union 0 .. n - 1, max : Nat,
   size : {n}, ring : [0 .. n - 1 -> Slot]]

TypeOK ==
  /\ \E n \in HistSizes \union {0} : hist \in HistoryOfSize(n)
  /\ nextSeq \in SeqNums
  /\ nextPacket \in Nat \ {0}
  /\ now \in Nat
  /\ answer \in Nat

(* A lookup finds a stored packet exactly when one was stored under that    *)
(* number, and it finds that packet: neither the position hint computed by  *)
(* subtraction of wrapped 16-bit numbers, nor the linear search, ever lands *)
(* on another slot, on a packet of an earlier turn of the ring, or on an    *)
(* empty slot, whose number reads 0 (FindSeqNum, HasRTPPacket).             *)
LookupExact ==
  hist.store =>
    \A s \in SeqNums :
      /\ HasRTPPacket(hist, s) <=> \E i \in LiveIndices(hist) : hist.ring[i].seq = s
      /\ \A i \in LiveIndices(hist) : hist.ring[i].seq = s => FindSeqNum(hist, s) = i

(***************************************************************************)
(* The inductive invariant behind LookupExact.                              *)
(***************************************************************************)

\* A freed history has no slots; an allocated one has.
Allocated == hist.store <=> hist.size # 0

\* The slots fill from the first on, and once full they stay full.
FillShape ==
  \/ \A i \in Indices(hist) : Live(hist, i)
  \/ \A i \in Indices(hist) : Live(hist, i) <=> i < hist.prev

\* Empty slots are zero, and no stored packet is longer than the buffers.
SlotShape ==
  \A i \in Indices(hist) :
    /\ ~Live(hist, i) => hist.ring[i] = EmptySlot
    /\ hist.ring[i].len <= hist.max

\* No packet is stored twice.
DistinctPackets ==
  \A i, j \in LiveIndices(hist) :
    hist.ring[i].packet = hist.ring[j].packet => i = j

Age(i) == nextPacket - hist.ring[i].packet

\* Ages fit the number space, so the number tells the age, up to one wrap.
AgeFromNumber ==
  \A i \in Indices(hist) :
    Live(hist, i) =>
      /\ Age(i) \in 1 .. SeqSpace
      /\ nextSeq - hist.ring[i].seq \in {Age(i), Age(i) - SeqSpace}

(* The inductive invariant: the shape of the ring, and how the number of a  *)
(* stored packet relates to its age (PutRTPPacket, Allocate, Free).         *)
RingInv ==
  /\ TypeOK
  /\ Allocated
  /\ FillShape
  /\ SlotShape
  /\ DistinctPackets
  /\ AgeFromNumber

(***************************************************************************)
(* The refinement: the ring read from its oldest packet is the window.      *)
(***************************************************************************)
Full == \A i \in Indices(hist) : Live(hist, i)

RingSeq ==
  LET count == Cardinality(LiveIndices(hist))
      start == IF Full THEN hist.prev ELSE 0
      slot(k) == hist.ring[(start + k - 1) % hist.size]
  IN  [k \in 1 .. count |-> [packet |-> slot(k).packet, len |-> slot(k).len,
                             sent |-> slot(k).sent, type |-> slot(k).type]]

Window == INSTANCE PacketWindow WITH
  cap <- hist.size,
  win <- RingSeq,
  numbers <- [first |-> (nextSeq - nextPacket + 1) % SeqSpace, next |-> nextPacket]

(* The ring implements the window of the last packets stored: every request *)
(* is answered as the abstract window answers it.                           *)
WindowSpec == Window!Spec
=============================================================================
