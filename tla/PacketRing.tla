----------------------------- MODULE PacketRing ------------------------------
(***************************************************************************)
(* The data structure of RTPPacketHistory                                   *)
(* (webrtc/modules/rtp_rtcp/source/rtp_packet_history.cc): a ring of sent   *)
(* packets.  The fields of the object are one record h, and each method is  *)
(* an operator on it; PacketHistory and SendPath call them.                 *)
(*                                                                          *)
(* Bytes are abstracted to `packet`, the position of the packet in the      *)
(* sender's stream; the stored 16-bit number `seq` is that position as it   *)
(* appears on the wire, and wraps.                                          *)
(***************************************************************************)
EXTENDS Integers, FiniteSets

CONSTANTS
  SeqSpace,       \* number of RTP sequence numbers (2^16 in the code)
  MinRequest      \* kMinPacketRequestBytes

ASSUME SeqSpaceAssumption == SeqSpace \in Nat \ {0, 1}

StorageTypes == {"DontStore", "DontRetransmit", "AllowRetransmission"}
NotFound == -1
NoPacket == 0      \* packets are numbered from 1
SeqNums == 0 .. SeqSpace - 1

NextSeqNum(s) == IF s = SeqSpace - 1 THEN 0 ELSE s + 1

(* A slot holds the elements of the parallel vectors at one index; a slot   *)
(* that resize() has just created is zero in all of them.                   *)
Slot == [seq : SeqNums, len : Nat, packet : Nat, sent : Nat, type : StorageTypes]
EmptySlot ==
  [seq |-> 0, len |-> 0, packet |-> NoPacket, sent |-> 0, type |-> "DontStore"]

Indices(h) == 0 .. h.size - 1
Live(h, i) == h.ring[i].len > 0
LiveIndices(h) == {i \in Indices(h) : Live(h, i)}

NoHistory == [store |-> FALSE, prev |-> 0, max |-> 0, size |-> 0,
              ring |-> [i \in 0 .. -1 |-> EmptySlot]]

Allocate(n) == [store |-> TRUE, prev |-> 0, max |-> 0, size |-> n,
                ring |-> [i \in 0 .. n - 1 |-> EmptySlot]]

Free(h) == IF h.store THEN NoHistory ELSE h

\* The code frees a live history before it allocates another.
SetStore(h, enable, n) ==
  IF enable THEN Allocate(n) ELSE Free(h)

VerifyAndAllocate(h, maxLen) ==
  IF h.store /\ maxLen > h.max THEN [h EXCEPT !.max = maxLen] ELSE h

SlotFor(p, sent) ==
  [seq |-> p.seq, len |-> p.len, packet |-> p.packet, sent |-> sent, type |-> p.type]

\* Mutant: the send time of the packet overwritten is kept.
WriteSlot_KeepsSendTime(h, p) ==
  [h EXCEPT !.ring[h.prev] = SlotFor(p, h.ring[h.prev].sent)]

WriteSlot(h, p) == [h EXCEPT !.ring[h.prev] = SlotFor(p, 0)]

\* Mutant: the index wraps one slot too late.
Advance_LateWrap(h) ==
  [h EXCEPT !.prev = IF h.prev + 1 > h.size THEN 0 ELSE h.prev + 1]

Advance(h) == [h EXCEPT !.prev = IF h.prev + 1 >= h.size THEN 0 ELSE h.prev + 1]

\* Mutant: the index moves also past a packet that did not fit.
Put_AdvancesOnFailure(h, p, maxLen) ==
  LET g == VerifyAndAllocate(h, maxLen)
  IN  IF p.type = "DontStore" \/ ~h.store THEN h
      ELSE IF p.len > g.max THEN Advance(g) ELSE Advance(WriteSlot(g, p))

Put(h, p, maxLen) ==
  LET g == VerifyAndAllocate(h, maxLen)
  IN  IF p.type = "DontStore" \/ ~h.store THEN h
      ELSE IF p.len > g.max THEN g ELSE Advance(WriteSlot(g, p))

\* The slot written last, and the slot the distance to its number points at.
LastIndex(h) == IF h.prev > 0 THEN h.prev - 1 ELSE h.size - 1
Hint(h, s) ==
  LET idx == (h.prev - 1) - (h.ring[LastIndex(h)].seq - s)
  IN  IF idx \in Indices(h) THEN idx ELSE LastIndex(h)

Matches(h, s) == {i \in Indices(h) : h.ring[i].seq = s}

\* Mutant: the hint is trusted without comparing the stored number.
FindSeqNum_TrustsHint(h, s) == Hint(h, s)

\* The hinted slot when it matches, else the first match of a linear search.
FindSeqNum(h, s) ==
  IF h.ring[Hint(h, s)].seq = s THEN Hint(h, s)
  ELSE IF Matches(h, s) = {} THEN NotFound
  ELSE CHOOSE i \in Matches(h, s) : \A j \in Matches(h, s) : i <= j

HasRTPPacket(h, s) ==
  /\ h.store
  /\ FindSeqNum(h, s) # NotFound
  /\ h.ring[FindSeqNum(h, s)].len \in 1 .. h.max

\* The conditions under which GetPacketAndSetSendTime hands out a packet.
Fetchable(h, s, minElapsed, retransmit, t) ==
  /\ h.store
  /\ FindSeqNum(h, s) # NotFound
  /\ LET slot == h.ring[FindSeqNum(h, s)]
     IN  /\ slot.len # 0
         /\ minElapsed > 0 => t - slot.sent >= minElapsed
         /\ retransmit => slot.type # "DontRetransmit"

MarkSent(h, s, t) == [h EXCEPT !.ring[FindSeqNum(h, s)].sent = t]

Distance(a, b) == IF a < b THEN b - a ELSE a - b

BestFitting(h, size) ==
  IF size < MinRequest \/ LiveIndices(h) = {} THEN NotFound
  ELSE CHOOSE i \in LiveIndices(h) : \A j \in LiveIndices(h) :
         LET di == Distance(h.ring[i].len, size)
             dj == Distance(h.ring[j].len, size)
         IN  di < dj \/ (di = dj /\ i <= j)
=============================================================================
