---------------------------- MODULE PacketHistory ----------------------------
(***************************************************************************)
(* RTPPacketHistory with its callers: the packetiser that takes sequence    *)
(* numbers in order and stores the packets, RTCP and pacer threads that     *)
(* fetch, and padding, which takes numbers and stores nothing.  One critical*)
(* section serialises the operations, so each is one action.                *)
(***************************************************************************)
EXTENDS PacketRing

CONSTANTS
  HistSizes,      \* values of number_to_store
  Lens,           \* packet lengths, headers included
  MaxLens,        \* values of PutRTPPacket's max_packet_length
  MinElapsed,     \* values of min_elapsed_time_ms
  StartTime,      \* the clock's value when the history is created
  MaxTime,        \* bound on the clock
  MaxPackets      \* bound on the number of sequence numbers taken

ASSUME SizesAssumption == HistSizes \subseteq Nat \ {0}
ASSUME LensAssumption == Lens \subseteq Nat \ {0} /\ MaxLens \subseteq Nat \ {0}
ASSUME TimeAssumption ==
  /\ StartTime \in Nat
  /\ MinElapsed \subseteq Nat
  /\ \A m \in MinElapsed : m <= StartTime

VARIABLES
  hist,        \* the object
  nextSeq,     \* RTPSender::sequence_number_
  nextPacket,  \* the stream position that nextSeq stands for
  now,         \* clock_
  answer       \* the packet the last fetch handed out, or NoPacket

vars == <<hist, nextSeq, nextPacket, now, answer>>

Init ==
  /\ hist = NoHistory
  /\ nextSeq \in SeqNums
  /\ nextPacket = 1
  /\ now = StartTime
  /\ answer = NoPacket

SetStorePacketsStatus(enable, n) ==
  /\ hist' = SetStore(hist, enable, n)
  /\ answer' = NoPacket
  /\ UNCHANGED <<nextSeq, nextPacket, now>>

(* What keeps sequence numbers distinct: no packet stays in the ring while  *)
(* the stream goes once around the whole sequence number space.             *)
WindowFits(h) ==
  \A i \in Indices(h) : Live(h, i) => nextPacket + 1 - h.ring[i].packet <= SeqSpace

TakeSeqNum ==
  /\ nextPacket < MaxPackets
  /\ nextPacket' = nextPacket + 1
  /\ nextSeq' = NextSeqNum(nextSeq)

PutRTPPacket(len, maxLen, type) ==
  LET p == [seq |-> nextSeq, len |-> len, packet |-> nextPacket, type |-> type]
  IN  /\ TakeSeqNum
      /\ WindowFits(Put(hist, p, maxLen))
      /\ hist' = Put(hist, p, maxLen)
      /\ answer' = NoPacket
      /\ UNCHANGED now

\* A padding packet takes a number that is never stored.
SkipSeqNum ==
  /\ TakeSeqNum
  /\ WindowFits(hist)
  /\ answer' = NoPacket
  /\ UNCHANGED <<hist, now>>

GetPacketAndSetSendTime(s, minElapsed, retransmit) ==
  IF Fetchable(hist, s, minElapsed, retransmit, now)
  THEN /\ hist' = MarkSent(hist, s, now)
       /\ answer' = hist.ring[FindSeqNum(hist, s)].packet
       /\ UNCHANGED <<nextSeq, nextPacket, now>>
  ELSE /\ answer' = NoPacket
       /\ UNCHANGED <<hist, nextSeq, nextPacket, now>>

GetBestFittingPacket(size) ==
  /\ answer' = IF hist.store /\ BestFitting(hist, size) # NotFound
               THEN hist.ring[BestFitting(hist, size)].packet ELSE NoPacket
  /\ UNCHANGED <<hist, nextSeq, nextPacket, now>>

Tick ==
  /\ now < MaxTime
  /\ now' = now + 1
  /\ UNCHANGED <<hist, nextSeq, nextPacket, answer>>

Next ==
  \/ \E enable \in BOOLEAN, n \in HistSizes : SetStorePacketsStatus(enable, n)
  \/ \E len \in Lens, maxLen \in MaxLens, type \in StorageTypes :
       PutRTPPacket(len, maxLen, type)
  \/ SkipSeqNum
  \/ \E s \in SeqNums, m \in MinElapsed, r \in BOOLEAN :
       GetPacketAndSetSendTime(s, m, r)
  \/ \E size \in Lens : GetBestFittingPacket(size)
  \/ Tick

Spec == Init /\ [][Next]_vars
=============================================================================
