---------------------------- MODULE PacketWindow -----------------------------
(***************************************************************************)
(* What RTPPacketHistory promises, without ring, hint or stored numbers: a  *)
(* window of the last `cap` packets that were stored, in stream order.  A   *)
(* request names a sequence number; it is answered with the packet of the   *)
(* window that was sent under this number, if there is one, not before the  *)
(* minimum time since the packet was last handed out, and never with a      *)
(* packet stored as not to be retransmitted.                                *)
(***************************************************************************)
EXTENDS Integers, Sequences

CONSTANTS SeqSpace, HistSizes, Lens, MaxLens, MinRequest, MinElapsed, StorageTypes, NoPacket

VARIABLES
  cap,       \* 0: packets are not kept
  win,       \* the packets kept, the oldest first
  numbers,   \* the stream: the sequence number of every position taken so far
  now,
  answer

vars == <<cap, win, numbers, now, answer>>

Positions == DOMAIN win
Abs(x) == IF x < 0 THEN -x ELSE x

Init ==
  /\ cap = 0 /\ win = <<>> /\ answer = NoPacket
  /\ numbers \in [first : 0 .. SeqSpace - 1, next : {1}]
  /\ now \in Nat

Configure ==
  /\ cap' \in HistSizes \union {0}
  /\ win' = <<>>
  /\ answer' = NoPacket
  /\ UNCHANGED <<numbers, now>>

Take == numbers' = [numbers EXCEPT !.next = @ + 1]

\* The number position p is sent under.
NumberOf(p) == (numbers.first + p - 1) % SeqSpace

LastN(q) == IF Len(q) <= cap THEN q ELSE SubSeq(q, Len(q) - cap + 1, Len(q))

Store ==
  /\ Take
  /\ cap > 0
  /\ \E len \in Lens, type \in StorageTypes \ {"DontStore"} :
       win' = LastN(Append(win, [packet |-> numbers.next, len |-> len,
                                 sent |-> 0, type |-> type]))
  /\ answer' = NoPacket
  /\ UNCHANGED <<cap, now>>

\* A number taken for a packet that is not kept.
Pass ==
  /\ Take
  /\ answer' = NoPacket
  /\ UNCHANGED <<cap, win, now>>

Servable(i, s, minElapsed, retransmit) ==
  /\ NumberOf(win[i].packet) = s
  /\ minElapsed > 0 => now - win[i].sent >= minElapsed
  /\ retransmit => win[i].type # "DontRetransmit"

Answer(s, minElapsed, retransmit) ==
  \/ \E i \in Positions :
       /\ Servable(i, s, minElapsed, retransmit)
       /\ answer' = win[i].packet
       /\ win' = [win EXCEPT ![i].sent = now]
       /\ UNCHANGED <<cap, numbers, now>>
  \/ /\ ~\E i \in Positions : Servable(i, s, minElapsed, retransmit)
     /\ answer' = NoPacket
     /\ UNCHANGED <<cap, win, numbers, now>>

\* Padding with old packets: some packet whose length is nearest.
AnswerBySize(size) ==
  /\ IF size < MinRequest \/ win = <<>>
     THEN answer' = NoPacket
     ELSE \E i \in Positions :
            /\ \A j \in Positions : Abs(win[i].len - size) <= Abs(win[j].len - size)
            /\ answer' = win[i].packet
  /\ UNCHANGED <<cap, win, numbers, now>>

TimePasses ==
  /\ now' > now
  /\ UNCHANGED <<cap, win, numbers, answer>>

Next ==
  \/ Configure
  \/ Store
  \/ Pass
  \/ \E s \in 0 .. SeqSpace - 1, m \in MinElapsed, r \in BOOLEAN : Answer(s, m, r)
  \/ \E size \in Lens : AnswerBySize(size)
  \/ TimePasses

Spec == Init /\ [][Next]_vars
=============================================================================
