----------------------------- MODULE PacedSender -----------------------------
(***************************************************************************)
(* PacedSender (webrtc/modules/pacing/paced_sender.cc): packets are queued  *)
(* by priority and sent by the process thread at the paced rate.            *)
(*                                                                          *)
(* One lock guards the object, and Process releases it around each of its   *)
(* two callbacks; so Process is a sequence of atomic pieces, with the other *)
(* threads' calls between them.  Times are kept as times elapsed since, each*)
(* counted up to the bound past which no comparison tells it apart; rates   *)
(* are in bytes per unit of time.                                           *)
(***************************************************************************)
EXTENDS Integers, Sequences

CONSTANTS
  Ids,            \* packets, as (ssrc, sequence number)
  Sizes,          \* packet lengths
  Captures,       \* capture times, only ever compared with each other
  PriosUsed,      \* the priorities the callers use
  MaxRates,       \* values of max_bitrate_kbps
  MinRates,       \* values of min_bitrate_kbps
  QueueLimits,    \* values of max_queue_length_ms besides a negative one
  MinInterval,    \* kMinPacketLimitMs
  MaxInterval,    \* kMaxIntervalTimeMs
  MaxNoSend,      \* kMaxQueueTimeWithoutSendingUs
  BudgetFloor,    \* the 500 ms of IntervalBudget::UseBudget
  MaxAge,         \* bound on the age of a packet: no comparison tells it from older
  Calls           \* the control calls the other threads make

ASSUME PacerAssumption ==
  /\ Sizes \subseteq Nat \ {0} /\ Captures \subseteq Nat
  /\ PriosUsed \subseteq {"High", "Normal", "Low"}
  /\ MaxRates \subseteq Nat /\ MinRates \subseteq Nat /\ QueueLimits \subseteq Nat
  /\ {MinInterval, MaxInterval, MaxNoSend, BudgetFloor} \subseteq Nat \ {0}
  /\ MinInterval <= MaxInterval
  /\ MaxAge \in Nat /\ \A limit \in QueueLimits : limit < MaxAge

AllPriorities == {"High", "Normal", "Low"}
Packet == [id : Ids, bytes : Sizes, capture : Captures, retransmission : BOOLEAN,
           age : 0 .. MaxAge]

Larger(a, b) == IF a < b THEN b ELSE a
Smaller(a, b) == IF a < b THEN a ELSE b
NoLimit == -1
Limits == QueueLimits \union {NoLimit}

VARIABLES
  pacer,   \* the object
  proc     \* where the process thread is in PacedSender::Process

vars == <<pacer, proc>>

Idle == [at |-> "idle"]
Sending(prio, packet) == [at |-> "sending", prio |-> prio, packet |-> packet]
Padding(bytes) == [at |-> "padding", bytes |-> bytes]

(***************************************************************************)
(* IntervalBudget and PacketList                                            *)
(***************************************************************************)
Budget(rate) == [rate |-> rate, left |-> 0]

\* Mutant: a deficit of the last interval is forgotten.
IncreaseBudget_ForgetsDeficit(b, elapsed) == [b EXCEPT !.left = b.rate * elapsed]

IncreaseBudget(b, elapsed) ==
  [b EXCEPT !.left = Smaller(@, 0) + b.rate * elapsed]

\* Mutant: a deficit is not limited.
UseBudget_NoFloor(b, bytes) == [b EXCEPT !.left = @ - bytes]

UseBudget(b, bytes) ==
  [b EXCEPT !.left = Larger(@ - bytes, -(BudgetFloor * b.rate))]

IdsIn(q) == {q[i].id : i \in DOMAIN q}

\* Mutant: the list accepts duplicates.
PushBack_Duplicates(q, packet) == Append(q, packet)

PushBack(q, packet) == IF packet.id \in IdsIn(q) THEN q ELSE Append(q, packet)

(***************************************************************************)
(* What is sent next                                                        *)
(***************************************************************************)
Waiting(p, prio) == p.queue[prio] # <<>>
AllSent(p) == \A prio \in AllPriorities : ~Waiting(p, prio)

\* The age of the oldest packet that heads a list.
QueueInMs(p) ==
  LET ages == {Head(p.queue[prio]).age : prio \in {r \in AllPriorities : Waiting(p, r)}}
  IN  IF ages = {} THEN 0 ELSE CHOOSE a \in ages : \A b \in ages : b <= a

FirstOf(p, prios) ==
  IF Waiting(p, "High") THEN "High"
  ELSE IF Waiting(p, "Normal") THEN "Normal"
  ELSE IF Waiting(p, "Low") /\ "Low" \in prios THEN "Low"
  ELSE "None"

\* Among the packets that have waited too long, the one captured first.
OldestOf(p) ==
  IF /\ Waiting(p, "Normal")
     /\ \/ ~Waiting(p, "High")
        \/ Head(p.queue["High"]).capture > Head(p.queue["Normal"]).capture
  THEN "Normal" ELSE FirstOf(p, {"High"})

\* Mutant: without budget nothing is sent, however long it takes.
ShouldSendNextPacket_NoOverride(p) ==
  IF p.media.left > 0 THEN FirstOf(p, AllPriorities) ELSE "None"

\* Mutant: the override for the time without sending forgets normal packets.
ShouldSendNextPacket_HighOnly(p) ==
  IF p.media.left > 0 THEN FirstOf(p, AllPriorities)
  ELSE IF p.sinceSend > MaxNoSend /\ Waiting(p, "High") THEN "High"
  ELSE IF p.limit >= 0 /\ QueueInMs(p) > p.limit THEN OldestOf(p)
  ELSE "None"

ShouldSendNextPacket(p) ==
  IF p.media.left > 0 THEN FirstOf(p, AllPriorities)
  ELSE IF p.sinceSend > MaxNoSend /\ FirstOf(p, {"High", "Normal"}) # "None"
       THEN FirstOf(p, {"High", "Normal"})
  ELSE IF p.limit >= 0 /\ QueueInMs(p) > p.limit THEN OldestOf(p)
  ELSE "None"

UseBudgets(p, bytes) ==
  [p EXCEPT !.media = UseBudget(@, bytes), !.padding = UseBudget(@, bytes)]

\* Taking a packet charges the budgets before the callback has sent it.
Charge(p, bytes) == [UseBudgets(p, bytes) EXCEPT !.sinceSend = 0]

PopFront(p, prio) == [p EXCEPT !.queue[prio] = Tail(@)]

\* Mutant: the packet leaves its list when it is taken, not when it was sent.
Continue_PopsBeforeSending(p) ==
  LET prio == ShouldSendNextPacket(p)
  IN  IF prio # "None"
      THEN /\ pacer' = Charge(PopFront(p, prio), Head(p.queue[prio]).bytes)
           /\ proc' = Sending(prio, Head(p.queue[prio]))
      ELSE pacer' = p /\ proc' = Idle

\* The loop of Process up to the next release of the lock, from the object p.
Continue(p) ==
  LET prio == ShouldSendNextPacket(p)
  IN  IF prio # "None"
      THEN /\ pacer' = Charge(p, Head(p.queue[prio]).bytes)
           /\ proc' = Sending(prio, Head(p.queue[prio]))
      ELSE /\ pacer' = p
           /\ proc' = IF AllSent(p) /\ p.padding.left > 0
                      THEN Padding(p.padding.left) ELSE Idle

(***************************************************************************)
(* The process thread                                                       *)
(***************************************************************************)
Process ==
  LET p == [pacer EXCEPT !.sinceUpdate = 0]
  IN  /\ proc = Idle
      /\ pacer.sinceUpdate >= MinInterval        \* TimeUntilNextProcess() = 0
      /\ IF ~pacer.enabled \/ pacer.paused
         THEN pacer' = p /\ proc' = Idle
         ELSE Continue([p EXCEPT
                !.media = IncreaseBudget(@, pacer.sinceUpdate),
                !.padding = IncreaseBudget(@, pacer.sinceUpdate)])

\* Mutant: a packet that could not be sent is dropped.
PacketSent_DropsOnFailure(success) ==
  /\ proc.at = "sending"
  /\ IF success THEN Continue(PopFront(pacer, proc.prio))
     ELSE pacer' = PopFront(pacer, proc.prio) /\ proc' = Idle

\* TimeToSendPacket returns.
PacketSent(success) ==
  /\ proc.at = "sending"
  /\ IF success THEN Continue(PopFront(pacer, proc.prio))
     ELSE pacer' = pacer /\ proc' = Idle

\* TimeToSendPadding returns the bytes it sent.
PaddingSent(bytes) ==
  /\ proc.at = "padding"
  /\ pacer' = UseBudgets(pacer, bytes)
  /\ proc' = Idle

(***************************************************************************)
(* The other threads' calls                                                 *)
(***************************************************************************)
\* While the pacer is disabled the caller sends the packet itself.
SendPacket(prio, id, bytes, capture, retransmission) ==
  /\ pacer' = IF pacer.enabled
              THEN [pacer EXCEPT !.queue[prio] =
                     PushBack(@, [id |-> id, bytes |-> bytes, capture |-> capture,
                                  retransmission |-> retransmission, age |-> 0])]
              ELSE pacer
  /\ UNCHANGED proc

Pause == pacer' = [pacer EXCEPT !.paused = TRUE] /\ UNCHANGED proc
Resume == pacer' = [pacer EXCEPT !.paused = FALSE] /\ UNCHANGED proc
SetStatus(enable) == pacer' = [pacer EXCEPT !.enabled = enable] /\ UNCHANGED proc

UpdateBitrate(maxRate, minRate) ==
  /\ pacer' = [pacer EXCEPT !.media.rate = maxRate, !.padding.rate = minRate]
  /\ UNCHANGED proc

SetMaxQueueLength(limit) == pacer' = [pacer EXCEPT !.limit = limit] /\ UNCHANGED proc

Older(q) == [i \in DOMAIN q |-> [q[i] EXCEPT !.age = Smaller(@ + 1, MaxAge)]]

\* Time passes, also while a callback runs.
Tick ==
  /\ pacer' = [pacer EXCEPT
                !.sinceUpdate = Smaller(@ + 1, MaxInterval),
                !.sinceSend = Smaller(@ + 1, MaxNoSend + 1),
                !.queue = [prio \in AllPriorities |-> Older(@[prio])]]
  /\ UNCHANGED proc

(* The constructor grants one interval of budget and leaves the time of the *)
(* last send unset.                                                         *)
Init ==
  /\ \E maxRate \in MaxRates, minRate \in MinRates, sinceSend \in 0 .. MaxNoSend + 1,
        limit \in Limits :
       pacer = [enabled |-> TRUE, paused |-> FALSE, limit |-> limit,
                media |-> IncreaseBudget(Budget(maxRate), MinInterval),
                padding |-> IncreaseBudget(Budget(minRate), MinInterval),
                queue |-> [prio \in AllPriorities |-> <<>>],
                sinceUpdate |-> 0, sinceSend |-> sinceSend]
  /\ proc = Idle

Control ==
  \/ "Pause" \in Calls /\ (Pause \/ Resume)
  \/ "SetStatus" \in Calls /\ \E enable \in BOOLEAN : SetStatus(enable)
  \/ "UpdateBitrate" \in Calls
       /\ \E maxRate \in MaxRates, minRate \in MinRates : UpdateBitrate(maxRate, minRate)
  \/ "SetMaxQueueLength" \in Calls /\ \E limit \in Limits : SetMaxQueueLength(limit)

Push ==
  \E prio \in PriosUsed, id \in Ids, bytes \in Sizes, capture \in Captures :
    SendPacket(prio, id, bytes, capture, prio = "High")

PaddingSizes == Sizes \union {0}

Next ==
  \/ Process
  \/ \E success \in BOOLEAN : PacketSent(success)
  \/ \E bytes \in PaddingSizes : PaddingSent(bytes)
  \/ Push
  \/ Control
  \/ Tick

Spec == Init /\ [][Next]_vars
=============================================================================
