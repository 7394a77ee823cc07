--------------------------- MODULE PacedSenderProps ---------------------------
(***************************************************************************)
(* What must hold of the pacer.                                             *)
(***************************************************************************)
EXTENDS PacedSender

(* Types, and the bounds of the budgets: never more than the rate allows in *)
(* the longest interval, never below the floor of the highest rate.         *)
TypeOK ==
  /\ DOMAIN pacer = {"enabled", "paused", "limit", "media", "padding", "queue",
                     "sinceUpdate", "sinceSend"}
  /\ pacer.enabled \in BOOLEAN /\ pacer.paused \in BOOLEAN
  /\ pacer.limit \in Limits
  /\ pacer.media.rate \in MaxRates /\ pacer.padding.rate \in MinRates
  /\ \E r \in MaxRates : pacer.media.left \in -(BudgetFloor * r) .. MaxInterval * r
  /\ \E r \in MinRates : pacer.padding.left \in -(BudgetFloor * r) .. MaxInterval * r
  /\ DOMAIN pacer.queue = AllPriorities
  /\ \A prio \in AllPriorities : \A i \in DOMAIN pacer.queue[prio] :
       pacer.queue[prio][i] \in Packet
  /\ pacer.sinceUpdate \in 0 .. MaxInterval
  /\ pacer.sinceSend \in 0 .. MaxNoSend + 1
  /\ proc.at \in {"idle", "sending", "padding"}

NoDuplicates(list) ==
  \A i, j \in DOMAIN list : list[i].id = list[j].id => i = j

SendingIsHead ==
  proc.at = "sending" =>
    /\ Waiting(pacer, proc.prio)
    /\ Head(pacer.queue[proc.prio]).id = proc.packet.id

(* No list holds a packet twice, with a retransmission asked for at any     *)
(* moment, also while the packet itself is being sent (PacketList); and the *)
(* copy Process works with across the unlocked callback is still the head of*)
(* its list when the callback returns: pop_front removes the packet that was*)
(* sent, and erases its number from the set (SendPacketFromList).           *)
ListsInv ==
  /\ \A prio \in AllPriorities : NoDuplicates(pacer.queue[prio])
  /\ SendingIsHead

(* A packet leaves its list only when its callback returned success: neither*)
(* a failed send nor a control call loses one.                              *)
LeavesOnlyWhenSent ==
  [][\A prio \in AllPriorities, id \in Ids :
       id \in IdsIn(pacer.queue[prio]) /\ id \notin IdsIn(pacer'.queue[prio])
       => /\ proc.at = "sending" /\ proc.prio = prio /\ proc.packet.id = id
          /\ PacketSent(TRUE)]_vars

(* The pacer implements the abstract queue that SendPath is built on.       *)
Queue == INSTANCE PacerQueue WITH
  lists <- [prio \in AllPriorities |->
             [i \in DOMAIN pacer.queue[prio] |-> pacer.queue[prio][i].id]],
  busy <- IF proc.at = "sending"
          THEN [at |-> "sending", prio |-> proc.prio, id |-> proc.packet.id]
          ELSE [at |-> proc.at]

(* Every step of the pacer is a step of the queue: nothing is given out     *)
(* twice, out of order within its priority, or past a failed send.          *)
QueueSpec == Queue!Spec

(***************************************************************************)
(* Progress                                                                 *)
(***************************************************************************)
(* The process thread runs, time passes, callbacks return, and a callback   *)
(* that keeps being called succeeds again some day.                         *)
Fairness ==
  /\ WF_vars(Process)
  /\ WF_vars(Tick)
  /\ WF_vars(\E success \in BOOLEAN : PacketSent(success))
  /\ SF_vars(PacketSent(TRUE))
  /\ WF_vars(\E bytes \in PaddingSizes : PaddingSent(bytes))

FairSpec == Spec /\ Fairness

StaysOn == <>[](pacer.enabled /\ ~pacer.paused)

(* A high-priority packet is sent in the end, whatever the budget, the      *)
(* queue limit and the other packets, if the pacer stays on                 *)
(* (ShouldSendNextPacket).                                                  *)
HighServed ==
  StaysOn => \A id \in Ids :
    id \in IdsIn(pacer.queue["High"]) ~> id \notin IdsIn(pacer.queue["High"])

(* A normal packet is sent in the end once no high-priority packets come    *)
(* before it any more, also when the budget is never positive.              *)
NormalServed ==
  StaysOn /\ <>[](~Waiting(pacer, "High")) => \A id \in Ids :
    id \in IdsIn(pacer.queue["Normal"]) ~> id \notin IdsIn(pacer.queue["Normal"])
=============================================================================
