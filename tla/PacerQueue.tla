----------------------------- MODULE PacerQueue ------------------------------
(***************************************************************************)
(* What PacedSender promises its users, without rates and times: lists by   *)
(* priority that hold a packet at most once and give it out in order; the   *)
(* packet given out stays at the head of its list until it was sent; a low  *)
(* packet is only given out, and padding only asked for, when nothing more  *)
(* urgent waits.  When a packet is given out is the pacer's choice.         *)
(***************************************************************************)
EXTENDS Integers, Sequences

CONSTANT Ids      \* packets, as (ssrc, sequence number)

Priorities == {"High", "Normal", "Low"}
Idle == [at |-> "idle"]
AskPadding == [at |-> "padding"]
Offer(prio, id) == [at |-> "sending", prio |-> prio, id |-> id]

VARIABLES
  lists,   \* the packets waiting, by priority
  busy     \* the callback the process thread is in

queueVars == <<lists, busy>>

Empty == [prio \in Priorities |-> <<>>]
In(id, list) == \E i \in DOMAIN list : list[i] = id

Init == lists = Empty /\ busy = Idle

Accept(prio, id) ==
  /\ lists' = [lists EXCEPT ![prio] = IF In(id, @) THEN @ ELSE Append(@, id)]
  /\ UNCHANGED busy

\* What the process thread may turn to when these packets wait.
Choices(l) ==
  {Idle}
  \union {Offer(prio, Head(l[prio])) :
            prio \in {r \in Priorities :
                        /\ l[r] # <<>>
                        /\ r = "Low" => l["High"] = <<>> /\ l["Normal"] = <<>>}}
  \union {c \in {AskPadding} : l = Empty}

Start ==
  /\ busy = Idle
  /\ busy' \in Choices(lists)
  /\ UNCHANGED lists

\* TimeToSendPacket returned.
Answer(success) ==
  /\ busy.at = "sending"
  /\ IF success
     THEN /\ lists' = [lists EXCEPT ![busy.prio] = Tail(@)]
          /\ busy' \in Choices(lists')
     ELSE busy' = Idle /\ UNCHANGED lists

\* TimeToSendPadding returned.
PaddingAnswer ==
  /\ busy.at = "padding"
  /\ busy' = Idle
  /\ UNCHANGED lists

Next ==
  \/ \E prio \in Priorities, id \in Ids : Accept(prio, id)
  \/ Start
  \/ \E success \in BOOLEAN : Answer(success)
  \/ PaddingAnswer

Spec == Init /\ [][Next]_queueVars
=============================================================================
