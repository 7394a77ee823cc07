--------------------------- MODULE PacedSenderBurst ----------------------------
(***************************************************************************)
(* Pacing, measured against a leaky bucket.                                 *)
(***************************************************************************)
EXTENDS PacedSenderProps

VARIABLE burst   \* bytes sent within the budget and not yet drained

MaxRate == CHOOSE r \in MaxRates : \A s \in MaxRates : s <= r
MaxSize == CHOOSE b \in Sizes : \A c \in Sizes : c <= b

(* Rates and lengths have a maximum, and UseBudget's floor never cuts off   *)
(* the deficit that one packet leaves: at 24 kbit/s and more the 500 ms of  *)
(* the floor are a full packet of 1500 bytes, and the session's codec is    *)
(* given at least 200 (main.cc:408).  Below that the pacer forgives what it *)
(* overspends on each packet, and no bucket holds what it sends.            *)
ASSUME BurstAssumption ==
  /\ \E r \in MaxRates : \A s \in MaxRates : s <= r
  /\ \E b \in Sizes : \A c \in Sizes : c <= b
  /\ \A r \in MaxRates, b \in Sizes : b <= BudgetFloor * r

\* The send that a step begins, when it begins one the budget had bytes for.
Begins == proc'.at = "sending" /\ (Process \/ PacketSent(TRUE))
Funds ==
  IF proc = Idle THEN IncreaseBudget(pacer.media, pacer.sinceUpdate).left
  ELSE pacer.media.left

Drain ==
  burst' = IF Begins /\ Funds > 0 THEN burst + proc'.packet.bytes
           ELSE IF Tick THEN Larger(burst - MaxRate, 0)
           ELSE burst

BurstSpec == Init /\ burst = 0 /\ [][Next /\ Drain]_<<vars, burst>>

(* What is sent within the budget stays within a leaky bucket that drains   *)
(* at the pacing rate and holds two longest intervals and one packet: one   *)
(* interval that a slow callback carries over, since what is left of it is  *)
(* still spent when the callback returns, and the next one in full.  Late   *)
(* calls of Process, failed sends, rate changes and the overrides of the    *)
(* queue limits let no larger burst out (IntervalBudget, Process).          *)
PacedBurst == burst <= 2 * MaxRate * MaxInterval + MaxSize

(* The invariant behind it: what is in the bucket and what the budget still *)
(* holds drain together.  When a packet is overspent the deficit is held    *)
(* against the bucket, and an idle thread will not spend what it has left.  *)
Spendable == IF proc = Idle THEN Smaller(pacer.media.left, 0) ELSE pacer.media.left
Bucket ==
  /\ burst \in Nat
  /\ burst + Larger(Spendable, -MaxSize) <= MaxRate * (2 * MaxInterval - pacer.sinceUpdate)
================================================================================
