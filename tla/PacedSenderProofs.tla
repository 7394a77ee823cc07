--------------------------- MODULE PacedSenderProofs ---------------------------
(***************************************************************************)
(* For any packets, rates and limits: the lists of the pacer hold a packet  *)
(* once, lose none that was not sent, and the pacer implements the abstract *)
(* queue.  All three are said of the numbers in the lists, so the proofs    *)
(* follow the numbers: what time and budgets do to a packet leaves them.    *)
(***************************************************************************)
EXTENDS PacedSenderBurst, SequenceTheorems, TLAPS

Within(left, rates) ==
  \E r \in rates : left \in -(BudgetFloor * r) .. MaxInterval * r
BudgetOf(rates) == {b \in [rate : rates, left : Int] : Within(b.left, rates)}
Queues == [AllPriorities -> Seq(Packet)]
Pacer == [enabled : BOOLEAN, paused : BOOLEAN, limit : Limits,
          media : BudgetOf(MaxRates), padding : BudgetOf(MinRates), queue : Queues,
          sinceUpdate : 0 .. MaxInterval, sinceSend : 0 .. MaxNoSend + 1]
Callback == {Idle} \union [at : {"sending"}, prio : AllPriorities, packet : Packet]
                   \union [at : {"padding"}, bytes : Int]

Inv == pacer \in Pacer /\ proc \in Callback /\ ListsInv

(* The numbers in a list, and what the abstract queue sees of the pacer.    *)
Numbers(q) == [i \in DOMAIN q |-> q[i].id]
Lists(queues) == [prio \in AllPriorities |-> Numbers(queues[prio])]
Busy(call) == IF call.at = "sending" THEN Queue!Offer(call.prio, call.packet.id)
              ELSE [at |-> call.at]

Keeps ==
  \A prio \in AllPriorities, id \in Ids :
    id \in IdsIn(pacer.queue[prio]) /\ id \notin IdsIn(pacer'.queue[prio])
    => /\ proc.at = "sending" /\ proc.prio = prio /\ proc.packet.id = id
       /\ PacketSent(TRUE)

(***************************************************************************)
(* Lists and their numbers                                                  *)
(***************************************************************************)
LEMMA NumbersOf ==
  ASSUME NEW q \in Seq(Packet)
  PROVE  /\ Numbers(q) \in Seq(Ids) /\ Len(Numbers(q)) = Len(q)
         /\ DOMAIN Numbers(q) = DOMAIN q /\ \A i \in DOMAIN q : Numbers(q)[i] = q[i].id
         /\ q = <<>> <=> Numbers(q) = <<>>
         /\ q # <<>> => Head(Numbers(q)) = Head(q).id /\ Head(q) \in Packet
         /\ IdsIn(q) = {Numbers(q)[i] : i \in DOMAIN Numbers(q)}
<1>1. /\ DOMAIN q = 1 .. Len(q) /\ Len(q) \in Nat
      /\ \A i \in 1 .. Len(q) : q[i] \in Packet /\ q[i].id \in Ids
  <2>1. \A x \in Packet : x.id \in Ids
    BY DEF Packet
  <2> QED BY <2>1
<1>2. Numbers(q) \in [1 .. Len(q) -> Ids] /\ \A i \in DOMAIN q : Numbers(q)[i] = q[i].id
  BY <1>1 DEF Numbers
<1>3. Numbers(q) \in Seq(Ids) /\ Len(Numbers(q)) = Len(q) /\ DOMAIN Numbers(q) = DOMAIN q
  BY <1>1, <1>2
<1> HIDE DEF Packet
<1>4. q = <<>> <=> Numbers(q) = <<>>
  BY <1>1, <1>3
<1>5. q # <<>> => Head(Numbers(q)) = Head(q).id /\ Head(q) \in Packet
  <2> SUFFICES ASSUME q # <<>>
               PROVE  Head(Numbers(q)) = Head(q).id /\ Head(q) \in Packet
    OBVIOUS
  <2>1. 1 \in 1 .. Len(q)
    BY <1>1
  <2>2. Head(q) = q[1] /\ Head(Numbers(q)) = Numbers(q)[1]
    BY <1>3, <1>4
  <2> QED BY <1>1, <1>2, <2>1, <2>2
<1>6. IdsIn(q) = {Numbers(q)[i] : i \in DOMAIN Numbers(q)}
  BY <1>2, <1>3 DEF IdsIn
<1> QED BY <1>2, <1>3, <1>4, <1>5, <1>6

(* Lists with the same numbers are the same to the properties.              *)
LEMMA SameNumbers ==
  ASSUME NEW q \in Seq(Packet), NEW r \in Seq(Packet), Numbers(q) = Numbers(r)
  PROVE  /\ NoDuplicates(q) => NoDuplicates(r)
         /\ IdsIn(q) = IdsIn(r)
         /\ q = <<>> <=> r = <<>>
         /\ q # <<>> => Head(q).id = Head(r).id
<1>1. DOMAIN q = DOMAIN r /\ \A i \in DOMAIN q : q[i].id = r[i].id
  BY NumbersOf
<1>2. NoDuplicates(q) => NoDuplicates(r)
  BY <1>1 DEF NoDuplicates
<1>3. /\ q = <<>> <=> r = <<>>
      /\ q # <<>> => Head(q).id = Head(r).id
  BY NumbersOf
<1>4. IdsIn(q) = IdsIn(r)
  <2>1. IdsIn(q) = {Numbers(q)[i] : i \in DOMAIN Numbers(q)}
    BY NumbersOf
  <2>2. IdsIn(r) = {Numbers(r)[i] : i \in DOMAIN Numbers(r)}
    BY NumbersOf
  <2> QED BY <2>1, <2>2
<1> QED BY <1>2, <1>3, <1>4

(* PushBack: nothing, or a new number at the end.                           *)
LEMMA PushBackStep ==
  ASSUME NEW q \in Seq(Packet), NEW packet \in Packet, NoDuplicates(q)
  PROVE  LET r == PushBack(q, packet)
             l == Numbers(q)
         IN  /\ r \in Seq(Packet) /\ NoDuplicates(r)
             /\ Numbers(r) = IF Queue!In(packet.id, l) THEN l ELSE Append(l, packet.id)
             /\ IdsIn(q) \subseteq IdsIn(r)
             /\ q # <<>> => r # <<>> /\ Head(r) = Head(q)
<1> DEFINE r == PushBack(q, packet)
           l == Numbers(q)
<1>1. packet.id \in IdsIn(q) <=> Queue!In(packet.id, l)
  BY NumbersOf DEF Queue!In
<1>2. CASE packet.id \in IdsIn(q)
  BY <1>1, <1>2 DEF PushBack
<1>3. CASE packet.id \notin IdsIn(q)
  <2>1. r = Append(q, packet)
    BY <1>3 DEF PushBack
  <2>2. /\ r \in Seq(Packet) /\ Len(r) = Len(q) + 1 /\ Len(q) \in Nat
        /\ DOMAIN r = 1 .. Len(q) + 1 /\ DOMAIN q = 1 .. Len(q)
        /\ \A i \in 1 .. Len(q) : r[i] = q[i]
        /\ r[Len(q) + 1] = packet
    <3> HIDE DEF r
    <3> QED BY <2>1, AppendProperties
  <2> HIDE DEF r
  <2>3. \A i \in 1 .. Len(q) : q[i].id # packet.id
    BY <1>3, <2>2 DEF IdsIn
  <2>4. NoDuplicates(r)
    BY <2>2, <2>3 DEF NoDuplicates
  <2>5. packet.id \in Ids
    BY DEF Packet
  <2>6. Numbers(r) = Append(l, packet.id)
    <3>1. /\ l \in Seq(Ids) /\ Len(l) = Len(q) /\ \A i \in DOMAIN q : l[i] = q[i].id
          /\ Numbers(r) \in Seq(Ids) /\ Len(Numbers(r)) = Len(r)
          /\ \A i \in DOMAIN r : Numbers(r)[i] = r[i].id
      BY <2>2, NumbersOf
    <3> DEFINE a == Append(l, packet.id)
    <3>2. /\ a \in Seq(Ids) /\ Len(a) = Len(q) + 1 /\ a[Len(q) + 1] = packet.id
          /\ \A i \in 1 .. Len(q) : a[i] = l[i]
      BY <2>5, <3>1, AppendProperties
    <3> HIDE DEF a, l
    <3> DEFINE n == Len(q)
               o == Numbers(r)
    <3>3. /\ n \in Nat /\ Len(r) = n + 1 /\ DOMAIN r = 1 .. n + 1 /\ DOMAIN q = 1 .. n
          /\ \A i \in 1 .. n : r[i].id = q[i].id
          /\ r[n + 1].id = packet.id
      BY <2>2
    <3>4. /\ o \in Seq(Ids) /\ Len(o) = n + 1 /\ \A i \in 1 .. n + 1 : o[i] = r[i].id
          /\ a \in Seq(Ids) /\ Len(a) = n + 1 /\ a[n + 1] = packet.id
          /\ \A i \in 1 .. n : a[i] = q[i].id
      BY <3>1, <3>2, <3>3
    <3> HIDE DEF n, o
    <3>5. \A i \in 1 .. Len(a) : o[i] = a[i]
      <4> SUFFICES ASSUME NEW i \in 1 .. n + 1 PROVE o[i] = a[i]
        BY <3>4
      <4>1. i = n + 1 \/ i \in 1 .. n
        BY <3>3
      <4> QED BY <3>3, <3>4, <4>1
    <3>6. o = a
      BY ONLY <3>4, <3>5, SeqEqual
    <3> QED BY <3>6 DEF a, o
  <2>7. IdsIn(q) \subseteq IdsIn(r)
    BY <2>2 DEF IdsIn
  <2>8. q # <<>> => r # <<>> /\ Head(r) = Head(q)
    BY <2>2
  <2> QED BY <1>1, <1>3, <2>2, <2>4, <2>6, <2>7, <2>8 DEF r
<1> QED BY <1>2, <1>3

(* pop_front: the list without its first packet.                            *)
LEMMA TailStep ==
  ASSUME NEW q \in Seq(Packet), q # <<>>, NoDuplicates(q)
  PROVE  /\ Tail(q) \in Seq(Packet) /\ NoDuplicates(Tail(q))
         /\ Numbers(Tail(q)) = Tail(Numbers(q))
         /\ \A id \in IdsIn(q) : id = Head(q).id \/ id \in IdsIn(Tail(q))
<1> DEFINE t == Tail(q)
           l == Numbers(q)
<1>1. /\ t \in Seq(Packet) /\ Len(t) = Len(q) - 1 /\ Len(q) \in Nat /\ Len(q) >= 1
      /\ DOMAIN t = 1 .. Len(q) - 1 /\ DOMAIN q = 1 .. Len(q) /\ Head(q) = q[1]
      /\ \A i \in 1 .. Len(q) - 1 : t[i] = q[i + 1]
  <2>1. Len(q) \in Nat /\ Len(q) # 0
    OBVIOUS
  <2>2. t \in Seq(Packet) /\ Len(t) = Len(q) - 1 /\ \A i \in 1 .. Len(t) : t[i] = q[i + 1]
    BY HeadTailProperties
  <2> HIDE DEF t
  <2> QED BY <2>1, <2>2
<1>2. /\ l \in Seq(Ids) /\ Len(l) = Len(q) /\ l # <<>> /\ \A i \in DOMAIN q : l[i] = q[i].id
  BY NumbersOf
<1>3. /\ Numbers(t) \in Seq(Ids) /\ Len(Numbers(t)) = Len(t)
      /\ \A i \in DOMAIN t : Numbers(t)[i] = t[i].id
  BY <1>1, NumbersOf
<1> HIDE DEF t, l
<1>4. Tail(l) \in Seq(Ids) /\ Len(Tail(l)) = Len(l) - 1 /\ \A i \in 1 .. Len(Tail(l)) : Tail(l)[i] = l[i + 1]
  BY <1>2, HeadTailProperties
<1>5. Numbers(t) = Tail(l)
  <2>1. Len(Numbers(t)) = Len(Tail(l)) /\ Len(t) = Len(q) - 1
    BY <1>1, <1>2, <1>3, <1>4
  <2>2. ASSUME NEW i \in 1 .. Len(q) - 1 PROVE Numbers(t)[i] = Tail(l)[i]
    <3>1. i \in DOMAIN t /\ i + 1 \in DOMAIN q /\ i \in 1 .. Len(Tail(l))
      BY <1>1, <1>2, <1>4
    <3>2. Numbers(t)[i] = t[i].id /\ t[i] = q[i + 1] /\ l[i + 1] = q[i + 1].id
      BY <1>1, <1>2, <1>3, <3>1
    <3> QED BY <1>4, <3>1, <3>2
  <2>3. \A i \in 1 .. Len(Numbers(t)) : Numbers(t)[i] = Tail(l)[i]
    BY <1>3, <2>1, <2>2
  <2> QED BY <1>3, <1>4, <2>1, <2>3, SeqEqual
<1>6. NoDuplicates(t)
  BY <1>1, SMTT(30) DEF NoDuplicates
<1>7. ASSUME NEW id \in IdsIn(q), id # Head(q).id PROVE id \in IdsIn(t)
  <2>1. PICK i \in 1 .. Len(q) : q[i].id = id
    BY <1>1 DEF IdsIn
  <2>2. i # 1 /\ i - 1 \in 1 .. Len(q) - 1
    BY <1>1, <1>7, <2>1
  <2>3. t[i - 1] = q[i]
    BY <1>1, <2>1, <2>2
  <2> QED BY <1>1, <2>1, <2>2, <2>3 DEF IdsIn
<1> QED BY <1>1, <1>5, <1>6, <1>7 DEF t, l

(* Time changes no number.                                                  *)
LEMMA OlderStep ==
  ASSUME NEW q \in Seq(Packet)
  PROVE  Older(q) \in Seq(Packet) /\ Numbers(Older(q)) = Numbers(q)
<1>1. \A x \in Packet : LET y == [x EXCEPT !.age = Smaller(@ + 1, MaxAge)]
                        IN  y \in Packet /\ y.id = x.id
  <2> SUFFICES ASSUME NEW x \in Packet
               PROVE  LET y == [x EXCEPT !.age = Smaller(@ + 1, MaxAge)]
                      IN  y \in Packet /\ y.id = x.id
    OBVIOUS
  <2>1. x.age \in 0 .. MaxAge /\ MaxAge \in Nat
    BY PacerAssumption DEF Packet
  <2> DEFINE age == Smaller(x.age + 1, MaxAge)
  <2>2. age \in 0 .. MaxAge
    BY <2>1 DEF Smaller
  <2> HIDE DEF age
  <2>3. [x EXCEPT !.age = age] \in Packet /\ [x EXCEPT !.age = age].id = x.id
    BY <2>2 DEF Packet
  <2> QED BY <2>3 DEF age
<1> HIDE DEF Packet
<1>2. /\ DOMAIN q = 1 .. Len(q) /\ Len(q) \in Nat /\ \A i \in 1 .. Len(q) : q[i] \in Packet
  OBVIOUS
<1>3. /\ Older(q) \in [1 .. Len(q) -> Packet]
      /\ \A i \in DOMAIN q : Older(q)[i].id = q[i].id
  BY <1>1, <1>2 DEF Older
<1>4. Older(q) \in Seq(Packet) /\ DOMAIN Older(q) = DOMAIN q
  BY <1>2, <1>3
<1>5. Numbers(Older(q)) = Numbers(q)
  BY <1>3, <1>4 DEF Numbers
<1> QED BY <1>4, <1>5

(* The lists at the start.                                                  *)
LEMMA EmptyLists ==
  LET empty == [prio \in AllPriorities |-> <<>>]
  IN  /\ empty \in Queues /\ Lists(empty) = Queue!Empty
      /\ \A prio \in AllPriorities : NoDuplicates(empty[prio])
<1> DEFINE empty == [prio \in AllPriorities |-> <<>>]
<1>1. <<>> \in Seq(Packet)
  OBVIOUS
<1>2. Numbers(<<>>) = <<>>
  BY <1>1, NumbersOf
<1>3. empty \in Queues
  BY <1>1 DEF Queues
<1>4. Lists(empty) = Queue!Empty
  BY <1>2 DEF Lists, AllPriorities, Queue!Empty, Queue!Priorities
<1>5. \A prio \in AllPriorities : NoDuplicates(empty[prio])
  BY DEF NoDuplicates
<1> QED BY <1>3, <1>4, <1>5

(***************************************************************************)
(* Budgets                                                                  *)
(***************************************************************************)
LEMMA IncreaseStep ==
  ASSUME NEW rates, rates \subseteq Nat, NEW b \in BudgetOf(rates), NEW elapsed \in 0 .. MaxInterval
  PROVE  IncreaseBudget(b, elapsed) \in BudgetOf(rates)
<1> DEFINE left == Smaller(b.left, 0) + b.rate * elapsed
<1>1. b \in [rate : rates, left : Int] /\ b.rate \in Nat /\ b.left \in Int
  BY DEF BudgetOf
<1>2. PICK r \in rates : b.left \in -(BudgetFloor * r) .. MaxInterval * r
  BY DEF BudgetOf, Within
<1>3. MaxInterval \in Nat /\ BudgetFloor \in Nat /\ r \in Nat /\ b.rate \in rates
  BY <1>1, PacerAssumption
<1> DEFINE gain == b.rate * elapsed
           full == MaxInterval * b.rate
           low == BudgetFloor * b.rate
<1>4. gain \in Nat /\ full \in Nat /\ low \in Nat /\ gain <= full
  <2>1. gain \in Nat /\ full \in Nat /\ low \in Nat
    BY <1>1, <1>3
  <2>2. \A m, n, k \in Nat : m <= n => k * m <= n * k
    OBVIOUS
  <2>3. gain <= full
    BY <1>1, <1>3, <2>2
  <2> QED BY <2>1, <2>3
<1>5. BudgetFloor * r \in Nat /\ MaxInterval * r \in Nat
  BY <1>3
<1>6. left = Smaller(b.left, 0) + gain
  OBVIOUS
<1> HIDE DEF left, gain
<1>7. left \in Int /\ left <= full
  BY <1>1, <1>4, <1>6 DEF Smaller
<1>8. Within(left, rates)
  <2>1. CASE left <= 0
    <3>1. left >= -(BudgetFloor * r)
      BY <1>1, <1>2, <1>4, <1>5, <1>6, <2>1 DEF Smaller
    <3>2. left \in -(BudgetFloor * r) .. MaxInterval * r
      BY <1>5, <1>7, <2>1, <3>1
    <3> QED BY <3>2 DEF Within
  <2>2. CASE left > 0
    <3>1. left \in -(BudgetFloor * b.rate) .. MaxInterval * b.rate
      BY <1>4, <1>7, <2>2
    <3> QED BY <1>3, <3>1 DEF Within
  <2> QED BY <1>7, <2>1, <2>2
<1> QED BY <1>1, <1>7, <1>8 DEF IncreaseBudget, BudgetOf, left, gain

LEMMA UseStep ==
  ASSUME NEW rates, rates \subseteq Nat, NEW b \in BudgetOf(rates), NEW bytes \in Nat
  PROVE  UseBudget(b, bytes) \in BudgetOf(rates)
<1> DEFINE low == BudgetFloor * b.rate
           left == Larger(b.left - bytes, -low)
<1>1. b \in [rate : rates, left : Int] /\ b.rate \in Nat /\ b.left \in Int /\ b.rate \in rates
  BY DEF BudgetOf
<1>2. PICK r \in rates : b.left \in -(BudgetFloor * r) .. MaxInterval * r
  BY DEF BudgetOf, Within
<1>3. MaxInterval \in Nat /\ BudgetFloor \in Nat /\ r \in Nat
  BY PacerAssumption
<1>4. low \in Nat /\ MaxInterval * b.rate \in Nat /\ BudgetFloor * r \in Nat /\ MaxInterval * r \in Nat
  BY <1>1, <1>3
<1>5. left = Larger(b.left - bytes, -low)
  OBVIOUS
<1> HIDE DEF left
<1>6. left \in Int
  BY <1>1, <1>4, <1>5 DEF Larger
<1>7. Within(left, rates)
  <2>1. CASE left >= 0
    <3>1. left \in -(BudgetFloor * r) .. MaxInterval * r
      <4>1. left <= b.left \/ left <= 0
        BY <1>1, <1>4, <1>5 DEF Larger
      <4> QED BY <1>1, <1>2, <1>4, <1>6, <2>1, <4>1
    <3> QED BY <3>1 DEF Within
  <2>2. CASE left < 0
    <3>1. left >= -low
      BY <1>1, <1>4, <1>5 DEF Larger
    <3>2. left \in -(BudgetFloor * b.rate) .. MaxInterval * b.rate
      BY <1>4, <1>6, <2>2, <3>1
    <3> QED BY <1>1, <3>2 DEF Within
  <2> QED BY <1>6, <2>1, <2>2
<1> QED BY <1>1, <1>6, <1>7 DEF UseBudget, BudgetOf, left, low

(***************************************************************************)
(* What is sent next                                                        *)
(***************************************************************************)
(* Whatever is chosen has a packet waiting, and is the least urgent only    *)
(* when nothing else waits.                                                 *)
LEMMA Chosen ==
  ASSUME NEW p, NEW prio, prio = ShouldSendNextPacket(p), prio # "None"
  PROVE  /\ prio \in AllPriorities /\ Waiting(p, prio)
         /\ prio = "Low" => ~Waiting(p, "High") /\ ~Waiting(p, "Normal")
<1> DEFINE Right(pr) == pr # "None" =>
             /\ pr \in AllPriorities /\ Waiting(p, pr)
             /\ pr = "Low" => ~Waiting(p, "High") /\ ~Waiting(p, "Normal")
<1>1. \A prios : Right(FirstOf(p, prios))
  BY DEF FirstOf, AllPriorities
<1>2. Right(OldestOf(p))
  BY <1>1 DEF OldestOf, AllPriorities
<1>3. Right(prio)
  <2> HIDE DEF Right
  <2>1. Right("None")
    BY DEF Right
  <2> QED BY <1>1, <1>2, <2>1 DEF ShouldSendNextPacket
<1> QED BY <1>3

LEMMA UseBudgetsStep ==
  ASSUME NEW p \in Pacer, NEW bytes \in Nat
  PROVE  UseBudgets(p, bytes) \in Pacer /\ UseBudgets(p, bytes).queue = p.queue
<1>1. UseBudget(p.media, bytes) \in BudgetOf(MaxRates) /\ UseBudget(p.padding, bytes) \in BudgetOf(MinRates)
  BY UseStep, PacerAssumption DEF Pacer
<1> QED BY <1>1 DEF UseBudgets, Pacer

(* The loop of Process changes no list, and what it turns to is one of the  *)
(* choices of the abstract queue.                                           *)
LEMMA ContinueStep ==
  ASSUME NEW p \in Pacer, Continue(p)
  PROVE  /\ pacer' \in Pacer /\ pacer'.queue = p.queue
         /\ proc' \in Callback /\ SendingIsHead'
         /\ Busy(proc') \in Queue!Choices(Lists(p.queue))
<1> DEFINE prio == ShouldSendNextPacket(p)
           l == Lists(p.queue)
<1>1. p.queue \in Queues /\ Queue!Priorities = AllPriorities
  BY DEF Pacer, Queue!Priorities, AllPriorities
<1>2. \A r \in AllPriorities : /\ l[r] = Numbers(p.queue[r]) /\ p.queue[r] \in Seq(Packet)
                               /\ Waiting(p, r) <=> l[r] # <<>>
  BY <1>1, NumbersOf DEF Lists, Queues, Waiting
<1>3. CASE prio # "None"
  <2>1. /\ prio \in AllPriorities /\ Waiting(p, prio)
        /\ prio = "Low" => ~Waiting(p, "High") /\ ~Waiting(p, "Normal")
    BY <1>3, Chosen
  <2> DEFINE head == Head(p.queue[prio])
  <2>2. pacer' = Charge(p, head.bytes) /\ proc' = Sending(prio, head)
    BY <1>3 DEF Continue
  <2>3. head \in Packet /\ head.id = Head(l[prio])
    BY <1>2, <2>1, NumbersOf DEF Waiting
  <2>4. head.bytes \in Nat
    BY <2>3, PacerAssumption DEF Packet
  <2> HIDE DEF prio, l
  <2>5. Charge(p, head.bytes) \in Pacer /\ Charge(p, head.bytes).queue = p.queue
    <3> HIDE DEF head
    <3>1. UseBudgets(p, head.bytes) \in Pacer /\ UseBudgets(p, head.bytes).queue = p.queue
      BY <2>4, UseBudgetsStep
    <3>2. 0 \in 0 .. MaxNoSend + 1
      BY PacerAssumption
    <3> QED BY <3>1, <3>2 DEF Charge, Pacer
  <2>6. proc' \in Callback /\ proc'.at = "sending" /\ proc'.prio = prio /\ proc'.packet = head
    <3> HIDE DEF head
    <3> QED BY <2>1, <2>2, <2>3 DEF Sending, Callback
  <2>7. SendingIsHead'
    BY <2>1, <2>2, <2>5, <2>6 DEF SendingIsHead, Waiting
  <2>8. Busy(proc') = Queue!Offer(prio, Head(l[prio]))
    BY <2>3, <2>6 DEF Busy
  <2>9. /\ "High" \in AllPriorities /\ "Normal" \in AllPriorities
    BY DEF AllPriorities
  <2>10. l[prio] # <<>> /\ (prio = "Low" => l["High"] = <<>> /\ l["Normal"] = <<>>)
    BY <1>2, <2>1, <2>9
  <2>11. Busy(proc') \in Queue!Choices(l)
    BY <1>1, <2>1, <2>8, <2>10 DEF Queue!Choices
  <2> QED BY <2>2, <2>5, <2>6, <2>7, <2>11 DEF l
<1>4. CASE prio = "None"
  <2>1. /\ pacer' = p
        /\ proc' = IF AllSent(p) /\ p.padding.left > 0 THEN Padding(p.padding.left) ELSE Idle
    BY <1>4 DEF Continue
  <2>2. p.padding.left \in Int
    BY DEF Pacer, BudgetOf
  <2>3. CASE proc' = Idle
    <3>1. Busy(proc') = Queue!Idle /\ proc'.at = "idle"
      BY <2>3 DEF Busy, Idle, Queue!Idle
    <3> QED BY <2>1, <2>3, <3>1 DEF Callback, SendingIsHead, Queue!Choices
  <2>4. CASE AllSent(p) /\ proc' = Padding(p.padding.left)
    <3>1. Busy(proc') = Queue!AskPadding /\ proc'.at = "padding"
      BY <2>4 DEF Busy, Padding, Queue!AskPadding
    <3>2. proc' \in Callback
      BY <2>2, <2>4 DEF Callback, Padding
    <3>3. l = Queue!Empty
      <4>1. \A r \in AllPriorities : l[r] = <<>>
        BY <1>2, <2>4 DEF AllSent
      <4> QED BY <1>1, <4>1 DEF Lists, Queue!Empty
    <3> QED BY <2>1, <3>1, <3>2, <3>3 DEF SendingIsHead, Queue!Choices
  <2> QED BY <2>1, <2>3, <2>4
<1> QED BY <1>3, <1>4

(***************************************************************************)
(* Steps                                                                    *)
(***************************************************************************)
LEMMA InitInv == Init => Inv /\ Queue!Init
<1> SUFFICES ASSUME Init PROVE Inv /\ Queue!Init
  OBVIOUS
<1>1. PICK maxRate \in MaxRates, minRate \in MinRates, sinceSend \in 0 .. MaxNoSend + 1,
           limit \in Limits :
        pacer = [enabled |-> TRUE, paused |-> FALSE, limit |-> limit,
                 media |-> IncreaseBudget(Budget(maxRate), MinInterval),
                 padding |-> IncreaseBudget(Budget(minRate), MinInterval),
                 queue |-> [prio \in AllPriorities |-> <<>>],
                 sinceUpdate |-> 0, sinceSend |-> sinceSend]
  BY DEF Init
<1>2. ASSUME NEW rates, rates \subseteq Nat, NEW rate \in rates
      PROVE  IncreaseBudget(Budget(rate), MinInterval) \in BudgetOf(rates)
  <2>1. /\ MinInterval \in 0 .. MaxInterval /\ rate \in Nat /\ BudgetFloor \in Nat
        /\ MaxInterval \in Nat
    BY <1>2, PacerAssumption
  <2>2. 0 \in -(BudgetFloor * rate) .. MaxInterval * rate
    <3>1. BudgetFloor * rate \in Nat /\ MaxInterval * rate \in Nat
      BY <2>1
    <3> QED BY <3>1
  <2>3. Budget(rate) \in BudgetOf(rates)
    <3>1. Within(0, rates)
      BY <1>2, <2>2 DEF Within
    <3> QED BY <1>2, <3>1 DEF Budget, BudgetOf
  <2> QED BY <1>2, <2>1, <2>3, IncreaseStep
<1>3. pacer.queue = [prio \in AllPriorities |-> <<>>] /\ pacer.queue \in Queues
  BY <1>1, EmptyLists
<1>4. pacer \in Pacer
  <2> DEFINE media == IncreaseBudget(Budget(maxRate), MinInterval)
             padding == IncreaseBudget(Budget(minRate), MinInterval)
             empty == [prio \in AllPriorities |-> <<>>]
  <2>1. media \in BudgetOf(MaxRates) /\ padding \in BudgetOf(MinRates)
    BY <1>2, PacerAssumption
  <2>2. 0 \in 0 .. MaxInterval /\ empty \in Queues
    BY PacerAssumption, EmptyLists
  <2>3. pacer = [enabled |-> TRUE, paused |-> FALSE, limit |-> limit, media |-> media,
                 padding |-> padding, queue |-> empty, sinceUpdate |-> 0, sinceSend |-> sinceSend]
    BY <1>1
  <2> HIDE DEF media, padding, empty
  <2> QED BY <2>1, <2>2, <2>3 DEF Pacer
<1>5. proc = Idle /\ proc.at = "idle"
  BY DEF Init, Idle
<1>6. ListsInv
  BY <1>3, <1>5, EmptyLists DEF ListsInv, SendingIsHead
<1>7. Queue!Init
  <2>1. Lists(pacer.queue) = Queue!Empty /\ Busy(proc) = Queue!Idle
    BY <1>3, <1>5, EmptyLists DEF Busy, Queue!Idle
  <2> QED BY <2>1 DEF Queue!Init, Lists, Numbers, Busy, Queue!Offer
<1> QED BY <1>4, <1>5, <1>6, <1>7 DEF Inv, Callback

LEMMA View ==
  /\ Queue!queueVars = <<Lists(pacer.queue), Busy(proc)>>
  /\ Queue!queueVars' = <<Lists(pacer'.queue), Busy(proc')>>
BY DEF Queue!queueVars, Lists, Numbers, Busy, Queue!Offer

(* No list changes its numbers: all that was said of the lists still holds. *)
LEMMA SameLists ==
  ASSUME Inv, pacer' \in Pacer, Lists(pacer'.queue) = Lists(pacer.queue)
  PROVE  /\ \A prio \in AllPriorities : NoDuplicates(pacer'.queue[prio])
         /\ proc' = proc => SendingIsHead'
         /\ Keeps
<1>1. pacer.queue \in Queues /\ pacer'.queue \in Queues
  BY DEF Inv, Pacer
<1>2. ASSUME NEW prio \in AllPriorities
      PROVE  /\ pacer.queue[prio] \in Seq(Packet) /\ pacer'.queue[prio] \in Seq(Packet)
             /\ Numbers(pacer.queue[prio]) = Numbers(pacer'.queue[prio])
  <2>1. pacer.queue[prio] \in Seq(Packet) /\ pacer'.queue[prio] \in Seq(Packet)
    BY <1>1 DEF Queues
  <2>2. /\ Lists(pacer.queue)[prio] = Numbers(pacer.queue[prio])
        /\ Lists(pacer'.queue)[prio] = Numbers(pacer'.queue[prio])
    BY DEF Lists
  <2> QED BY <2>1, <2>2
<1>3. ASSUME NEW prio \in AllPriorities
      PROVE  /\ NoDuplicates(pacer'.queue[prio])
             /\ IdsIn(pacer.queue[prio]) = IdsIn(pacer'.queue[prio])
             /\ pacer.queue[prio] = <<>> <=> pacer'.queue[prio] = <<>>
             /\ pacer.queue[prio] # <<>> => Head(pacer.queue[prio]).id = Head(pacer'.queue[prio]).id
  BY <1>2, SameNumbers DEF Inv, ListsInv
<1>4. proc' = proc => SendingIsHead'
  <2> SUFFICES ASSUME proc' = proc, proc.at = "sending"
               PROVE  /\ pacer'.queue[proc.prio] # <<>>
                      /\ Head(pacer'.queue[proc.prio]).id = proc.packet.id
    BY DEF SendingIsHead, Waiting
  <2>1. proc.prio \in AllPriorities
    BY DEF Inv, Callback, Idle
  <2>2. pacer.queue[proc.prio] # <<>> /\ Head(pacer.queue[proc.prio]).id = proc.packet.id
    BY DEF Inv, ListsInv, SendingIsHead, Waiting
  <2> QED BY <1>3, <2>1, <2>2
<1>5. Keeps
  BY <1>3 DEF Keeps
<1> QED BY <1>3, <1>4, <1>5

(* A step that changes neither the numbers in the lists nor the callback.   *)
LEMMA QuietStep ==
  ASSUME Inv, pacer' \in Pacer, Lists(pacer'.queue) = Lists(pacer.queue), proc' = proc
  PROVE  Inv' /\ [Queue!Next]_(Queue!queueVars) /\ Keeps
<1>1. Inv'
  BY SameLists DEF Inv, ListsInv
<1>2. UNCHANGED Queue!queueVars
  BY View
<1> QED BY <1>1, <1>2, SameLists

LEMMA ProcessStep == ASSUME Inv, Process PROVE Inv' /\ [Queue!Next]_(Queue!queueVars) /\ Keeps
<1> DEFINE p == [pacer EXCEPT !.sinceUpdate = 0]
           funded == [p EXCEPT !.media = IncreaseBudget(@, pacer.sinceUpdate),
                               !.padding = IncreaseBudget(@, pacer.sinceUpdate)]
<1>1. pacer \in Pacer /\ proc = Idle /\ MaxInterval \in Nat
  BY PacerAssumption DEF Inv, Process
<1>2. p \in Pacer /\ p.queue = pacer.queue /\ p.media = pacer.media /\ p.padding = pacer.padding
  BY <1>1 DEF Pacer
<1>3. funded \in Pacer /\ funded.queue = pacer.queue
  <2>1. /\ IncreaseBudget(p.media, pacer.sinceUpdate) \in BudgetOf(MaxRates)
        /\ IncreaseBudget(p.padding, pacer.sinceUpdate) \in BudgetOf(MinRates)
    BY <1>1, <1>2, IncreaseStep, PacerAssumption DEF Pacer
  <2> HIDE DEF p
  <2> QED BY <1>2, <2>1 DEF Pacer
<1>4. CASE ~pacer.enabled \/ pacer.paused
  <2>1. pacer' = p /\ proc' = proc
    BY <1>1, <1>4 DEF Process
  <2> HIDE DEF p
  <2> QED BY <1>2, <2>1, QuietStep
<1>5. CASE ~(~pacer.enabled \/ pacer.paused)
  <2>1. Continue(funded)
    BY <1>5 DEF Process
  <2> HIDE DEF funded
  <2>2. /\ pacer' \in Pacer /\ pacer'.queue = pacer.queue
        /\ proc' \in Callback /\ SendingIsHead'
        /\ Busy(proc') \in Queue!Choices(Lists(pacer.queue))
    BY <1>3, <2>1, ContinueStep
  <2>3. Inv' /\ Keeps
    BY <2>2, SameLists DEF Inv, ListsInv
  <2>4. Busy(proc) = Queue!Idle
    BY <1>1 DEF Busy, Idle, Queue!Idle
  <2>5. Queue!Start
    BY <2>2, <2>4 DEF Queue!Start, Lists, Numbers, Busy, Queue!Offer
  <2> QED BY <2>3, <2>5 DEF Queue!Next
<1> QED BY <1>4, <1>5

LEMMA PaddingSentStep ==
  ASSUME Inv, NEW bytes \in PaddingSizes, PaddingSent(bytes)
  PROVE  Inv' /\ [Queue!Next]_(Queue!queueVars) /\ Keeps
<1>1. /\ proc.at = "padding" /\ pacer' = UseBudgets(pacer, bytes) /\ proc' = Idle
      /\ bytes \in Nat
  BY PacerAssumption DEF PaddingSent, PaddingSizes
<1>2. pacer' \in Pacer /\ pacer'.queue = pacer.queue
  BY <1>1, UseBudgetsStep DEF Inv
<1>3. Inv' /\ Keeps
  BY <1>1, <1>2, SameLists DEF Inv, ListsInv, SendingIsHead, Idle, Callback
<1>4. Busy(proc).at = "padding" /\ Busy(proc') = Queue!Idle
  BY <1>1 DEF Busy, Idle, Queue!Idle
<1>5. Queue!PaddingAnswer
  BY <1>2, <1>4 DEF Queue!PaddingAnswer, Lists, Numbers, Busy, Queue!Offer
<1> QED BY <1>3, <1>5 DEF Queue!Next

(* One list is replaced.                                                    *)
LEMMA Replace ==
  ASSUME NEW p \in Pacer, NEW prio \in AllPriorities, NEW r \in Seq(Packet)
  PROVE  /\ [p EXCEPT !.queue[prio] = r] \in Pacer
         /\ [p EXCEPT !.queue[prio] = r].queue = [p.queue EXCEPT ![prio] = r]
         /\ Lists([p.queue EXCEPT ![prio] = r]) = [Lists(p.queue) EXCEPT ![prio] = Numbers(r)]
<1> DEFINE queues == [p.queue EXCEPT ![prio] = r]
<1>1. p.queue \in Queues /\ queues \in Queues
  BY DEF Pacer, Queues
<1>2. [p EXCEPT !.queue[prio] = r] = [p EXCEPT !.queue = queues]
  BY DEF Pacer
<1>3. Lists(queues) = [Lists(p.queue) EXCEPT ![prio] = Numbers(r)]
  BY <1>1 DEF Lists, Queues
<1> HIDE DEF queues
<1>4. [p EXCEPT !.queue = queues] \in Pacer /\ [p EXCEPT !.queue = queues].queue = queues
  BY <1>1 DEF Pacer
<1> QED BY <1>2, <1>3, <1>4 DEF queues

LEMMA PacketSentStep ==
  ASSUME Inv, NEW success \in BOOLEAN, PacketSent(success)
  PROVE  Inv' /\ [Queue!Next]_(Queue!queueVars) /\ Keeps
<1>0. PICK prio \in AllPriorities : prio = proc.prio
  BY DEF Inv, PacketSent, Callback, Idle
<1> DEFINE q == pacer.queue[prio]
           head == Head(q)
<1>1. /\ pacer \in Pacer /\ proc.at = "sending" /\ prio = proc.prio
      /\ proc.packet \in Packet /\ q # <<>> /\ head.id = proc.packet.id
  BY <1>0 DEF Inv, PacketSent, Callback, Idle, ListsInv, SendingIsHead, Waiting
<1>2. q \in Seq(Packet) /\ NoDuplicates(q)
  BY <1>1 DEF Inv, Pacer, Queues, ListsInv
<1>3. Busy(proc) = Queue!Offer(prio, proc.packet.id) /\ Busy(proc).at = "sending" /\ Busy(proc).prio = prio
  BY <1>1 DEF Busy, Queue!Offer
<1>4. CASE success
  <2> DEFINE popped == PopFront(pacer, prio)
             l == Lists(pacer.queue)
  <2>1. Continue(popped)
    BY <1>1, <1>4 DEF PacketSent
  <2>2. /\ Tail(q) \in Seq(Packet) /\ NoDuplicates(Tail(q)) /\ Numbers(Tail(q)) = Tail(Numbers(q))
        /\ \A id \in IdsIn(q) : id = head.id \/ id \in IdsIn(Tail(q))
    BY <1>1, <1>2, TailStep
  <2>3. /\ popped \in Pacer /\ popped.queue = [pacer.queue EXCEPT ![prio] = Tail(q)]
        /\ Lists(popped.queue) = [l EXCEPT ![prio] = Numbers(Tail(q))]
    <3>1. popped = [pacer EXCEPT !.queue[prio] = Tail(q)]
      BY DEF PopFront
    <3> DEFINE t == Tail(q)
               p == [pacer EXCEPT !.queue[prio] = t]
    <3>2. t \in Seq(Packet) /\ pacer \in Pacer /\ prio \in AllPriorities
      BY <1>1, <2>2
    <3> HIDE DEF t
    <3>3. /\ p \in Pacer /\ p.queue = [pacer.queue EXCEPT ![prio] = t]
          /\ Lists([pacer.queue EXCEPT ![prio] = t]) = [l EXCEPT ![prio] = Numbers(t)]
      BY ONLY <3>2, Replace, SMTT(30)
    <3>4. popped = p
      BY <3>1 DEF t
    <3> HIDE DEF p, popped
    <3> QED BY <3>3, <3>4 DEF t
  <2> HIDE DEF popped
  <2>4. /\ pacer' \in Pacer /\ pacer'.queue = popped.queue
        /\ proc' \in Callback /\ SendingIsHead'
        /\ Busy(proc') \in Queue!Choices(Lists(popped.queue))
    BY <2>1, <2>3, ContinueStep
  <2>5. /\ pacer.queue \in Queues /\ pacer'.queue[prio] = Tail(q)
        /\ \A r \in AllPriorities : r # prio => pacer'.queue[r] = pacer.queue[r]
    BY <1>1, <2>3, <2>4 DEF Pacer, Queues
  <2>6. \A r \in AllPriorities : NoDuplicates(pacer'.queue[r])
    BY <2>2, <2>5 DEF Inv, ListsInv
  <2>7. Keeps
    <3> SUFFICES ASSUME NEW r \in AllPriorities, NEW id \in Ids,
                        id \in IdsIn(pacer.queue[r]), id \notin IdsIn(pacer'.queue[r])
                 PROVE  r = prio /\ id = proc.packet.id
      BY <1>1, <1>4 DEF Keeps
    <3> QED BY <1>1, <2>2, <2>5
  <2>8. Lists(pacer'.queue) = [l EXCEPT ![prio] = Tail(@)]
    <3>1. l[prio] = Numbers(q)
      BY <1>1 DEF Lists
    <3> HIDE DEF l, q
    <3> QED BY <2>2, <2>3, <2>4, <3>1
  <2>9. Queue!Answer(TRUE)
    <3> DEFINE before == Lists(pacer.queue)
               after == Lists(pacer'.queue)
               now == Busy(proc)
               then == Busy(proc')
    <3>1. /\ now.at = "sending" /\ after = [before EXCEPT ![now.prio] = Tail(@)]
          /\ then \in Queue!Choices(after)
      BY <1>3, <2>4, <2>8
    <3> QED BY <3>1 DEF Queue!Answer, Lists, Numbers, Busy, Queue!Offer
  <2> QED BY <2>4, <2>6, <2>7, <2>9 DEF Inv, ListsInv, Queue!Next
<1>5. CASE ~success
  <2>1. pacer' = pacer /\ proc' = Idle
    BY <1>5 DEF PacketSent
  <2>2. Inv' /\ Keeps
    BY <1>1, <2>1, SameLists DEF Inv, ListsInv, SendingIsHead, Idle, Callback
  <2>3. Busy(proc') = Queue!Idle
    BY <2>1 DEF Busy, Idle, Queue!Idle
  <2>4. Queue!Answer(FALSE)
    BY <1>3, <2>1, <2>3 DEF Queue!Answer, Lists, Numbers, Busy, Queue!Offer
  <2> QED BY <2>2, <2>4 DEF Queue!Next
<1> QED BY <1>4, <1>5

LEMMA SendPacketStep ==
  ASSUME Inv, NEW prio \in PriosUsed, NEW id \in Ids, NEW bytes \in Sizes, NEW capture \in Captures,
         NEW retransmission \in BOOLEAN, SendPacket(prio, id, bytes, capture, retransmission)
  PROVE  Inv' /\ [Queue!Next]_(Queue!queueVars) /\ Keeps
<1> DEFINE packet == [id |-> id, bytes |-> bytes, capture |-> capture,
                      retransmission |-> retransmission, age |-> 0]
           q == pacer.queue[prio]
           r == PushBack(q, packet)
           l == Lists(pacer.queue)
<1>1. prio \in AllPriorities /\ pacer \in Pacer /\ proc' = proc
  BY PacerAssumption DEF Inv, SendPacket, AllPriorities
<1>2. packet \in Packet /\ packet.id = id
  BY PacerAssumption DEF Packet
<1>3. pacer.queue \in Queues /\ q \in Seq(Packet) /\ NoDuplicates(q)
  BY <1>1 DEF Inv, Pacer, Queues, ListsInv
<1>4. CASE ~pacer.enabled
  BY <1>1, <1>4, QuietStep DEF SendPacket
<1>5. CASE pacer.enabled
  <2>1. pacer' = [pacer EXCEPT !.queue[prio] = r]
    BY <1>5 DEF SendPacket
  <2> HIDE DEF packet
  <2>2. /\ r \in Seq(Packet) /\ NoDuplicates(r)
        /\ Numbers(r) = IF Queue!In(id, Numbers(q)) THEN Numbers(q) ELSE Append(Numbers(q), id)
        /\ IdsIn(q) \subseteq IdsIn(r)
        /\ q # <<>> => r # <<>> /\ Head(r) = Head(q)
    BY <1>2, <1>3, PushBackStep
  <2> HIDE DEF q, r
  <2>3. /\ pacer' \in Pacer /\ pacer'.queue = [pacer.queue EXCEPT ![prio] = r]
        /\ Lists(pacer'.queue) = [l EXCEPT ![prio] = Numbers(r)]
    <3> DEFINE p == [pacer EXCEPT !.queue[prio] = r]
    <3>1. /\ p \in Pacer /\ p.queue = [pacer.queue EXCEPT ![prio] = r]
          /\ Lists([pacer.queue EXCEPT ![prio] = r]) = [l EXCEPT ![prio] = Numbers(r)]
      BY <1>1, <2>2, Replace, SMTT(30)
    <3>2. pacer' = p
      BY <2>1
    <3> HIDE DEF p
    <3> QED BY <3>1, <3>2
  <2>4. /\ pacer'.queue[prio] = r
        /\ \A s \in AllPriorities : s # prio => pacer'.queue[s] = pacer.queue[s]
    BY <1>1, <1>3, <2>3 DEF Queues
  <2>5. ListsInv'
    <3>1. \A s \in AllPriorities : NoDuplicates(pacer'.queue[s])
      BY <2>2, <2>4 DEF Inv, ListsInv
    <3>2. SendingIsHead'
      <4> SUFFICES ASSUME proc.at = "sending"
                   PROVE  /\ pacer'.queue[proc.prio] # <<>>
                          /\ Head(pacer'.queue[proc.prio]).id = proc.packet.id
        BY <1>1 DEF SendingIsHead, Waiting
      <4>1. proc.prio \in AllPriorities
        BY DEF Inv, Callback, Idle
      <4>2. pacer.queue[proc.prio] # <<>> /\ Head(pacer.queue[proc.prio]).id = proc.packet.id
        BY DEF Inv, ListsInv, SendingIsHead, Waiting
      <4> QED BY <2>2, <2>4, <4>1, <4>2 DEF q
    <3> QED BY <3>1, <3>2 DEF ListsInv
  <2>6. Keeps
    BY <2>2, <2>4 DEF Keeps, q
  <2>7. Lists(pacer'.queue) = [l EXCEPT ![prio] = IF Queue!In(id, @) THEN @ ELSE Append(@, id)]
    <3>1. l[prio] = Numbers(q)
      BY <1>1 DEF Lists, q
    <3> HIDE DEF l
    <3> QED BY <2>2, <2>3, <3>1
  <2>8. Queue!Accept(prio, id)
    BY <1>1, <2>7 DEF Queue!Accept, Lists, Numbers, Busy, Queue!Offer
  <2>9. prio \in Queue!Priorities
    BY <1>1 DEF AllPriorities, Queue!Priorities
  <2> QED BY <1>1, <2>3, <2>5, <2>6, <2>8, <2>9 DEF Inv, Queue!Next
<1> QED BY <1>4, <1>5

LEMMA ControlStep == ASSUME Inv, Control PROVE Inv' /\ [Queue!Next]_(Queue!queueVars) /\ Keeps
<1>1. pacer \in Pacer
  BY DEF Inv
<1>2. ASSUME NEW maxRate \in MaxRates, NEW minRate \in MinRates
      PROVE  LET p == [pacer EXCEPT !.media.rate = maxRate, !.padding.rate = minRate]
             IN  p \in Pacer /\ p.queue = pacer.queue
  <2>1. /\ [pacer.media EXCEPT !.rate = maxRate] \in BudgetOf(MaxRates)
        /\ [pacer.padding EXCEPT !.rate = minRate] \in BudgetOf(MinRates)
    BY <1>1 DEF Pacer, BudgetOf
  <2> QED BY <1>1, <2>1 DEF Pacer
<1>3. pacer' \in Pacer /\ pacer'.queue = pacer.queue /\ proc' = proc
  <2>a. \A b \in BOOLEAN : /\ [pacer EXCEPT !.paused = b] \in Pacer
                           /\ [pacer EXCEPT !.paused = b].queue = pacer.queue
                           /\ [pacer EXCEPT !.enabled = b] \in Pacer
                           /\ [pacer EXCEPT !.enabled = b].queue = pacer.queue
    BY <1>1 DEF Pacer
  <2>1. CASE Pause \/ Resume
    BY <2>a, <2>1 DEF Pause, Resume
  <2>4. CASE \E enable \in BOOLEAN : SetStatus(enable)
    BY <2>a, <2>4 DEF SetStatus
  <2>2. CASE \E maxRate \in MaxRates, minRate \in MinRates : UpdateBitrate(maxRate, minRate)
    <3>1. PICK maxRate \in MaxRates, minRate \in MinRates : UpdateBitrate(maxRate, minRate)
      BY <2>2
    <3> DEFINE p == [pacer EXCEPT !.media.rate = maxRate, !.padding.rate = minRate]
    <3>2. p \in Pacer /\ p.queue = pacer.queue
      BY <1>2
    <3>3. pacer' = p /\ proc' = proc
      BY <3>1 DEF UpdateBitrate
    <3> HIDE DEF p
    <3> QED BY <3>2, <3>3
  <2>3. CASE \E limit \in Limits : SetMaxQueueLength(limit)
    BY <1>1, <2>3 DEF SetMaxQueueLength, Pacer
  <2> QED BY <2>1, <2>2, <2>3, <2>4 DEF Control
<1> QED BY <1>3, QuietStep

LEMMA TickStep == ASSUME Inv, Tick PROVE Inv' /\ [Queue!Next]_(Queue!queueVars) /\ Keeps
<1> DEFINE update == Smaller(pacer.sinceUpdate + 1, MaxInterval)
           send == Smaller(pacer.sinceSend + 1, MaxNoSend + 1)
           queues == [prio \in AllPriorities |-> Older(pacer.queue[prio])]
<1>1. /\ pacer \in Pacer /\ proc' = proc
      /\ pacer' = [pacer EXCEPT !.sinceUpdate = update, !.sinceSend = send, !.queue = queues]
  BY DEF Inv, Tick
<1>2. \A prio \in AllPriorities : pacer.queue[prio] \in Seq(Packet)
  BY <1>1 DEF Pacer, Queues
<1>3. queues \in Queues /\ Lists(queues) = Lists(pacer.queue)
  BY <1>2, OlderStep DEF Queues, Lists
<1>4. update \in 0 .. MaxInterval /\ send \in 0 .. MaxNoSend + 1
  BY <1>1, PacerAssumption DEF Pacer, Smaller
<1> HIDE DEF update, send, queues
<1>5. pacer' \in Pacer /\ pacer'.queue = queues
  BY <1>1, <1>3, <1>4 DEF Pacer
<1> QED BY <1>1, <1>3, <1>5, QuietStep

LEMMA Step == ASSUME Inv, [Next]_vars PROVE Inv' /\ [Queue!Next]_(Queue!queueVars) /\ (Keeps \/ UNCHANGED vars)
<1>1. CASE Process
  BY <1>1, ProcessStep
<1>2. CASE \E success \in BOOLEAN : PacketSent(success)
  BY <1>2, PacketSentStep
<1>3. CASE \E bytes \in PaddingSizes : PaddingSent(bytes)
  BY <1>3, PaddingSentStep
<1>4. CASE Push
  <2>1. PICK prio \in PriosUsed, id \in Ids, bytes \in Sizes, capture \in Captures :
          SendPacket(prio, id, bytes, capture, prio = "High")
    BY <1>4 DEF Push
  <2>2. PICK retransmission \in BOOLEAN : SendPacket(prio, id, bytes, capture, retransmission)
    BY <2>1
  <2> QED BY <2>2, SendPacketStep
<1>5. CASE Control
  BY <1>5, ControlStep
<1>6. CASE Tick
  BY <1>6, TickStep
<1>7. CASE UNCHANGED vars
  BY <1>7, QuietStep DEF vars, Inv
<1> QED BY <1>1, <1>2, <1>3, <1>4, <1>5, <1>6, <1>7 DEF Next

LEMMA InvImplies == Inv => TypeOK /\ ListsInv
<1> SUFFICES ASSUME Inv PROVE TypeOK
  BY DEF Inv
<1>1. pacer \in Pacer /\ proc \in Callback
  BY DEF Inv
<1>2. /\ pacer.media \in BudgetOf(MaxRates) /\ pacer.padding \in BudgetOf(MinRates)
      /\ pacer.queue \in Queues
  BY <1>1 DEF Pacer
<1>3. /\ pacer.media.rate \in MaxRates /\ pacer.padding.rate \in MinRates
      /\ Within(pacer.media.left, MaxRates) /\ Within(pacer.padding.left, MinRates)
  BY <1>2 DEF BudgetOf
<1>4. /\ DOMAIN pacer.queue = AllPriorities
      /\ \A prio \in AllPriorities : \A i \in DOMAIN pacer.queue[prio] :
           pacer.queue[prio][i] \in Packet
  BY <1>2 DEF Queues
<1>5. proc.at \in {"idle", "sending", "padding"}
  BY <1>1 DEF Callback, Idle
<1>6. /\ DOMAIN pacer = {"enabled", "paused", "limit", "media", "padding", "queue",
                         "sinceUpdate", "sinceSend"}
      /\ pacer.enabled \in BOOLEAN /\ pacer.paused \in BOOLEAN /\ pacer.limit \in Limits
      /\ pacer.sinceUpdate \in 0 .. MaxInterval /\ pacer.sinceSend \in 0 .. MaxNoSend + 1
  BY <1>1 DEF Pacer
<1> QED BY <1>3, <1>4, <1>5, <1>6 DEF TypeOK, Within

(***************************************************************************)
(* Theorems                                                                 *)
(***************************************************************************)
(* The lists hold every packet once, and what Process works with while its  *)
(* lock is released is still the head of its list when the callback returns.*)
THEOREM ListsStay == Spec => []ListsInv
<1>1. Init => Inv
  BY InitInv
<1>2. Inv /\ [Next]_vars => Inv'
  BY Step
<1>3. Inv => ListsInv
  BY InvImplies
<1> QED BY <1>1, <1>2, <1>3, PTL DEF Spec

(* Types and the bounds of the budgets (IntervalBudget).                    *)
THEOREM TypeCorrect == Spec => []TypeOK
<1>1. Init => Inv
  BY InitInv
<1>2. Inv /\ [Next]_vars => Inv'
  BY Step
<1>3. Inv => TypeOK
  BY InvImplies
<1> QED BY <1>1, <1>2, <1>3, PTL DEF Spec

(* A packet leaves its list only when its callback returned success.        *)
THEOREM LosesNoPacket == Spec => LeavesOnlyWhenSent
<1>1. Init => Inv
  BY InitInv
<1>2. Inv /\ [Next]_vars => Inv'
  BY Step
<1>3. Inv /\ [Next]_vars => [Keeps]_vars
  BY Step
<1>4. Spec => [][Keeps]_vars
  BY <1>1, <1>2, <1>3, PTL DEF Spec
<1> QED BY <1>4 DEF LeavesOnlyWhenSent, Keeps

(* The pacer implements the abstract queue.                                 *)
THEOREM ImplementsQueue == Spec => QueueSpec
<1>1. Init => Inv /\ Queue!Init
  BY InitInv
<1>2. Inv /\ [Next]_vars => Inv' /\ [Queue!Next]_(Queue!queueVars)
  BY Step
<1> QED BY <1>1, <1>2, PTL DEF Spec, QueueSpec, Queue!Spec

(***************************************************************************)
(* The leaky bucket                                                         *)
(***************************************************************************)
Clipped(left) == Larger(left, -MaxSize)
Room(elapsed) == MaxRate * (2 * MaxInterval - elapsed)

LEMMA Maxima ==
  /\ MaxRate \in MaxRates /\ MaxRate \in Nat /\ \A r \in MaxRates : r \in Nat /\ r <= MaxRate
  /\ MaxSize \in Sizes /\ MaxSize \in Nat /\ \A b \in Sizes : b \in Nat /\ b <= MaxSize
<1>1. MaxRate \in MaxRates /\ \A r \in MaxRates : r <= MaxRate
  BY BurstAssumption DEF MaxRate
<1>2. MaxSize \in Sizes /\ \A b \in Sizes : b <= MaxSize
  BY BurstAssumption DEF MaxSize
<1> QED BY <1>1, <1>2, PacerAssumption

(* The room in the bucket by the time since the last update.                *)
LEMMA RoomLeft ==
  ASSUME NEW e \in 0 .. MaxInterval
  PROVE  /\ Room(e) \in Nat /\ MaxRate * MaxInterval \in Nat /\ MaxRate * e \in Nat
         /\ Room(e) >= MaxRate * MaxInterval
         /\ e < MaxInterval => Room(e + 1) = Room(e) - MaxRate
         /\ Room(0) = Room(e) + MaxRate * e
         /\ \A r \in 0 .. MaxRate : r * e \in Nat /\ r * e <= MaxRate * e
         /\ \A r \in 0 .. MaxRate : MaxInterval * r <= MaxRate * MaxInterval
<1>1. MaxRate \in Nat /\ MaxInterval \in Nat /\ e \in Nat /\ e <= MaxInterval
  BY Maxima, PacerAssumption
<1>2. ASSUME NEW m \in Nat, NEW i \in Nat, NEW d \in Nat, d <= i
      PROVE  /\ m * (2 * i - d) \in Nat /\ m * i \in Nat /\ m * d \in Nat
             /\ m * (2 * i - d) >= m * i
             /\ m * (2 * i - (d + 1)) = m * (2 * i - d) - m
             /\ m * (2 * i - 0) = m * (2 * i - d) + m * d
             /\ \A r \in 0 .. m : r * d \in Nat /\ r * d <= m * d /\ i * r <= m * i
  <2>1. PICK k \in Nat : i = d + k
    <3>1. i - d \in Nat /\ i = d + (i - d)
      BY <1>2
    <3> QED BY <3>1
  <2>2. m * i \in Nat /\ m * d \in Nat /\ m * k \in Nat /\ m * i = m * d + m * k
    BY <2>1
  <2>3. m * (2 * i - d) = m * i + m * k /\ m * (2 * i - (d + 1)) = m * i + m * k - m
    BY <2>1
  <2>4. m * (2 * i - 0) = m * i + m * i
    OBVIOUS
  <2>5. ASSUME NEW r \in 0 .. m PROVE r * d \in Nat /\ r * d <= m * d /\ i * r <= m * i
    OBVIOUS
  <2> QED BY <2>2, <2>3, <2>4, <2>5
<1> QED BY <1>1, <1>2 DEF Room

(* What a charge takes from the bucket's side of the budget.                *)
LEMMA UseClipped ==
  ASSUME NEW b \in BudgetOf(MaxRates), NEW bytes \in Nat
  PROVE  LET c == UseBudget(b, bytes)
         IN  /\ b.left \in Int /\ c.left \in Int
             /\ Clipped(c.left) <= Clipped(b.left)
             /\ b.left > 0 /\ bytes \in Sizes => c.left = b.left - bytes /\ c.left >= -MaxSize
<1> DEFINE low == BudgetFloor * b.rate
<1>1. b \in [rate : MaxRates, left : Int] /\ b.rate \in Nat /\ b.left \in Int /\ b.rate \in MaxRates
  BY PacerAssumption DEF BudgetOf
<1>2. low \in Nat /\ MaxSize <= low /\ MaxSize \in Nat /\ \A d \in Sizes : d <= MaxSize
  BY <1>1, Maxima, PacerAssumption, BurstAssumption
<1>3. UseBudget(b, bytes).left = Larger(b.left - bytes, -low)
  BY <1>1 DEF UseBudget
<1> HIDE DEF low
<1> QED BY <1>1, <1>2, <1>3 DEF Larger, Clipped

(* What the loop of Process does to the budget.                             *)
LEMMA ContinueCharges ==
  ASSUME NEW p \in Pacer, Continue(p)
  PROVE  /\ pacer'.sinceUpdate = p.sinceUpdate
         /\ IF proc'.at = "sending"
            THEN proc'.packet.bytes \in Sizes /\ pacer'.media = UseBudget(p.media, proc'.packet.bytes)
            ELSE pacer'.media = p.media
<1> DEFINE prio == ShouldSendNextPacket(p)
<1>1. CASE prio # "None"
  <2>1. prio \in AllPriorities /\ Waiting(p, prio)
    BY <1>1, Chosen
  <2>2. PICK head : head = Head(p.queue[prio])
    OBVIOUS
  <2>3. pacer' = Charge(p, head.bytes) /\ proc' = Sending(prio, head)
    BY <1>1, <2>2 DEF Continue
  <2>4. head \in Packet
    BY <2>1, <2>2 DEF Waiting, Pacer, Queues
  <2>5. proc'.at = "sending" /\ proc'.packet = head /\ head.bytes \in Sizes
    BY <2>3, <2>4 DEF Sending, Packet
  <2>6. pacer'.sinceUpdate = p.sinceUpdate /\ pacer'.media = UseBudget(p.media, head.bytes)
    BY <2>3 DEF Charge, UseBudgets, Pacer
  <2> QED BY <2>5, <2>6
<1>2. CASE prio = "None"
  <2>1. pacer' = p /\ proc'.at # "sending"
    BY <1>2 DEF Continue, Padding, Idle
  <2> QED BY <2>1
<1> QED BY <1>1, <1>2

(* The budget at any time: at most the longest interval at the highest rate.*)
LEMMA LeftBounded ==
  ASSUME NEW b \in BudgetOf(MaxRates)
  PROVE  b.left \in Int /\ b.left <= MaxRate * MaxInterval
<1>1. b.left \in Int
  BY DEF BudgetOf
<1>2. PICK r \in MaxRates : b.left \in -(BudgetFloor * r) .. MaxInterval * r
  BY DEF BudgetOf, Within
<1>3. r \in 0 .. MaxRate /\ 0 \in 0 .. MaxInterval
  BY Maxima, PacerAssumption
<1>4. MaxInterval * r <= MaxRate * MaxInterval
  BY <1>3, RoomLeft
<1>5. MaxInterval * r \in Nat /\ MaxRate * MaxInterval \in Nat /\ BudgetFloor * r \in Nat
  BY <1>3, Maxima, PacerAssumption
<1> QED BY <1>1, <1>2, <1>4, <1>5

(* A loop of Process that has `funds` to spend keeps what is in the bucket  *)
(* and what is left of them within `room`.                                  *)
LEMMA ContinueDrains ==
  ASSUME NEW p \in Pacer, Continue(p), burst \in Nat, NEW room \in Int,
         burst + Clipped(p.media.left) <= room,
         \/ /\ proc'.at = "sending" /\ p.media.left > 0
            /\ burst' = burst + proc'.packet.bytes
         \/ /\ ~(proc'.at = "sending" /\ p.media.left > 0)
            /\ burst' \in 0 .. burst
  PROVE  burst' \in Nat /\ burst' + Clipped(Spendable') <= room
<1>1. p.media \in BudgetOf(MaxRates) /\ p.media.left \in Int /\ MaxSize \in Nat
  BY Maxima DEF Pacer, BudgetOf
<1>2. CASE proc'.at = "sending"
  <2>1. PICK bytes \in Sizes : bytes = proc'.packet.bytes /\ pacer'.media = UseBudget(p.media, bytes)
    BY <1>2, ContinueCharges
  <2>2. Spendable' = UseBudget(p.media, bytes).left /\ bytes \in Nat
    BY <1>2, <2>1, Maxima DEF Spendable, Idle
  <2> DEFINE left == UseBudget(p.media, bytes).left
  <2>3. /\ left \in Int /\ Clipped(left) <= Clipped(p.media.left)
        /\ p.media.left > 0 => left = p.media.left - bytes /\ left >= -MaxSize
    BY <1>1, <2>2, UseClipped
  <2>4. Spendable' = left
    BY <2>2
  <2> HIDE DEF left
  <2>5. CASE p.media.left > 0
    BY <1>1, <1>2, <2>1, <2>2, <2>3, <2>4, <2>5 DEF Clipped, Larger
  <2>6. CASE ~(p.media.left > 0)
    BY <1>1, <1>2, <2>3, <2>4, <2>6 DEF Clipped, Larger
  <2> QED BY <2>5, <2>6
<1>3. CASE proc'.at # "sending"
  <2>1. pacer'.media.left = p.media.left
    BY <1>3, ContinueCharges
  <2>2. Spendable' \in {p.media.left, Smaller(p.media.left, 0)}
    BY <2>1 DEF Spendable
  <2> QED BY <1>1, <1>3, <2>2 DEF Clipped, Larger, Smaller
<1> QED BY <1>2, <1>3

(* What a call that is not Process or the return of a callback leaves.      *)
LEMMA OthersKeep ==
  ASSUME Inv, Push \/ Control
  PROVE  /\ pacer'.media.left = pacer.media.left /\ pacer'.sinceUpdate = pacer.sinceUpdate
         /\ proc' = proc
<1>1. pacer \in Pacer /\ pacer.media \in [rate : MaxRates, left : Int]
  BY DEF Inv, Pacer, BudgetOf
<1>2. CASE Push
  <2>1. PICK prio \in PriosUsed, id \in Ids, bytes \in Sizes, capture \in Captures :
          SendPacket(prio, id, bytes, capture, prio = "High")
    BY <1>2 DEF Push
  <2> QED BY <1>1, <2>1 DEF SendPacket, Pacer
<1>3. CASE Control
  <2>1. CASE Pause \/ Resume \/ (\E enable \in BOOLEAN : SetStatus(enable))
             \/ (\E limit \in Limits : SetMaxQueueLength(limit))
    BY <1>1, <2>1 DEF Pause, Resume, SetStatus, SetMaxQueueLength, Pacer
  <2>2. CASE \E maxRate \in MaxRates, minRate \in MinRates : UpdateBitrate(maxRate, minRate)
    <3>1. PICK maxRate \in MaxRates, minRate \in MinRates : UpdateBitrate(maxRate, minRate)
      BY <2>2
    <3>2. /\ pacer' = [pacer EXCEPT !.media.rate = maxRate, !.padding.rate = minRate]
          /\ proc' = proc
      BY <3>1 DEF UpdateBitrate
    <3>3. pacer'.media = [pacer.media EXCEPT !.rate = maxRate] /\ pacer'.sinceUpdate = pacer.sinceUpdate
      BY <1>1, <3>2 DEF Pacer
    <3> QED BY <1>1, <3>2, <3>3
  <2> QED BY <1>3, <2>1, <2>2 DEF Control
<1> QED BY <1>2, <1>3

(* Every step keeps the bucket.                                             *)
LEMMA BucketStep == ASSUME Inv, Bucket, Next, Drain PROVE Bucket'
<1> DEFINE e == pacer.sinceUpdate
           left == pacer.media.left
<1>1. /\ pacer \in Pacer /\ pacer.media \in BudgetOf(MaxRates) /\ e \in 0 .. MaxInterval
      /\ pacer.media.rate \in 0 .. MaxRate /\ left \in Int
  <2>1. pacer \in Pacer
    BY DEF Inv
  <2>2. pacer.media \in BudgetOf(MaxRates) /\ e \in 0 .. MaxInterval
    BY <2>1 DEF Pacer
  <2>3. pacer.media.rate \in MaxRates /\ left \in Int
    BY <2>2 DEF BudgetOf
  <2>4. \A r \in MaxRates : r \in 0 .. MaxRate
    BY Maxima
  <2> QED BY <2>1, <2>2, <2>3, <2>4
<1>2. burst \in Nat /\ burst + Clipped(Spendable) <= Room(e)
  BY DEF Bucket, Clipped, Room
<1>3. MaxSize \in Nat /\ MaxRate \in Nat /\ MaxInterval \in Nat
  BY Maxima, PacerAssumption
<1>4. Bucket' <=> burst' \in Nat /\ burst' + Clipped(Spendable') <= Room(pacer'.sinceUpdate)
  BY DEF Bucket, Clipped, Room
<1>5. Spendable = IF proc = Idle THEN Smaller(left, 0) ELSE left
  BY DEF Spendable
<1>6. ~(Begins /\ Funds > 0) => burst' \in 0 .. burst
  <2> SUFFICES ASSUME ~(Begins /\ Funds > 0) PROVE burst' \in 0 .. burst
    OBVIOUS
  <2>1. burst' = Larger(burst - MaxRate, 0) \/ burst' = burst
    BY DEF Drain
  <2> QED BY <1>2, <1>3, <2>1 DEF Larger
<1>7. Begins /\ Funds > 0 => burst' = burst + proc'.packet.bytes
  BY DEF Drain
<1>8. /\ Room(e) \in Nat /\ MaxRate * MaxInterval \in Nat
      /\ Room(e) >= MaxRate * MaxInterval
      /\ e < MaxInterval => Room(e + 1) = Room(e) - MaxRate
      /\ Room(0) = Room(e) + MaxRate * e /\ Room(0) \in Nat /\ MaxRate * e \in Nat
      /\ pacer.media.rate * e \in Nat /\ pacer.media.rate * e <= MaxRate * e
  <2>1. 0 \in 0 .. MaxInterval
    BY <1>3
  <2> QED BY <1>1, <2>1, RoomLeft
<1> HIDE DEF left
<1>9. CASE Process
  <2> DEFINE p == [pacer EXCEPT !.sinceUpdate = 0]
             media == IncreaseBudget(pacer.media, e)
             funded == [p EXCEPT !.media = IncreaseBudget(@, e), !.padding = IncreaseBudget(@, e)]
  <2>1. p \in Pacer /\ p.media = pacer.media /\ p.padding = pacer.padding /\ p.sinceUpdate = 0
    BY <1>1, <1>3 DEF Pacer
  <2>2. proc = Idle /\ Spendable = Smaller(left, 0)
    BY <1>5, <1>9 DEF Process
  <2>3. CASE ~pacer.enabled \/ pacer.paused
    <3>1. pacer' = p /\ proc' = Idle
      BY <1>9, <2>3 DEF Process
    <3>2. burst' \in 0 .. burst
      BY <1>6, <3>1 DEF Begins, Idle
    <3>3. Spendable' = Spendable
      BY <2>1, <2>2, <3>1 DEF Spendable
    <3>4. Clipped(Spendable) \in Int
      BY <1>1, <1>3, <2>2 DEF Clipped, Larger, Smaller, left
    <3> QED BY <1>2, <1>4, <1>8, <2>1, <3>1, <3>2, <3>3, <3>4
  <2>4. CASE ~(~pacer.enabled \/ pacer.paused)
    <3>1. Continue(funded)
      BY <1>9, <2>4 DEF Process
    <3>2. funded \in Pacer /\ funded.media = media /\ funded.sinceUpdate = 0
      <4>1. media \in BudgetOf(MaxRates) /\ IncreaseBudget(pacer.padding, e) \in BudgetOf(MinRates)
        BY <1>1, IncreaseStep, PacerAssumption DEF Pacer
      <4> HIDE DEF p
      <4> QED BY <2>1, <4>1 DEF Pacer
    <3>3. media.left = Smaller(left, 0) + pacer.media.rate * e
      BY <1>1 DEF IncreaseBudget, BudgetOf, left
    <3>4. Funds = media.left
      BY <2>2 DEF Funds
    <3>5. Begins <=> proc'.at = "sending"
      BY <1>9 DEF Begins
    <3> HIDE DEF p, media, funded
    <3>6. burst + Clipped(media.left) <= Room(0)
      <4> DEFINE gain == pacer.media.rate * e
                 full == MaxRate * e
      <4>1. /\ gain \in Nat /\ full \in Nat /\ gain <= full /\ media.left = Smaller(left, 0) + gain
            /\ Room(0) = Room(e) + full /\ Room(e) \in Nat /\ Spendable = Smaller(left, 0)
            /\ left \in Int /\ burst \in Nat /\ MaxSize \in Nat
            /\ burst + Clipped(Spendable) <= Room(e)
        BY <1>1, <1>2, <1>3, <1>8, <2>2, <3>3
      <4> HIDE DEF gain, full
      <4> QED BY ONLY <4>1 DEF Clipped, Larger, Smaller
    <3>7. /\ funded.media.left = media.left
          /\ Continue(funded) /\ funded \in Pacer /\ pacer'.sinceUpdate = 0
      BY <3>1, <3>2, ContinueCharges
    <3>8. burst' \in Nat /\ burst' + Clipped(Spendable') <= Room(0)
      BY <1>2, <1>6, <1>7, <1>8, <3>4, <3>5, <3>6, <3>7, ContinueDrains
    <3> QED BY <1>4, <3>7, <3>8
  <2> QED BY <2>3, <2>4
<1>10. CASE PacketSent(TRUE)
  <2> DEFINE p == PopFront(pacer, proc.prio)
  <2>1. Continue(p) /\ proc # Idle /\ proc.at = "sending"
    BY <1>10 DEF PacketSent, Idle
  <2>2. p \in Pacer /\ p.media = pacer.media /\ p.sinceUpdate = e
    <3>1. /\ Waiting(pacer, proc.prio) /\ proc.prio \in AllPriorities /\ pacer.queue \in Queues
          /\ NoDuplicates(pacer.queue[proc.prio])
      BY <1>1, <2>1 DEF Inv, ListsInv, SendingIsHead, Callback, Idle, Pacer
    <3>2. Tail(pacer.queue[proc.prio]) \in Seq(Packet)
      BY <3>1, TailStep DEF Queues, Waiting
    <3>3. [pacer.queue EXCEPT ![proc.prio] = Tail(@)] \in Queues
      BY <3>1, <3>2 DEF Queues
    <3> QED BY <1>1, <3>3 DEF PopFront, Pacer
  <2>3. Funds = left /\ Spendable = left /\ (Begins <=> proc'.at = "sending")
    BY <1>5, <1>10, <2>1 DEF Funds, Begins, left
  <2> HIDE DEF p
  <2>4. p.media.left = left /\ pacer'.sinceUpdate = e
    BY <2>1, <2>2, ContinueCharges DEF left
  <2>5. burst' \in Nat /\ burst' + Clipped(Spendable') <= Room(e)
    BY <1>2, <1>6, <1>7, <1>8, <2>1, <2>2, <2>3, <2>4, ContinueDrains
  <2> QED BY <1>4, <2>4, <2>5
<1>11. CASE ~Process /\ ~PacketSent(TRUE)
  <2>1. ~Begins
    BY <1>11 DEF Begins
  <2>2. burst' \in 0 .. burst
    BY <1>6, <2>1
  <2>3. Clipped(Spendable) \in Int /\ Clipped(Spendable) <= Larger(left, -MaxSize)
    BY <1>1, <1>3, <1>5 DEF Clipped, Larger, Smaller, left
  <2>4. CASE PacketSent(FALSE)
    <3>1. proc # Idle /\ pacer' = pacer /\ proc' = Idle
      BY <2>4 DEF PacketSent, Idle
    <3>2. Spendable = left /\ Spendable' = Smaller(left, 0)
      BY <1>5, <3>1 DEF Spendable, left
    <3> QED BY <1>1, <1>2, <1>3, <1>4, <1>8, <2>2, <3>1, <3>2 DEF Clipped, Larger, Smaller, left
  <2>5. CASE \E bytes \in PaddingSizes : PaddingSent(bytes)
    <3>1. PICK bytes \in PaddingSizes : PaddingSent(bytes)
      BY <2>5
    <3>2. bytes \in Nat
      BY Maxima DEF PaddingSizes
    <3>3. proc # Idle /\ proc' = Idle /\ pacer' = UseBudgets(pacer, bytes)
      BY <3>1 DEF PaddingSent, Idle
    <3>4. pacer'.media = UseBudget(pacer.media, bytes) /\ pacer'.sinceUpdate = e
      BY <1>1, <3>3 DEF UseBudgets, Pacer
    <3> DEFINE l == UseBudget(pacer.media, bytes).left
    <3>5. l \in Int /\ Clipped(l) <= Clipped(left)
      BY <1>1, <3>2, UseClipped DEF left
    <3>6. Spendable = left /\ Spendable' = Smaller(l, 0)
      BY <1>5, <3>3, <3>4 DEF Spendable
    <3> HIDE DEF l
    <3> QED BY <1>1, <1>2, <1>3, <1>4, <1>8, <2>2, <3>4, <3>5, <3>6 DEF Clipped, Larger, Smaller
  <2>6. CASE Push \/ Control
    <3>1. pacer'.media.left = left /\ pacer'.sinceUpdate = e /\ proc' = proc
      BY <2>6, OthersKeep DEF left
    <3>2. Spendable' = Spendable
      BY <3>1 DEF Spendable, left
    <3> QED BY <1>2, <1>4, <1>8, <2>2, <2>3, <3>1, <3>2
  <2>7. CASE Tick
    <3>1. /\ pacer'.media = pacer.media /\ pacer'.sinceUpdate = Smaller(e + 1, MaxInterval)
          /\ proc' = proc
      BY <1>1, <2>7 DEF Tick, Pacer
    <3>2. Spendable' = Spendable
      BY <3>1 DEF Spendable
    <3>3. burst' = Larger(burst - MaxRate, 0)
      BY <2>1, <2>7 DEF Drain
    <3>4. left <= MaxRate * MaxInterval
      BY <1>1, LeftBounded DEF left
    <3> DEFINE full == MaxRate * MaxInterval
    <3>5. /\ e \in 0 .. MaxInterval /\ MaxInterval \in Nat /\ MaxRate \in Nat /\ MaxSize \in Nat
          /\ burst \in Nat /\ left \in Int /\ full \in Nat /\ left <= full
          /\ Room(e) \in Nat /\ Room(e) >= full
          /\ e < MaxInterval => Room(e + 1) = Room(e) - MaxRate
          /\ Clipped(Spendable) \in Int /\ Clipped(Spendable) <= Larger(left, -MaxSize)
          /\ burst + Clipped(Spendable) <= Room(e)
      BY <1>1, <1>2, <1>3, <1>8, <2>3, <3>4
    <3>6. e < MaxInterval => Room(e + 1) >= full
      <4>1. ASSUME e < MaxInterval PROVE Room(e + 1) >= full
        <5>1. e + 1 \in 0 .. MaxInterval
          BY <3>5, <4>1
        <5> QED BY <5>1, RoomLeft
      <4> QED BY <4>1
    <3> HIDE DEF full, e
    <3> DEFINE c == Clipped(Spendable)
    <3>7. c \in Int /\ c <= full
      BY <3>5 DEF Larger
    <3> HIDE DEF c
    <3>8. burst' \in Nat /\ burst' + c <= Room(Smaller(e + 1, MaxInterval))
      <4>1. CASE e < MaxInterval
        <5>1. Smaller(e + 1, MaxInterval) = e + 1
          BY <3>5, <4>1 DEF Smaller
        <5> QED BY <3>3, <3>5, <3>6, <3>7, <4>1, <5>1 DEF Larger, c
      <4>2. CASE e >= MaxInterval
        <5>1. Smaller(e + 1, MaxInterval) = e
          BY <3>5, <4>2 DEF Smaller
        <5> QED BY <3>3, <3>5, <3>7, <5>1 DEF Larger, c
      <4> QED BY <3>5, <4>1, <4>2
    <3> QED BY <1>4, <3>1, <3>2, <3>8 DEF c
  <2> QED BY <1>11, <2>4, <2>5, <2>6, <2>7 DEF Next
<1> QED BY <1>9, <1>10, <1>11

(* What the budget lets out stays within a leaky bucket that drains at the  *)
(* highest rate, for any rates, lengths and intervals whose floor holds a   *)
(* packet (IntervalBudget, Process).                                        *)
THEOREM BurstBounded == BurstSpec => []PacedBurst
<1>1. Init /\ burst = 0 => Inv /\ Bucket
  <2> SUFFICES ASSUME Init, burst = 0 PROVE Inv /\ Bucket
    OBVIOUS
  <2>1. Inv
    BY InitInv
  <2>2. proc = Idle /\ pacer.sinceUpdate = 0 /\ pacer.media.left \in Int
    BY <2>1 DEF Init, Inv, Pacer, BudgetOf
  <2>3. Spendable \in Int /\ Spendable <= 0
    BY <2>2 DEF Spendable, Smaller
  <2>4. 0 \in 0 .. MaxInterval /\ MaxSize \in Nat
    BY PacerAssumption, Maxima
  <2>5. MaxRate * (2 * MaxInterval - 0) \in Nat
    BY <2>4, RoomLeft DEF Room
  <2>6. Larger(Spendable, -MaxSize) <= 0 /\ Larger(Spendable, -MaxSize) \in Int
    BY <2>3, <2>4 DEF Larger
  <2> QED BY <2>1, <2>2, <2>5, <2>6 DEF Bucket
<1>2. Inv /\ Bucket /\ [Next /\ Drain]_<<vars, burst>> => Inv' /\ Bucket'
  <2> SUFFICES ASSUME Inv, Bucket, [Next /\ Drain]_<<vars, burst>> PROVE Inv' /\ Bucket'
    OBVIOUS
  <2>1. [Next]_vars
    OBVIOUS
  <2>2. Inv'
    BY <2>1, Step
  <2>3. CASE Next /\ Drain
    BY <2>2, <2>3, BucketStep
  <2>4. CASE UNCHANGED <<vars, burst>>
    BY <2>2, <2>4 DEF vars, Bucket, Spendable
  <2> QED BY <2>3, <2>4
<1>3. Inv /\ Bucket => PacedBurst
  <2> SUFFICES ASSUME Inv, Bucket PROVE PacedBurst
    OBVIOUS
  <2>1. pacer.sinceUpdate \in 0 .. MaxInterval /\ pacer.media.left \in Int
    BY DEF Inv, Pacer, BudgetOf
  <2>2. PICK e \in 0 .. MaxInterval : e = pacer.sinceUpdate
    BY <2>1
  <2>3. Spendable \in Int /\ MaxSize \in Nat
    BY <2>1, Maxima DEF Spendable, Smaller
  <2>4. /\ Room(e) \in Nat /\ Room(0) = Room(e) + MaxRate * e /\ MaxRate * e \in Nat
        /\ Room(0) \in Nat
    <3>1. 0 \in 0 .. MaxInterval
      BY PacerAssumption
    <3> QED BY <3>1, RoomLeft
  <2>5. Room(0) = 2 * MaxRate * MaxInterval
    BY Maxima, PacerAssumption DEF Room
  <2>6. burst \in Nat /\ burst + Larger(Spendable, -MaxSize) <= Room(e)
    BY <2>2 DEF Bucket, Room
  <2>7. burst <= Room(0) + MaxSize
    BY <2>3, <2>4, <2>6 DEF Larger
  <2> QED BY <2>5, <2>7 DEF PacedBurst
<1> QED BY <1>1, <1>2, <1>3, PTL DEF BurstSpec
=============================================================================
