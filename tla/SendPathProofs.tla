----------------------------- MODULE SendPathProofs -----------------------------
(***************************************************************************)
(* For any history, any number of packets and any interleaving of the three *)
(* threads: packets leave in order, each retransmission was asked for, and  *)
(* a packet is lost only when the history has overwritten it.  A packet of  *)
(* a frame is in one place after the other: with the encoder thread, in the *)
(* pacer's list, on the wire; the numbers before and after it are ordered.  *)
(***************************************************************************)
EXTENDS SendPathProps, SequenceTheorems, FiniteSetTheorems, WellFoundedInduction, TLAPS

(***************************************************************************)
(* The inductive invariant                                                  *)
(***************************************************************************)
Calls == {Pacer!Idle, Pacer!AskPadding}
  \union {Pacer!Offer(prio, id) : prio \in {"High", "Normal"}, id \in Numbers}
History ==
  [store : {TRUE}, prev : 0 .. HistSize - 1, max : Nat, size : {HistSize},
   ring : [0 .. HistSize - 1 -> Slot]]
Places == [at : {"ready", "built", "stored"}, n : Nat]

ListsInv ==
  /\ lists \in [Pacer!Priorities -> Seq(Numbers)] /\ lists["Low"] = <<>>
  /\ \A prio \in Pacer!Priorities : \A i \in DOMAIN lists[prio] : lists[prio][i] \in Taken

TypeInv ==
  /\ busy \in Calls /\ hist \in History /\ marker \in BOOLEAN
  /\ kinds \in Seq(Kinds) /\ Len(kinds) <= MaxPackets
  /\ enc \in Places /\ enc.n <= Len(kinds) /\ (enc.at # "ready" => enc.n \in Taken)
  /\ nack \in 0 .. Len(kinds)
  /\ held \in 0 .. Len(kinds) /\ (held # NoPacket => busy.at # "idle")
  /\ now \in StartTime .. MaxTime
  /\ originals \in Seq(Numbers) /\ \A o \in DOMAIN originals : originals[o] \in Taken
  /\ granted \in [Numbers -> Nat] /\ resent \in [Numbers -> Nat]

(* The packet a callback was given is the head of its list while it runs.   *)
CallInv ==
  /\ busy.at = "sending" =>
       /\ lists[busy.prio] # <<>> /\ Head(lists[busy.prio]) = busy.id
       /\ held \in {NoPacket, busy.id}
  /\ busy.at = "padding" /\ held # NoPacket => ~Media(held)

(* The list of media packets is in order, before the one being built, which *)
(* has the last number taken for one.                                       *)
WaitingInv ==
  /\ \A i, j \in DOMAIN lists["Normal"] : i < j => lists["Normal"][i] < lists["Normal"][j]
  /\ \A i \in DOMAIN lists["Normal"] :
       Media(lists["Normal"][i]) /\ (enc.at # "ready" => lists["Normal"][i] < enc.n)
  /\ enc.at # "ready" => Media(enc.n)
  /\ \A n \in Taken : Media(n) => n <= enc.n

(* What was sent first comes before all that waits.                         *)
SentInv ==
  /\ OriginalsInOrder
  /\ \A o \in DOMAIN originals : Media(originals[o]) =>
       /\ \A i \in DOMAIN lists["Normal"] : originals[o] < lists["Normal"][i]
       /\ enc.at # "ready" => originals[o] < enc.n

(* The marker is set only while the last number is not inside a frame.      *)
MarkerInv ==
  /\ PaddingOutsideFrames
  /\ marker => Len(kinds) > 0 /\ kinds[Len(kinds)] # "media"

(* Requests granted and not answered yet: one with the RTCP thread, one in  *)
(* the list, which holds a number once.                                     *)
One(condition) == IF condition THEN 1 ELSE 0
RequestInv ==
  /\ \A i, j \in DOMAIN lists["High"] : lists["High"][i] = lists["High"][j] => i = j
  /\ \A n \in Numbers :
       resent[n] + One(Pacer!In(n, lists["High"])) + One(nack = n) <= granted[n]

(* The ring holds the last packets kept, counted back from the next slot.   *)
IndexOf(age) ==
  IF age < hist.prev THEN hist.prev - 1 - age ELSE hist.prev - 1 - age + HistSize
RingInv ==
  /\ \A i \in 0 .. HistSize - 1 :
       hist.ring[i].seq \in 0 .. Len(kinds) /\ (hist.ring[i].seq # 0 => hist.ring[i].len = 1)
  /\ \A n \in Kept : Later(n) < HistSize => hist.ring[IndexOf(Later(n))].seq = n

Inv == /\ ListsInv /\ TypeInv /\ CallInv /\ WaitingInv /\ SentInv
       /\ MarkerInv /\ RequestInv /\ RingInv /\ LostOnlyWhenBehind

(***************************************************************************)
(* Facts about numbers, sequences and the ring                              *)
(***************************************************************************)
(* A non-empty set of natural numbers has a least element: the first match  *)
(* of the linear search exists.                                             *)
LEMMA LeastElement ==
  ASSUME NEW S \in SUBSET Nat, S # {}
  PROVE  \E i \in S : \A j \in S : i <= j
<1> DEFINE R == OpToRel(<, Nat)
<1>1. \A x, y \in S : <<y, x>> \in R <=> y < x
  BY SMT DEF OpToRel
<1>2. IsWellFoundedOn(R, Nat)
  BY NatLessThanWellFounded
<1> HIDE DEF R
<1>3. PICK x \in S : \A y \in S : ~(<<y, x>> \in R)
  BY <1>2, WFMin
<1>4. \A y \in S : ~(y < x)
  BY <1>1, <1>3
<1> QED BY <1>4

\* What is left of a sequence without its head.
LEMMA WithoutHead ==
  ASSUME NEW S, NEW s \in Seq(S), s # <<>>
  PROVE  /\ Len(s) \in Nat \ {0} /\ DOMAIN s = 1 .. Len(s)
         /\ Head(s) = s[1] /\ Head(s) \in S
         /\ Tail(s) \in Seq(S) /\ DOMAIN Tail(s) = 1 .. Len(s) - 1
         /\ \A i \in 1 .. Len(s) - 1 : Tail(s)[i] = s[i + 1]
<1>1. /\ Tail(s) \in Seq(S) /\ Len(Tail(s)) = Len(s) - 1 /\ Head(s) \in S
      /\ \A i \in 1 .. Len(Tail(s)) : Tail(s)[i] = s[i + 1]
  BY HeadTailProperties
<1>2. Len(s) \in Nat \ {0} /\ DOMAIN s = 1 .. Len(s) /\ Head(s) = s[1]
  OBVIOUS
<1>3. DOMAIN Tail(s) = 1 .. Len(Tail(s))
  BY <1>1, LenProperties
<1> QED BY <1>1, <1>2, <1>3

\* A sequence with one more element at its end.
LEMMA WithLast ==
  ASSUME NEW S, NEW s \in Seq(S), NEW e \in S
  PROVE  /\ Append(s, e) \in Seq(S) /\ Len(s) \in Nat /\ DOMAIN s = 1 .. Len(s)
         /\ Len(Append(s, e)) = Len(s) + 1 /\ DOMAIN Append(s, e) = 1 .. Len(s) + 1
         /\ \A i \in 1 .. Len(s) : Append(s, e)[i] = s[i]
         /\ Append(s, e)[Len(s) + 1] = e
         /\ Append(s, e) # <<>> /\ (s # <<>> => Head(Append(s, e)) = Head(s))
<1> DEFINE a == Append(s, e)
<1>1. /\ a \in Seq(S) /\ Len(s) \in Nat /\ DOMAIN s = 1 .. Len(s)
      /\ Len(a) = Len(s) + 1 /\ a[Len(s) + 1] = e
      /\ \A i \in 1 .. Len(s) : a[i] = s[i]
  BY AppendProperties, LenProperties
<1> HIDE DEF a
<1>2. DOMAIN a = 1 .. Len(s) + 1 /\ a # <<>>
  BY <1>1, LenProperties
<1>3. s # <<>> => Head(a) = Head(s)
  <2> SUFFICES ASSUME s # <<>> PROVE Head(a) = Head(s)
    OBVIOUS
  <2>1. Len(s) >= 1
    BY <1>1
  <2>2. Head(a) = a[1] /\ Head(s) = s[1]
    BY <1>1, <1>2
  <2> QED BY <1>1, <2>1, <2>2
<1> QED BY <1>1, <1>2, <1>3 DEF a

(* What FindSeqNum returns is a slot with the number, and it finds one if   *)
(* there is one.                                                            *)
LEMMA Finds ==
  ASSUME NEW h \in History, NEW s \in Nat
  PROVE  /\ FindSeqNum(h, s) # NotFound =>
              FindSeqNum(h, s) \in 0 .. HistSize - 1 /\ h.ring[FindSeqNum(h, s)].seq = s
         /\ (\E i \in 0 .. HistSize - 1 : h.ring[i].seq = s) => FindSeqNum(h, s) # NotFound
<1>1. /\ Indices(h) = 0 .. HistSize - 1 /\ Indices(h) \subseteq Nat
      /\ h.prev \in 0 .. HistSize - 1 /\ HistSize \in Nat \ {0} /\ h.size = HistSize
  BY SendPathAssumption DEF History, Indices
<1>2. Hint(h, s) \in Indices(h)
  <2>1. LastIndex(h) \in Indices(h)
    BY <1>1 DEF LastIndex
  <2> QED BY <2>1 DEF Hint
<1>3. CASE h.ring[Hint(h, s)].seq = s
  <2>1. FindSeqNum(h, s) = Hint(h, s)
    BY <1>3 DEF FindSeqNum
  <2> QED BY <1>1, <1>2, <1>3, <2>1 DEF NotFound
<1>4. CASE h.ring[Hint(h, s)].seq # s /\ Matches(h, s) = {}
  <2>1. FindSeqNum(h, s) = NotFound
    BY <1>4 DEF FindSeqNum
  <2>2. \A i \in Indices(h) : h.ring[i].seq # s
    BY <1>4 DEF Matches
  <2> QED BY <1>1, <2>1, <2>2
<1>5. CASE h.ring[Hint(h, s)].seq # s /\ Matches(h, s) # {}
  <2>1. PICK i \in Matches(h, s) : \A j \in Matches(h, s) : i <= j
    <3>1. Matches(h, s) \in SUBSET Nat
      BY <1>1 DEF Matches
    <3> QED BY <1>5, <3>1, LeastElement
  <2>2. FindSeqNum(h, s) = CHOOSE k \in Matches(h, s) : \A j \in Matches(h, s) : k <= j
    BY <1>5 DEF FindSeqNum
  <2>3. FindSeqNum(h, s) \in Matches(h, s)
    BY <2>1, <2>2
  <2>4. FindSeqNum(h, s) \in Indices(h) /\ h.ring[FindSeqNum(h, s)].seq = s
    BY <2>3 DEF Matches
  <2> QED BY <1>1, <2>4 DEF NotFound
<1> QED BY <1>3, <1>4, <1>5

(* Setting the send time of a packet changes no number, length or place.    *)
LEMMA Marks ==
  ASSUME NEW h \in History, NEW s \in Nat, NEW t \in Nat, FindSeqNum(h, s) # NotFound
  PROVE  /\ MarkSent(h, s, t) \in History
         /\ MarkSent(h, s, t).prev = h.prev
         /\ \A i \in 0 .. HistSize - 1 :
              /\ MarkSent(h, s, t).ring[i].seq = h.ring[i].seq
              /\ MarkSent(h, s, t).ring[i].len = h.ring[i].len
<1> DEFINE f == FindSeqNum(h, s)
<1>1. f \in 0 .. HistSize - 1
  BY Finds
<1> HIDE DEF f
<1>2. [h EXCEPT !.ring[f].sent = t] \in History
  <2>1. h.ring \in [0 .. HistSize - 1 -> Slot]
    BY DEF History
  <2>2. [h.ring[f] EXCEPT !.sent = t] \in Slot
    BY <1>1, <2>1 DEF Slot
  <2>3. [h.ring EXCEPT ![f] = [h.ring[f] EXCEPT !.sent = t]] \in [0 .. HistSize - 1 -> Slot]
    BY ONLY <1>1, <2>1, <2>2
  <2>4. [h EXCEPT !.ring[f].sent = t]
          = [h EXCEPT !.ring = [h.ring EXCEPT ![f] = [h.ring[f] EXCEPT !.sent = t]]]
    OBVIOUS
  <2> QED BY <2>3, <2>4 DEF History
<1>3. /\ [h EXCEPT !.ring[f].sent = t].prev = h.prev
      /\ \A i \in 0 .. HistSize - 1 :
           /\ [h EXCEPT !.ring[f].sent = t].ring[i].seq = h.ring[i].seq
           /\ [h EXCEPT !.ring[f].sent = t].ring[i].len = h.ring[i].len
  BY <1>1 DEF History, Slot
<1> QED BY <1>2, <1>3 DEF MarkSent, f

(* Storing a packet of length 1 writes the next slot and moves on.          *)
LEMMA Puts ==
  ASSUME NEW h \in History, NEW n \in SeqNums, n \in Nat, NEW type \in StorageTypes \ {"DontStore"}
  PROVE  LET p == [seq |-> n, len |-> 1, packet |-> n, type |-> type]
             g == Put(h, p, 1)
         IN  /\ g \in History
             /\ g.prev = IF h.prev + 1 >= HistSize THEN 0 ELSE h.prev + 1
             /\ g.ring[h.prev].seq = n /\ g.ring[h.prev].len = 1
             /\ \A i \in 0 .. HistSize - 1 : i # h.prev => g.ring[i] = h.ring[i]
<1> DEFINE p == [seq |-> n, len |-> 1, packet |-> n, type |-> type]
           v == VerifyAndAllocate(h, 1)
           w == WriteSlot(v, p)
           g == Put(h, p, 1)
           slot == SlotFor(p, 0)
           next == IF h.prev + 1 >= HistSize THEN 0 ELSE h.prev + 1
<1>1. /\ h.store /\ h.size = HistSize /\ h.prev \in 0 .. HistSize - 1 /\ h.max \in Nat
      /\ HistSize \in Nat \ {0}
  BY SendPathAssumption DEF History
<1>2. v \in History /\ v.max >= 1 /\ v.prev = h.prev /\ v.ring = h.ring
  <2>1. CASE 1 > h.max
    <3>1. v = [h EXCEPT !.max = 1]
      BY <1>1, <2>1 DEF VerifyAndAllocate
    <3>2. [h EXCEPT !.max = 1] \in History
      BY DEF History
    <3>3. /\ [h EXCEPT !.max = 1].max = 1 /\ [h EXCEPT !.max = 1].prev = h.prev
          /\ [h EXCEPT !.max = 1].ring = h.ring
      BY DEF History
    <3> HIDE DEF v
    <3> QED BY <3>1, <3>2, <3>3
  <2>2. CASE ~(1 > h.max)
    <3>1. v = h
      BY <2>2 DEF VerifyAndAllocate
    <3> QED BY <1>1, <2>2, <3>1
  <2> QED BY <2>1, <2>2
<1>3. slot \in Slot /\ slot.seq = n /\ slot.len = 1
  BY DEF Slot, SlotFor
<1>4. g = Advance(w)
  <2>1. p.type # "DontStore" /\ p.len = 1
    OBVIOUS
  <2>2. v.max \in Nat
    BY <1>2 DEF History
  <2> HIDE DEF p, v
  <2>3. ~(p.len > v.max)
    BY <1>2, <2>1, <2>2
  <2> QED BY <1>1, <2>1, <2>3 DEF Put, v
<1> HIDE DEF p, v, slot
<1>5. /\ w \in History /\ w.prev = h.prev /\ w.size = HistSize
      /\ w.ring[h.prev] = slot
      /\ \A i \in 0 .. HistSize - 1 : i # h.prev => w.ring[i] = h.ring[i]
  BY <1>1, <1>2, <1>3 DEF WriteSlot, History, slot
<1>6. next \in 0 .. HistSize - 1
  BY <1>1
<1> HIDE DEF w
<1>7. Advance(w) \in History /\ Advance(w).prev = next /\ Advance(w).ring = w.ring
  BY <1>5, <1>6 DEF Advance, History
<1> HIDE DEF next, g
<1>8. /\ g \in History /\ g.prev = next
      /\ g.ring[h.prev].seq = n /\ g.ring[h.prev].len = 1
      /\ \A i \in 0 .. HistSize - 1 : i # h.prev => g.ring[i] = h.ring[i]
  BY <1>3, <1>4, <1>5, <1>7
<1> QED BY <1>8 DEF g, next, p

(***************************************************************************)
(* What the steps have in common                                            *)
(***************************************************************************)
\* The packets kept, without comparing records.
LEMMA KeptIs ==
  ASSUME TypeInv
  PROVE  /\ \A n : n \in Kept <=> n \in Taken /\ Media(n) /\ ~(enc.at = "built" /\ enc.n = n)
         /\ IsFiniteSet(Kept) /\ Kept \subseteq Taken
<1>1. enc \in [at : {"ready", "built", "stored"}, n : Nat]
  BY DEF TypeInv, Places
<1>2. \A n : enc = Built(n) <=> enc.at = "built" /\ enc.n = n
  BY <1>1 DEF Built
<1>3. Kept \subseteq Taken
  BY DEF Kept
<1>4. IsFiniteSet(Taken)
  <2>1. Len(kinds) \in Nat
    BY DEF TypeInv
  <2> QED BY <2>1, FS_Interval DEF Taken
<1>5. IsFiniteSet(Kept)
  BY <1>3, <1>4, FS_Subset
<1> QED BY <1>2, <1>3, <1>5 DEF Kept

\* Taking a number adds it at the end.
LEMMA Takes ==
  ASSUME TypeInv, NEW kind \in Kinds, TakeNumber(kind)
  PROVE  /\ kinds' \in Seq(Kinds) /\ Len(kinds) \in Nat /\ Len(kinds') = Len(kinds) + 1
         /\ Len(kinds') <= MaxPackets
         /\ \A n \in Taken : kinds'[n] = kinds[n]
         /\ kinds'[Len(kinds) + 1] = kind
<1>1. kinds \in Seq(Kinds) /\ kinds' = Append(kinds, kind) /\ Len(kinds) < MaxPackets
  BY DEF TypeInv, TakeNumber
<1> QED BY <1>1, WithLast, SendPathAssumption DEF Taken

\* What the process thread turns to is the head of a list, or nothing.
LEMMA ChoicesOf ==
  ASSUME NEW l \in [Pacer!Priorities -> Seq(Numbers)], l["Low"] = <<>>,
         NEW c \in Pacer!Choices(l)
  PROVE  /\ c \in Calls
         /\ c.at = "sending" => l[c.prio] # <<>> /\ Head(l[c.prio]) = c.id
<1>1. CASE c \in {Pacer!Idle, Pacer!AskPadding}
  BY <1>1 DEF Calls, Pacer!Idle, Pacer!AskPadding
<1>2. CASE c \notin {Pacer!Idle, Pacer!AskPadding}
  <2>1. PICK prio \in Pacer!Priorities : l[prio] # <<>> /\ c = Pacer!Offer(prio, Head(l[prio]))
    BY <1>2 DEF Pacer!Choices
  <2>2. prio \in {"High", "Normal"} /\ l[prio] \in Seq(Numbers)
    BY <2>1 DEF Pacer!Priorities
  <2>3. Head(l[prio]) \in Numbers
    BY <2>1, <2>2, WithoutHead
  <2>4. c \in Calls
    BY <2>1, <2>2, <2>3 DEF Calls
  <2>5. c.prio = prio /\ c.id = Head(l[prio])
    BY <2>1 DEF Pacer!Offer
  <2> QED BY <2>1, <2>4, <2>5
<1> QED BY <1>1, <1>2

\* Where the process thread may be, and what it has there.
LEMMA CallsOf ==
  ASSUME NEW c \in Calls
  PROVE  /\ c.at \in {"idle", "sending", "padding"}
         /\ c.at = "sending" => c.prio \in {"High", "Normal"} /\ c.id \in Numbers
BY DEF Calls, Pacer!Idle, Pacer!AskPadding, Pacer!Offer

\* A list without its head.
LEMMA PopStep ==
  ASSUME Inv, busy.at = "sending", Pacer!Answer(TRUE)
  PROVE  /\ busy.prio \in {"High", "Normal"} /\ busy.id \in Numbers
         /\ lists' \in [Pacer!Priorities -> Seq(Numbers)] /\ lists'["Low"] = <<>>
         /\ \A prio \in Pacer!Priorities : prio # busy.prio => lists'[prio] = lists[prio]
         /\ LET s == lists[busy.prio]
                t == lists'[busy.prio]
            IN  /\ Len(s) \in Nat \ {0} /\ DOMAIN s = 1 .. Len(s) /\ s[1] = busy.id
                /\ DOMAIN t = 1 .. Len(s) - 1 /\ \A i \in 1 .. Len(s) - 1 : t[i] = s[i + 1]
         /\ busy' \in Calls
         /\ busy'.at = "sending" => lists'[busy'.prio] # <<>> /\ Head(lists'[busy'.prio]) = busy'.id
<1>1. /\ lists \in [Pacer!Priorities -> Seq(Numbers)] /\ lists["Low"] = <<>>
      /\ lists[busy.prio] # <<>> /\ Head(lists[busy.prio]) = busy.id
      /\ busy \in Calls
  BY DEF Inv, ListsInv, TypeInv, CallInv
<1>2. busy.prio \in {"High", "Normal"} /\ busy.id \in Numbers
  BY <1>1, CallsOf
<1>3. /\ lists' = [lists EXCEPT ![busy.prio] = Tail(lists[busy.prio])]
      /\ busy' \in Pacer!Choices(lists')
  BY DEF Pacer!Answer
<1> DEFINE s == lists[busy.prio]
<1>4. s \in Seq(Numbers)
  BY <1>1, <1>2 DEF Pacer!Priorities
<1>5. /\ Len(s) \in Nat \ {0} /\ DOMAIN s = 1 .. Len(s) /\ s[1] = busy.id
      /\ Tail(s) \in Seq(Numbers) /\ DOMAIN Tail(s) = 1 .. Len(s) - 1
      /\ \A i \in 1 .. Len(s) - 1 : Tail(s)[i] = s[i + 1]
  BY <1>1, <1>4, WithoutHead
<1>6. /\ lists' \in [Pacer!Priorities -> Seq(Numbers)] /\ lists'["Low"] = <<>>
      /\ \A prio \in Pacer!Priorities : prio # busy.prio => lists'[prio] = lists[prio]
      /\ lists'[busy.prio] = Tail(s)
  BY <1>1, <1>2, <1>3, <1>5 DEF Pacer!Priorities
<1>7. /\ busy' \in Calls
      /\ busy'.at = "sending" => lists'[busy'.prio] # <<>> /\ Head(lists'[busy'.prio]) = busy'.id
  BY <1>3, <1>6, ChoicesOf
<1> QED BY <1>2, <1>5, <1>6, <1>7

\* A list with a new element at its end, or the same when it has it already.
LEMMA AcceptStep ==
  ASSUME Inv, NEW prio \in {"High", "Normal"}, NEW id \in Numbers, Pacer!Accept(prio, id)
  PROVE  /\ lists' \in [Pacer!Priorities -> Seq(Numbers)] /\ lists'["Low"] = <<>>
         /\ busy' = busy
         /\ \A p \in Pacer!Priorities : p # prio => lists'[p] = lists[p]
         /\ LET s == lists[prio]
                t == lists'[prio]
            IN  /\ Len(s) \in Nat /\ DOMAIN s = 1 .. Len(s)
                /\ \/ Pacer!In(id, s) /\ t = s
                   \/ /\ ~Pacer!In(id, s) /\ DOMAIN t = 1 .. Len(s) + 1
                      /\ \A i \in 1 .. Len(s) : t[i] = s[i]
                      /\ t[Len(s) + 1] = id
         /\ busy.at = "sending" => lists'[busy.prio] # <<>> /\ Head(lists'[busy.prio]) = busy.id
<1>1. /\ lists \in [Pacer!Priorities -> Seq(Numbers)] /\ lists["Low"] = <<>> /\ busy \in Calls
      /\ busy.at = "sending" => lists[busy.prio] # <<>> /\ Head(lists[busy.prio]) = busy.id
  BY DEF Inv, ListsInv, TypeInv, CallInv
<1> DEFINE s == lists[prio]
           t == lists'[prio]
<1>2. s \in Seq(Numbers) /\ prio \in Pacer!Priorities
  BY <1>1 DEF Pacer!Priorities
<1>3. /\ lists' = [lists EXCEPT ![prio] = IF Pacer!In(id, s) THEN s ELSE Append(s, id)]
      /\ busy' = busy
  BY DEF Pacer!Accept
<1>4. /\ Append(s, id) \in Seq(Numbers) /\ Len(s) \in Nat /\ DOMAIN s = 1 .. Len(s)
      /\ DOMAIN Append(s, id) = 1 .. Len(s) + 1
      /\ \A i \in 1 .. Len(s) : Append(s, id)[i] = s[i]
      /\ Append(s, id)[Len(s) + 1] = id
      /\ Append(s, id) # <<>> /\ (s # <<>> => Head(Append(s, id)) = Head(s))
  BY <1>2, WithLast
<1>5. /\ lists' \in [Pacer!Priorities -> Seq(Numbers)]
      /\ \A p \in Pacer!Priorities : p # prio => lists'[p] = lists[p]
      /\ t = IF Pacer!In(id, s) THEN s ELSE Append(s, id)
  BY <1>1, <1>2, <1>3, <1>4
<1>6. lists'["Low"] = <<>>
  BY <1>1, <1>5 DEF Pacer!Priorities
<1>7. busy.at = "sending" => lists'[busy.prio] # <<>> /\ Head(lists'[busy.prio]) = busy.id
  <2> SUFFICES ASSUME busy.at = "sending"
               PROVE  lists'[busy.prio] # <<>> /\ Head(lists'[busy.prio]) = busy.id
    OBVIOUS
  <2>1. busy.prio \in Pacer!Priorities
    BY <1>1, CallsOf DEF Pacer!Priorities
  <2>2. CASE busy.prio # prio
    BY <1>1, <1>5, <2>1, <2>2
  <2>3. CASE busy.prio = prio
    BY <1>1, <1>4, <1>5, <2>3
  <2> QED BY <2>2, <2>3
<1> QED BY <1>3, <1>4, <1>5, <1>6, <1>7

(***************************************************************************)
(* What each step does to the invariant                                     *)
(***************************************************************************)
\* While no packet is put into the history, ages in the ring stay.
LEMMA AgesStay ==
  ASSUME Kept' = Kept
  PROVE  \A n : Later(n)' = Later(n)
BY DEF Later

\* Every age below the size has a slot.
LEMMA IndexIn ==
  ASSUME hist \in History
  PROVE  \A k \in 0 .. HistSize - 1 : IndexOf(k) \in 0 .. HistSize - 1
<1>1. PICK p \in 0 .. HistSize - 1 : p = hist.prev
  BY DEF History
<1>2. PICK size \in Nat \ {0} : size = HistSize
  BY SendPathAssumption
<1>3. \A k : IndexOf(k) = IF k < p THEN p - 1 - k ELSE p - 1 - k + size
  BY ONLY <1>1, <1>2 DEF IndexOf
<1>4. p \in 0 .. size - 1
  BY ONLY <1>1, <1>2
<1>5. \A k \in 0 .. size - 1 :
        (IF k < p THEN p - 1 - k ELSE p - 1 - k + size) \in 0 .. size - 1
  BY ONLY <1>4, size \in Nat
<1>6. \A k \in 0 .. size - 1 : IndexOf(k) \in 0 .. size - 1
  BY ONLY <1>3, <1>5
<1> QED BY ONLY <1>2, <1>6

\* With the same packets kept, the same numbers in the ring are enough.
LEMMA RingStays ==
  ASSUME Inv, Kept' = Kept, Len(kinds') \in Nat, Len(kinds) <= Len(kinds'),
         hist'.prev = hist.prev,
         \A i \in 0 .. HistSize - 1 : hist'.ring[i].seq = hist.ring[i].seq
                                      /\ hist'.ring[i].len = hist.ring[i].len
  PROVE  RingInv'
<1>1. \A n : Later(n)' = Later(n)
  BY AgesStay
<1>2. \A k : IndexOf(k)' = IndexOf(k)
  BY DEF IndexOf
<1>3. \A n \in Kept : Later(n) \in Nat
  <2> SUFFICES ASSUME NEW n \in Kept PROVE Later(n) \in Nat
    OBVIOUS
  <2>1. IsFiniteSet({k \in Kept : k > n})
    BY KeptIs, FS_Subset DEF Inv
  <2> QED BY <2>1, FS_CardinalityType DEF Later
<1>4. \A k \in 0 .. HistSize - 1 : IndexOf(k) \in 0 .. HistSize - 1
  BY IndexIn DEF Inv, TypeInv
<1>5. \A n \in Kept' : Later(n)' < HistSize => hist'.ring[IndexOf(Later(n))'].seq = n
  <2> SUFFICES ASSUME NEW n \in Kept, Later(n) < HistSize
               PROVE  hist'.ring[IndexOf(Later(n))].seq = n
    BY <1>1, <1>2
  <2>1. hist.ring[IndexOf(Later(n))].seq = n
    BY DEF Inv, RingInv
  <2>2. IndexOf(Later(n)) \in 0 .. HistSize - 1
    BY <1>3, <1>4, SendPathAssumption
  <2> QED BY <2>1, <2>2
<1>6. \A i \in 0 .. HistSize - 1 :
        hist'.ring[i].seq \in 0 .. Len(kinds') /\ (hist'.ring[i].seq # 0 => hist'.ring[i].len = 1)
  <2>1. Len(kinds) \in Nat
    BY DEF Inv, TypeInv
  <2>2. \A i \in 0 .. HistSize - 1 :
          hist.ring[i].seq \in 0 .. Len(kinds) /\ (hist.ring[i].seq # 0 => hist.ring[i].len = 1)
    BY DEF Inv, RingInv
  <2>3. \A x \in 0 .. Len(kinds) : x \in 0 .. Len(kinds')
    BY <2>1
  <2> QED BY <2>2, <2>3
<1> QED BY <1>5, <1>6 DEF RingInv

\* The encoder thread takes the next number for a media or an FEC packet.
LEMMA BuildStep ==
  ASSUME Inv, NEW kind \in Kinds \ {"padding"}, enc.at = "ready", TakeNumber(kind),
         enc' = Built(NextNumber), marker' \in BOOLEAN,
         kind # "media" \/ ~marker',
         UNCHANGED <<pacerVars, hist, nack, held, now, wireVars>>
  PROVE  Inv'
<1>0. PICK last \in Nat \ {0} : last = Len(kinds) + 1
  BY DEF Inv, TypeInv
<1>1. /\ kinds' \in Seq(Kinds) /\ Len(kinds) \in Nat /\ Len(kinds') = last
      /\ last <= MaxPackets
      /\ \A n \in Taken : kinds'[n] = kinds[n]
      /\ kinds'[last] = kind
  BY <1>0, Takes DEF Inv
<1>2. /\ lists' = lists /\ busy' = busy /\ hist' = hist /\ nack' = nack /\ held' = held
      /\ now' = now /\ originals' = originals /\ granted' = granted /\ resent' = resent
  BY DEF pacerVars, wireVars
<1>3. enc' \in Places /\ enc'.at = "built" /\ enc'.n = last
  BY <1>0, <1>1 DEF Built, NextNumber, Places
<1>4. Taken = 1 .. last - 1 /\ Taken' = 1 .. last /\ Taken \subseteq Taken'
  BY <1>0, <1>1 DEF Taken
<1>5. /\ \A n \in Taken : Media(n)' <=> Media(n)
      /\ Media(last)'
  BY <1>1 DEF Media
<1>6. last \in Nat \ {0} /\ last \notin Taken
  BY <1>4
<1>7. ListsInv'
  BY <1>2, <1>4 DEF Inv, ListsInv
<1>8. TypeInv'
  <2>1. \A x \in 0 .. Len(kinds) : x \in 0 .. last
    BY <1>0
  <2> QED BY <1>1, <1>2, <1>3, <1>4, <1>6, <2>1 DEF Inv, TypeInv
<1>9. CallInv'
  <2>1. held # NoPacket => held \in Taken
    BY <1>1 DEF Inv, TypeInv, Taken, NoPacket
  <2> QED BY <1>2, <1>5, <2>1 DEF Inv, CallInv
<1>10. WaitingInv'
  <2>1. \A i \in DOMAIN lists["Normal"] : lists["Normal"][i] \in Taken
    BY DEF Inv, ListsInv, Pacer!Priorities
  <2>2. \A n \in Taken : n < last
    BY <1>4, <1>6
  <2>3. \A n \in Taken' : n <= last
    BY <1>4, <1>6
  <2> QED BY <1>2, <1>3, <1>5, <2>1, <2>2, <2>3 DEF Inv, WaitingInv
<1>11. SentInv'
  <2>1. \A o \in DOMAIN originals : originals[o] \in Taken
    BY DEF Inv, TypeInv
  <2>2. \A n \in Taken : n < last
    BY <1>4, <1>6
  <2> QED BY <1>2, <1>3, <1>5, <2>1, <2>2 DEF Inv, SentInv, OriginalsInOrder
<1>12. MarkerInv'
  <2>1. \A n \in Taken' : kinds'[n] = "padding" => n > 1 /\ kinds'[n - 1] # "media"
    <3> SUFFICES ASSUME NEW n \in Taken', kinds'[n] = "padding"
                 PROVE  n > 1 /\ kinds'[n - 1] # "media"
      OBVIOUS
    <3>1. n \in Taken
      BY <1>1, <1>4, <1>6
    <3>2. kinds[n] = "padding"
      BY <1>1, <3>1
    <3>3. n > 1 /\ kinds[n - 1] # "media"
      BY <3>1, <3>2 DEF Inv, MarkerInv, PaddingOutsideFrames
    <3>4. n - 1 \in Taken
      BY <1>4, <1>6, <3>1, <3>3
    <3> QED BY <1>1, <3>3, <3>4
  <2> QED BY <1>1, <1>6, <2>1 DEF MarkerInv, PaddingOutsideFrames
<1>13. RequestInv'
  BY <1>2 DEF Inv, RequestInv
<1>14. Kept' = Kept
  <2>1. TypeInv /\ TypeInv'
    BY <1>8 DEF Inv
  <2>2. \A n : n \in Kept <=> n \in Taken /\ Media(n)
    BY <2>1, KeptIs
  <2>3. \A n \in Taken : n \in Kept' <=> n \in Kept
    BY <1>3, <1>4, <1>5, <1>6, <2>2 DEF Kept, Built, Places
  <2>4. \A n : n \in Kept' => n \in Taken' /\ enc' # Built(n)
    BY DEF Kept, Built
  <2>5. last \notin Kept'
    BY <1>0, <2>4 DEF NextNumber
  <2>6. \A n : n \in Kept' => n \in Taken
    BY <1>1, <1>4, <1>6, <2>4, <2>5
  <2> QED BY <2>2, <2>3, <2>6
<1>15. RingInv'
  BY <1>1, <1>2, <1>6, <1>14, RingStays, <1>0
<1>16. LostOnlyWhenBehind'
  <2>1. \A n : Later(n)' = Later(n)
    BY <1>14, AgesStay
  <2>2. \A n \in Taken' : n = last \/ n \in Taken
    BY <1>4, <1>6
  <2> QED BY <1>2, <1>3, <1>5, <2>1, <2>2 DEF Inv, LostOnlyWhenBehind, Pacer!In
<1> QED BY <1>7, <1>8, <1>9, <1>10, <1>11, <1>12, <1>13, <1>15, <1>16 DEF Inv

\* One more packet kept: every older one is one step further back.
LEMMA AgesGrow ==
  ASSUME IsFiniteSet(Kept), Kept \subseteq Nat, NEW last \in Nat, last \notin Kept,
         Kept' = Kept \union {last}, \A k \in Kept : k < last
  PROVE  /\ \A n \in Nat : Later(n) \in Nat
         /\ \A n \in Nat : n < last => Later(n)' = Later(n) + 1
         /\ Later(last)' = 0
<1>1. ASSUME NEW n \in Nat
      PROVE  IsFiniteSet({k \in Kept : k > n}) /\ Later(n) \in Nat
  <2>1. IsFiniteSet({k \in Kept : k > n})
    BY FS_Subset
  <2> QED BY <2>1, FS_CardinalityType DEF Later
<1>2. ASSUME NEW n \in Nat, n < last
      PROVE  Later(n)' = Later(n) + 1
  <2> DEFINE S == {k \in Kept : k > n}
  <2>1. {k \in Kept' : k > n} = S \union {last}
    BY <1>2
  <2>2. IsFiniteSet(S) /\ last \notin S
    BY <1>1
  <2> HIDE DEF S
  <2>3. Cardinality(S \union {last}) = Cardinality(S) + 1
    BY <2>2, FS_AddElement
  <2> QED BY <2>1, <2>3 DEF Later, S
<1>3. Later(last)' = 0
  <2>1. {k \in Kept' : k > last} = {}
    <3>1. \A k \in Kept' : k \in Nat /\ k <= last
      OBVIOUS
    <3>2. \A k \in Kept' : ~(k > last)
      BY <3>1
    <3> QED BY <3>2
  <2> QED BY <2>1, FS_EmptySet DEF Later
<1> QED BY <1>1, <1>2, <1>3

\* The packet goes to the next slot; the packet there had HistSize - 1 after it.
LEMMA StoreStep ==
  ASSUME Inv, Store
  PROVE  Inv'
<1>1. /\ enc.at = "built" /\ enc.n \in Taken /\ enc.n <= Len(kinds) /\ enc.n \in Nat
      /\ kinds \in Seq(Kinds) /\ Len(kinds) \in Nat /\ Len(kinds) <= MaxPackets
      /\ hist \in History /\ hist.prev \in 0 .. HistSize - 1 /\ HistSize \in Nat \ {0}
  <2>1. TypeInv /\ enc.at = "built" /\ HistSize \in Nat \ {0}
    BY SendPathAssumption DEF Store, Inv
  <2>2. hist \in History /\ enc \in Places /\ enc.n \in Taken
    BY <2>1 DEF TypeInv
  <2>3. hist.prev \in 0 .. HistSize - 1 /\ enc.n \in Nat
    BY <2>2 DEF History, Places
  <2> QED BY <2>1, <2>2, <2>3 DEF TypeInv
<1>2. /\ kinds' = kinds /\ lists' = lists /\ busy' = busy /\ nack' = nack /\ held' = held
      /\ marker' = marker
      /\ now' = now /\ originals' = originals /\ granted' = granted /\ resent' = resent
  BY DEF Store, pacerVars, wireVars
<1>3. enc' \in Places /\ enc'.at = "stored" /\ enc'.n = enc.n /\ \A n : enc' # Built(n)
  BY <1>1 DEF Store, Stored, Places, Built
<1>4. PICK last \in Nat : last = enc.n
  BY <1>1
<1>5. /\ hist' \in History
      /\ hist'.prev = IF hist.prev + 1 >= HistSize THEN 0 ELSE hist.prev + 1
      /\ hist'.ring[hist.prev].seq = last /\ hist'.ring[hist.prev].len = 1
      /\ \A i \in 0 .. HistSize - 1 : i # hist.prev => hist'.ring[i] = hist.ring[i]
  <2>1. last \in SeqNums
    BY <1>1, <1>4, SendPathAssumption, SeqSpaceAssumption DEF SeqNums
  <2>2. StorageOf(last) \in StorageTypes \ {"DontStore"}
    BY DEF StorageOf, StorageTypes
  <2>3. hist' = Put(hist, [seq |-> last, len |-> 1, packet |-> last, type |-> StorageOf(last)], 1)
    BY <1>4 DEF Store
  <2>4. hist \in History
    BY <1>1
  <2>5. PICK type \in StorageTypes \ {"DontStore"} : type = StorageOf(last)
    BY <2>2
  <2>6. hist' = Put(hist, [seq |-> last, len |-> 1, packet |-> last, type |-> type], 1)
    BY ONLY <2>3, <2>5
  <2> QED BY ONLY <2>1, <2>4, <2>6, last \in Nat, Puts
<1>6. Taken' = Taken /\ \A n : Media(n)' <=> Media(n)
  BY <1>2 DEF Taken, Media
<1>7. ListsInv'
  BY <1>2, <1>6 DEF Inv, ListsInv
<1>8. TypeInv'
  BY <1>1, <1>2, <1>3, <1>5, <1>6 DEF Inv, TypeInv
<1>9. CallInv'
  BY <1>2, <1>6 DEF Inv, CallInv
<1>10. WaitingInv'
  BY <1>1, <1>2, <1>3, <1>6 DEF Inv, WaitingInv
<1>11. SentInv'
  BY <1>1, <1>2, <1>3, <1>6 DEF Inv, SentInv, OriginalsInOrder
<1>12. MarkerInv'
  BY <1>2, <1>6 DEF Inv, MarkerInv, PaddingOutsideFrames
<1>13. RequestInv'
  BY <1>2 DEF Inv, RequestInv
<1>14. /\ IsFiniteSet(Kept) /\ Kept \subseteq Nat /\ last \notin Kept
       /\ Kept' = Kept \union {last} /\ \A k \in Kept : k < last
  <2>1. /\ \A n : n \in Kept <=> n \in Taken /\ Media(n) /\ n # last
        /\ IsFiniteSet(Kept)
    BY <1>1, <1>4, KeptIs DEF Inv
  <2>2. \A n : n \in Kept' <=> n \in Taken /\ Media(n)
    BY <1>3, <1>6 DEF Kept
  <2>3. last \in Taken /\ Media(last)
    BY <1>1, <1>4 DEF Inv, WaitingInv
  <2>4. \A n \in Taken : Media(n) => n <= last
    BY <1>4 DEF Inv, WaitingInv
  <2>5. Taken \subseteq Nat
    BY <1>1 DEF Taken
  <2>6. \A n : n \in Kept' <=> n \in Kept \union {last}
    BY <2>1, <2>2, <2>3
  <2>7. \A k \in Kept : k \in Nat /\ k <= last /\ k # last
    BY <2>1, <2>4, <2>5
  <2>8. \A k \in Kept : k < last
    BY <2>7
  <2> QED BY <2>1, <2>6, <2>7, <2>8
<1>15. /\ \A n \in Nat : Later(n) \in Nat
       /\ \A n \in Kept : Later(n)' = Later(n) + 1
       /\ Later(last)' = 0
  BY <1>14, AgesGrow
<1>16. RingInv'
  <2>1. \A i \in 0 .. HistSize - 1 :
          /\ hist'.ring[i].seq \in 0 .. Len(kinds)
          /\ hist'.ring[i].seq # 0 => hist'.ring[i].len = 1
    <3>1. \A i \in 0 .. HistSize - 1 :
            hist.ring[i].seq \in 0 .. Len(kinds) /\ (hist.ring[i].seq # 0 => hist.ring[i].len = 1)
      BY DEF Inv, RingInv
    <3>2. last \in 0 .. Len(kinds)
      BY <1>1, <1>4
    <3> QED BY ONLY <1>5, <3>1, <3>2
  <2>2. \A k : IndexOf(k)' = IF k < hist'.prev THEN hist'.prev - 1 - k
                             ELSE hist'.prev - 1 - k + HistSize
    BY DEF IndexOf
  <2>3. IndexOf(0)' = hist.prev
    BY <1>1, <1>5, <2>2
  <2>4. \A k \in 0 .. HistSize - 2 :
          /\ IndexOf(k + 1)' = IndexOf(k) /\ IndexOf(k) # hist.prev
          /\ IndexOf(k) \in 0 .. HistSize - 1
    <3>1. PICK p \in 0 .. HistSize - 1 : p = hist.prev
      BY <1>1
    <3>2. PICK size \in Nat \ {0} : size = HistSize
      BY <1>1
    <3>3. \A k : /\ IndexOf(k) = IF k < p THEN p - 1 - k ELSE p - 1 - k + size
                 /\ IndexOf(k)' = IF k < hist'.prev THEN hist'.prev - 1 - k
                                  ELSE hist'.prev - 1 - k + size
      BY ONLY <2>2, <3>1, <3>2 DEF IndexOf
    <3>4. PICK q \in Int : q = hist'.prev /\ q = IF p + 1 >= size THEN 0 ELSE p + 1
      BY <1>5, <3>1, <3>2
    <3>5. p \in 0 .. size - 1
      BY ONLY <3>1, <3>2
    <3>6. \A k \in 0 .. size - 2 :
            LET a == IF k < p THEN p - 1 - k ELSE p - 1 - k + size
                b == IF k + 1 < q THEN q - 1 - (k + 1) ELSE q - 1 - (k + 1) + size
            IN  a = b /\ a # p /\ a \in 0 .. size - 1
      BY ONLY <3>4, <3>5, size \in Nat \ {0}
    <3>7. \A k \in 0 .. size - 2 :
            IndexOf(k + 1)' = IndexOf(k) /\ IndexOf(k) # p /\ IndexOf(k) \in 0 .. size - 1
      BY ONLY <3>3, <3>4, <3>6
    <3> QED BY ONLY <3>1, <3>2, <3>7
  <2>5. \A n \in Kept' : Later(n)' < HistSize => hist'.ring[IndexOf(Later(n))'].seq = n
    <3> SUFFICES ASSUME NEW n \in Kept', Later(n)' < HistSize
                 PROVE  hist'.ring[IndexOf(Later(n))'].seq = n
      OBVIOUS
    <3>1. CASE n = last
      <4>1. IndexOf(Later(n))' = IndexOf(0)'
        BY <1>15, <3>1 DEF IndexOf
      <4> QED BY <1>5, <2>3, <3>1, <4>1
    <3>2. CASE n \in Kept
      <4>1. PICK k \in Nat : k = Later(n)
        BY <1>14, <1>15, <3>2
      <4>2. Later(n)' = k + 1 /\ k \in 0 .. HistSize - 2
        BY <1>1, <1>15, <3>2, <4>1
      <4>3. IndexOf(Later(n))' = IndexOf(k + 1)'
        BY <4>2 DEF IndexOf
      <4>4. hist.ring[IndexOf(k)].seq = n
        BY <1>1, <3>2, <4>1, <4>2 DEF Inv, RingInv
      <4> QED BY <1>5, <2>4, <4>2, <4>3, <4>4
    <3> QED BY <1>14, <3>1, <3>2
  <2> QED BY <1>2, <2>1, <2>5 DEF RingInv
<1>17. LostOnlyWhenBehind'
  <2> SUFFICES ASSUME NEW n \in Taken, Media(n), n # enc.n,
                      ~\E i \in DOMAIN originals : originals[i] = n,
                      ~Pacer!In(n, lists["Normal"])
               PROVE  Later(n)' >= HistSize
    BY <1>1, <1>2, <1>3, <1>6 DEF LostOnlyWhenBehind, Pacer!In
  <2>1. Later(n) >= HistSize
    BY <1>1 DEF Inv, LostOnlyWhenBehind
  <2>2. n \in Kept
    BY <1>1, KeptIs DEF Inv
  <2> QED BY <1>1, <1>14, <1>15, <2>1, <2>2
<1> QED BY <1>7, <1>8, <1>9, <1>10, <1>11, <1>12, <1>13, <1>16, <1>17 DEF Inv

\* What depends on the numbers and the encoder thread only.
LEMMA SameNumbers ==
  ASSUME Inv, UNCHANGED kinds
  PROVE  /\ Taken' = Taken /\ \A n : Media(n)' <=> Media(n)
         /\ Len(kinds) \in Nat /\ Taken \subseteq Numbers
         /\ enc' = enc => Kept' = Kept /\ \A n : Later(n)' = Later(n)
<1>1. Taken' = Taken /\ \A n : Media(n)' <=> Media(n)
  BY DEF Taken, Media
<1>2. Len(kinds) \in Nat /\ Taken \subseteq Numbers
  BY SendPathAssumption DEF Inv, TypeInv, Taken, Numbers
<1>3. enc' = enc => Kept' = Kept
  BY <1>1 DEF Kept, Built
<1> QED BY <1>1, <1>2, <1>3, AgesStay

\* The packet built joins the normal list as its last, with the highest number.
LEMMA SendPacketStep ==
  ASSUME Inv, SendPacket
  PROVE  Inv'
<1> DEFINE s == lists["Normal"]
           t == lists'["Normal"]
<1>1. /\ enc.at = "stored" /\ enc.n \in Taken /\ enc \in Places /\ Pacer!Accept("Normal", enc.n)
      /\ enc' \in Places /\ enc'.at = "ready" /\ enc'.n = enc.n
      /\ hist' = hist /\ marker' = marker /\ kinds' = kinds /\ nack' = nack /\ held' = held
      /\ now' = now /\ originals' = originals /\ granted' = granted /\ resent' = resent
  BY DEF SendPacket, Ready, Inv, TypeInv, Places, wireVars
<1>2. /\ Taken' = Taken /\ \A n : Media(n)' <=> Media(n)
      /\ Len(kinds) \in Nat /\ Taken \subseteq Numbers
  BY <1>1, SameNumbers
<1>3. /\ lists' \in [Pacer!Priorities -> Seq(Numbers)] /\ lists'["Low"] = <<>>
      /\ busy' = busy
      /\ lists'["High"] = lists["High"]
      /\ Len(s) \in Nat /\ DOMAIN s = 1 .. Len(s)
      /\ \/ Pacer!In(enc.n, s) /\ t = s
         \/ /\ ~Pacer!In(enc.n, s) /\ DOMAIN t = 1 .. Len(s) + 1
            /\ \A i \in 1 .. Len(s) : t[i] = s[i]
            /\ t[Len(s) + 1] = enc.n
      /\ busy.at = "sending" => lists'[busy.prio] # <<>> /\ Head(lists'[busy.prio]) = busy.id
  BY <1>1, <1>2, AcceptStep DEF Pacer!Priorities
<1>4. \A i \in DOMAIN s : s[i] \in Taken /\ Media(s[i]) /\ s[i] < enc.n
  BY <1>1 DEF Inv, ListsInv, WaitingInv, Pacer!Priorities
<1>5. PICK last \in Nat : last = enc.n
  BY <1>1 DEF Places
<1>6. PICK k \in Nat : k = Len(s)
  BY <1>3
<1>7. /\ DOMAIN s = 1 .. k /\ DOMAIN t = 1 .. k + 1
      /\ \A i \in 1 .. k : t[i] = s[i]
      /\ t[k + 1] = last
  <2>1. ~Pacer!In(enc.n, s)
    BY <1>4, <1>5 DEF Pacer!In, Taken
  <2> QED BY <1>3, <1>5, <1>6, <2>1
<1> HIDE DEF s, t
<1>8. \A i \in DOMAIN t : (i \in DOMAIN s /\ t[i] = s[i]) \/ (i = k + 1 /\ t[i] = last)
  BY <1>6, <1>7
<1>9. ListsInv'
  <2>1. \A i \in DOMAIN t : t[i] \in Taken
    BY <1>1, <1>4, <1>5, <1>8
  <2>2. \A prio \in Pacer!Priorities \ {"Normal"} : lists'[prio] = lists[prio]
    BY <1>3 DEF Pacer!Priorities, Inv, ListsInv
  <2>3. \A prio \in Pacer!Priorities : \A i \in DOMAIN lists'[prio] : lists'[prio][i] \in Taken
    BY <2>1, <2>2 DEF Inv, ListsInv, t
  <2> QED BY <1>2, <1>3, <2>3 DEF ListsInv
<1>10. TypeInv'
  BY <1>1, <1>2, <1>3 DEF Inv, TypeInv
<1>11. CallInv'
  BY <1>1, <1>2, <1>3 DEF Inv, CallInv
<1>12. WaitingInv'
  <2>1. \A i, j \in DOMAIN t : i < j => t[i] < t[j]
    <3>1. \A i, j \in DOMAIN s : i < j => s[i] < s[j]
      BY DEF Inv, WaitingInv, s
    <3>2. \A i, j \in DOMAIN t : i < j => i \in DOMAIN s
      BY <1>6, <1>7
    <3> QED BY <1>4, <1>5, <1>6, <1>7, <1>8, <3>1, <3>2
  <2>2. \A i \in DOMAIN t : Media(t[i])
    BY <1>1, <1>4, <1>5, <1>8 DEF Inv, WaitingInv
  <2> QED BY <1>1, <1>2, <2>1, <2>2 DEF Inv, WaitingInv, t
<1>13. SentInv'
  <2>1. \A o \in DOMAIN originals : Media(originals[o]) =>
          /\ originals[o] < last
          /\ \A i \in DOMAIN s : originals[o] < s[i]
    BY <1>1, <1>5 DEF Inv, SentInv, s
  <2>2. \A o \in DOMAIN originals : Media(originals[o]) => \A i \in DOMAIN t : originals[o] < t[i]
    BY <1>8, <2>1
  <2> QED BY <1>1, <1>2, <2>2 DEF Inv, SentInv, OriginalsInOrder, t
<1>14. MarkerInv'
  BY <1>1, <1>2 DEF Inv, MarkerInv, PaddingOutsideFrames
<1>15. RequestInv'
  BY <1>1, <1>3 DEF Inv, RequestInv
<1>16. Kept' = Kept
  <2>1. (\A n : enc' # Built(n)) /\ (\A n : enc # Built(n))
    BY <1>1 DEF Built
  <2> QED BY <1>2, <2>1 DEF Kept
<1>17. RingInv'
  BY <1>1, <1>2, <1>16, RingStays
<1>18. LostOnlyWhenBehind'
  <2>1. \A n : Later(n)' = Later(n)
    BY <1>16, AgesStay
  <2>2. \A n : Pacer!In(n, s) => Pacer!In(n, t)
    BY <1>6, <1>7 DEF Pacer!In
  <2>3. Pacer!In(last, t)
    BY <1>6, <1>7 DEF Pacer!In
  <2> QED BY <1>1, <1>2, <1>5, <2>1, <2>2, <2>3 DEF Inv, LostOnlyWhenBehind, s, t
<1> QED BY <1>9, <1>10, <1>11, <1>12, <1>13, <1>14, <1>15, <1>17, <1>18 DEF Inv

\* The process thread turns to something else, with the lists as they are.
LEMMA TurnStep ==
  ASSUME Inv, busy' \in Calls, held' = NoPacket,
         busy'.at = "sending" => lists[busy'.prio] # <<>> /\ Head(lists[busy'.prio]) = busy'.id,
         UNCHANGED <<lists, hist, marker, kinds, enc, nack, now, wireVars>>
  PROVE  Inv'
<1>1. /\ lists' = lists /\ hist' = hist /\ marker' = marker /\ kinds' = kinds /\ enc' = enc
      /\ nack' = nack /\ now' = now /\ originals' = originals /\ granted' = granted
      /\ resent' = resent
  BY DEF wireVars
<1>2. /\ Taken' = Taken /\ (\A n : Media(n)' <=> Media(n))
      /\ Len(kinds) \in Nat /\ Kept' = Kept /\ \A n : Later(n)' = Later(n)
  BY <1>1, SameNumbers
<1>3. ListsInv'
  BY <1>1, <1>2 DEF Inv, ListsInv
<1>4. TypeInv'
  <2>1. NoPacket \in 0 .. Len(kinds)
    BY <1>2 DEF NoPacket
  <2> QED BY <1>1, <1>2, <2>1 DEF Inv, TypeInv
<1>5. CallInv'
  BY <1>1 DEF CallInv
<1>6. WaitingInv' /\ SentInv' /\ MarkerInv' /\ RequestInv'
  BY <1>1, <1>2 DEF Inv, WaitingInv, SentInv, OriginalsInOrder, MarkerInv, PaddingOutsideFrames,
     RequestInv
<1>7. RingInv'
  BY <1>1, <1>2, RingStays
<1>8. LostOnlyWhenBehind'
  BY <1>1, <1>2 DEF Inv, LostOnlyWhenBehind
<1> QED BY <1>3, <1>4, <1>5, <1>6, <1>7, <1>8 DEF Inv

\* No callback is running.
LEMMA IdleCall == Pacer!Idle \in Calls /\ Pacer!Idle.at = "idle"
BY DEF Calls, Pacer!Idle

\* Nothing is in the process thread's hands when it starts.
LEMMA StartSendingStep ==
  ASSUME Inv, StartSending
  PROVE  Inv'
<1>1. busy = Pacer!Idle /\ busy' \in Pacer!Choices(lists) /\ lists' = lists
  BY DEF StartSending, Pacer!Start
<1>2. lists \in [Pacer!Priorities -> Seq(Numbers)] /\ lists["Low"] = <<>>
  BY DEF Inv, ListsInv
<1>3. /\ busy' \in Calls
      /\ busy'.at = "sending" => lists[busy'.prio] # <<>> /\ Head(lists[busy'.prio]) = busy'.id
  BY <1>1, <1>2, ChoicesOf
<1>4. held = NoPacket
  BY <1>1, IdleCall DEF Inv, TypeInv
<1> QED BY <1>1, <1>3, <1>4, TurnStep DEF StartSending

\* The process thread leaves the padding.
LEMMA PaddingDoneStep ==
  ASSUME Inv, PaddingDone
  PROVE  Inv'
BY IdleCall, TurnStep DEF PaddingDone, Pacer!PaddingAnswer

\* Time moves nothing.
LEMMA TickStep ==
  ASSUME Inv, Tick
  PROVE  Inv'
<1>1. /\ lists' = lists /\ busy' = busy /\ hist' = hist /\ marker' = marker /\ kinds' = kinds
      /\ enc' = enc /\ nack' = nack /\ held' = held /\ originals' = originals
      /\ granted' = granted /\ resent' = resent
      /\ now < MaxTime /\ now' = now + 1
  BY DEF Tick, pacerVars, wireVars
<1>2. /\ Taken' = Taken /\ (\A n : Media(n)' <=> Media(n))
      /\ Len(kinds) \in Nat /\ Kept' = Kept /\ \A n : Later(n)' = Later(n)
  BY <1>1, SameNumbers
<1>3. ListsInv' /\ CallInv'
  BY <1>1, <1>2 DEF Inv, ListsInv, CallInv
<1>4. TypeInv'
  <2>1. now' \in StartTime .. MaxTime
    BY <1>1, SendPathAssumption DEF Inv, TypeInv
  <2> QED BY <1>1, <1>2, <2>1 DEF Inv, TypeInv
<1>5. WaitingInv' /\ SentInv' /\ MarkerInv' /\ RequestInv'
  BY <1>1, <1>2 DEF Inv, WaitingInv, SentInv, OriginalsInOrder, MarkerInv, PaddingOutsideFrames,
     RequestInv
<1>6. RingInv'
  BY <1>1, <1>2, RingStays
<1>7. LostOnlyWhenBehind'
  BY <1>1, <1>2 DEF Inv, LostOnlyWhenBehind
<1> QED BY <1>3, <1>4, <1>5, <1>6, <1>7 DEF Inv

\* Only the last packet of a frame, FEC or padding comes before padding.
LEMMA TakePaddingNumberStep ==
  ASSUME Inv, TakePaddingNumber
  PROVE  Inv'
<1>0. PICK last \in Nat \ {0} : last = Len(kinds) + 1
  BY DEF Inv, TypeInv
<1>1. /\ kinds' \in Seq(Kinds) /\ Len(kinds) \in Nat /\ Len(kinds') = last
      /\ last <= MaxPackets
      /\ \A n \in Taken : kinds'[n] = kinds[n]
      /\ kinds'[last] = "padding"
  <2>1. TakeNumber("padding") /\ "padding" \in Kinds
    BY DEF TakePaddingNumber, Kinds
  <2> QED BY <1>0, <2>1, Takes DEF Inv
<1>2. /\ lists' = lists /\ busy' = busy /\ hist' = hist /\ nack' = nack /\ held' = last
      /\ now' = now /\ originals' = originals /\ granted' = granted /\ resent' = resent
      /\ enc' = enc /\ marker' = marker /\ marker /\ busy.at = "padding"
  BY <1>0 DEF TakePaddingNumber, NextNumber, pacerVars, wireVars
<1>3. Taken = 1 .. last - 1 /\ Taken' = 1 .. last /\ Taken \subseteq Taken'
  BY <1>0, <1>1 DEF Taken
<1>4. (\A n \in Taken : Media(n)' <=> Media(n)) /\ ~Media(last)'
  BY <1>1 DEF Media
<1>5. \A n \in Taken' : n = last \/ n \in Taken
  BY <1>3
<1>6. ListsInv'
  BY <1>2, <1>3 DEF Inv, ListsInv
<1>7. TypeInv'
  <2>1. (\A x \in 0 .. Len(kinds) : x \in 0 .. last) /\ last \in 0 .. last
    BY <1>0
  <2>2. enc.n <= last
    BY <1>0 DEF Inv, TypeInv, Places
  <2> QED BY <1>1, <1>2, <1>3, <2>1, <2>2 DEF Inv, TypeInv
<1>8. CallInv'
  BY <1>2, <1>4 DEF Inv, CallInv
<1>9. WaitingInv'
  <2>1. \A i \in DOMAIN lists["Normal"] : lists["Normal"][i] \in Taken
    BY DEF Inv, ListsInv, Pacer!Priorities
  <2>2. enc.at # "ready" => enc.n \in Taken
    BY DEF Inv, TypeInv
  <2> QED BY <1>2, <1>4, <1>5, <2>1, <2>2 DEF Inv, WaitingInv
<1>10. SentInv'
  <2>1. \A o \in DOMAIN originals : originals[o] \in Taken
    BY DEF Inv, TypeInv
  <2> QED BY <1>2, <1>4, <2>1 DEF Inv, SentInv, OriginalsInOrder
<1>11. MarkerInv'
  <2>1. \A n \in Taken' : kinds'[n] = "padding" => n > 1 /\ kinds'[n - 1] # "media"
    <3> SUFFICES ASSUME NEW n \in Taken', kinds'[n] = "padding"
                 PROVE  n > 1 /\ kinds'[n - 1] # "media"
      OBVIOUS
    <3>1. CASE n \in Taken
      <4>1. n > 1 /\ kinds[n - 1] # "media"
        BY <1>1, <3>1 DEF Inv, MarkerInv, PaddingOutsideFrames
      <4>2. n - 1 \in Taken
        BY <1>3, <3>1, <4>1
      <4> QED BY <1>1, <4>1, <4>2
    <3>2. CASE n = last
      <4>1. last - 1 > 0 /\ kinds[last - 1] # "media"
        BY <1>0, <1>2 DEF Inv, MarkerInv, TypeInv
      <4>2. last - 1 \in Taken
        BY <1>3, <4>1
      <4> QED BY <1>1, <3>2, <4>1, <4>2
    <3> QED BY <1>5, <3>1, <3>2
  <2> QED BY <1>1, <2>1 DEF MarkerInv, PaddingOutsideFrames
<1>12. RequestInv'
  BY <1>2 DEF Inv, RequestInv
<1>13. Kept' = Kept
  BY <1>2, <1>3, <1>4, <1>5 DEF Kept, Built
<1>14. RingInv'
  BY <1>0, <1>1, <1>2, <1>13, RingStays
<1>15. LostOnlyWhenBehind'
  <2>1. \A n : Later(n)' = Later(n)
    BY <1>13, AgesStay
  <2> QED BY <1>2, <1>4, <1>5, <2>1 DEF Inv, LostOnlyWhenBehind
<1> QED BY <1>6, <1>7, <1>8, <1>9, <1>10, <1>11, <1>12, <1>14, <1>15 DEF Inv

\* A packet leaves its list; what it became is for the step to say.
LEMMA PoppedStep ==
  ASSUME Inv, busy.at = "sending", Pacer!Answer(TRUE), held' = NoPacket,
         UNCHANGED <<hist, marker, kinds, enc, nack, now>>
  PROVE  /\ ListsInv' /\ CallInv' /\ WaitingInv' /\ MarkerInv' /\ RingInv'
         /\ busy' \in Calls /\ busy.prio \in {"High", "Normal"} /\ busy.id \in Taken
         /\ busy.prio = "Normal" =>
              /\ lists'["High"] = lists["High"]
              /\ \A n : Pacer!In(n, lists["Normal"]) => n = busy.id \/ Pacer!In(n, lists'["Normal"])
              /\ Media(busy.id) /\ (enc.at # "ready" => busy.id < enc.n)
              /\ \A i \in DOMAIN lists'["Normal"] :
                   busy.id < lists'["Normal"][i] /\ Pacer!In(lists'["Normal"][i], lists["Normal"])
         /\ busy.prio = "High" =>
              /\ lists'["Normal"] = lists["Normal"]
              /\ \A i, j \in DOMAIN lists'["High"] : lists'["High"][i] = lists'["High"][j] => i = j
              /\ Pacer!In(busy.id, lists["High"]) /\ ~Pacer!In(busy.id, lists'["High"])
              /\ \A n : Pacer!In(n, lists'["High"]) => Pacer!In(n, lists["High"])
<1> DEFINE s == lists[busy.prio]
           t == lists'[busy.prio]
<1>1. /\ busy.prio \in {"High", "Normal"} /\ busy.id \in Numbers
      /\ lists' \in [Pacer!Priorities -> Seq(Numbers)] /\ lists'["Low"] = <<>>
      /\ \A prio \in Pacer!Priorities : prio # busy.prio => lists'[prio] = lists[prio]
      /\ Len(s) \in Nat \ {0} /\ DOMAIN s = 1 .. Len(s) /\ s[1] = busy.id
      /\ DOMAIN t = 1 .. Len(s) - 1 /\ \A i \in 1 .. Len(s) - 1 : t[i] = s[i + 1]
      /\ busy' \in Calls
      /\ busy'.at = "sending" => lists'[busy'.prio] # <<>> /\ Head(lists'[busy'.prio]) = busy'.id
  BY PopStep
<1>2. /\ Taken' = Taken /\ (\A n : Media(n)' <=> Media(n))
      /\ Len(kinds) \in Nat /\ Kept' = Kept
  BY SameNumbers
<1>3. \A i \in DOMAIN s : s[i] \in Taken
  BY <1>1 DEF Inv, ListsInv, Pacer!Priorities
<1>4. PICK k \in Nat : k + 1 = Len(s)
  BY <1>1
<1>5. /\ DOMAIN s = 1 .. k + 1 /\ DOMAIN t = 1 .. k /\ s[1] = busy.id
      /\ \A i \in 1 .. k : t[i] = s[i + 1]
  BY <1>1, <1>4
<1> HIDE DEF s, t
<1>6. /\ busy.id \in Taken
      /\ \A i \in DOMAIN t : i + 1 \in DOMAIN s /\ t[i] = s[i + 1] /\ 1 < i + 1
      /\ 1 \in DOMAIN s /\ \A i \in DOMAIN s : i # 1 => i - 1 \in DOMAIN t /\ t[i - 1] = s[i]
      /\ \A i \in DOMAIN t : i \in Nat
  BY <1>3, <1>5
<1>7. ListsInv'
  <2>1. \A i \in DOMAIN t : t[i] \in Taken
    BY <1>3, <1>6
  <2>2. \A prio \in Pacer!Priorities : \A i \in DOMAIN lists'[prio] : lists'[prio][i] \in Taken
    BY <1>1, <2>1 DEF Inv, ListsInv, t
  <2> QED BY <1>1, <1>2, <2>2 DEF ListsInv
<1>8. CallInv'
  BY <1>1 DEF CallInv
<1>9. ASSUME busy.prio = "Normal"
      PROVE  /\ lists'["High"] = lists["High"]
             /\ \A i, j \in DOMAIN t : i < j => t[i] < t[j]
             /\ \A i \in DOMAIN t : /\ Media(t[i]) /\ (enc.at # "ready" => t[i] < enc.n)
                                    /\ busy.id < t[i]
             /\ Media(busy.id) /\ (enc.at # "ready" => busy.id < enc.n)
  <2>1. /\ \A i, j \in DOMAIN s : i < j => s[i] < s[j]
        /\ \A i \in DOMAIN s : Media(s[i]) /\ (enc.at # "ready" => s[i] < enc.n)
    BY <1>9 DEF Inv, WaitingInv, s
  <2>2. \A i, j \in DOMAIN t : i < j => i + 1 < j + 1
    BY <1>6
  <2>3. lists'["High"] = lists["High"]
    BY <1>1, <1>9 DEF Pacer!Priorities
  <2> QED BY <1>5, <1>6, <2>1, <2>2, <2>3
<1>10. ASSUME busy.prio = "High"
       PROVE  /\ lists'["Normal"] = lists["Normal"]
              /\ \A i, j \in DOMAIN t : t[i] = t[j] => i = j
              /\ Pacer!In(busy.id, s) /\ ~Pacer!In(busy.id, t)
  <2>1. \A i, j \in DOMAIN s : s[i] = s[j] => i = j
    BY <1>10 DEF Inv, RequestInv, s
  <2>2. \A i, j \in DOMAIN t : i + 1 = j + 1 => i = j
    BY <1>6
  <2>3. \A i, j \in DOMAIN t : t[i] = t[j] => i = j
    BY <1>6, <2>1, <2>2
  <2>4. \A i \in DOMAIN t : i + 1 # 1
    BY <1>6
  <2>5. Pacer!In(busy.id, s) /\ ~Pacer!In(busy.id, t)
    BY <1>5, <1>6, <2>1, <2>4 DEF Pacer!In
  <2> QED BY <1>1, <1>10, <2>3, <2>5 DEF Pacer!Priorities
<1>11. /\ \A n : Pacer!In(n, t) => Pacer!In(n, s)
       /\ \A n : Pacer!In(n, s) => n = busy.id \/ Pacer!In(n, t)
       /\ \A i \in DOMAIN t : Pacer!In(t[i], s)
  BY <1>5, <1>6 DEF Pacer!In
<1>12. WaitingInv'
  BY <1>1, <1>2, <1>9, <1>10 DEF Inv, WaitingInv, t
<1>13. MarkerInv'
  BY <1>2 DEF Inv, MarkerInv, PaddingOutsideFrames
<1>14. RingInv'
  BY <1>2, RingStays
<1>15. busy.prio = "Normal" =>
         /\ lists'["High"] = lists["High"]
         /\ \A n : Pacer!In(n, lists["Normal"]) => n = busy.id \/ Pacer!In(n, lists'["Normal"])
         /\ Media(busy.id) /\ (enc.at # "ready" => busy.id < enc.n)
         /\ \A i \in DOMAIN lists'["Normal"] :
              busy.id < lists'["Normal"][i] /\ Pacer!In(lists'["Normal"][i], lists["Normal"])
  BY <1>9, <1>11 DEF s, t
<1>16. busy.prio = "High" =>
         /\ lists'["Normal"] = lists["Normal"]
         /\ \A i, j \in DOMAIN lists'["High"] : lists'["High"][i] = lists'["High"][j] => i = j
         /\ Pacer!In(busy.id, lists["High"]) /\ ~Pacer!In(busy.id, lists'["High"])
         /\ \A n : Pacer!In(n, lists'["High"]) => Pacer!In(n, lists["High"])
  BY <1>10, <1>11 DEF s, t
<1> QED BY <1>1, <1>6, <1>7, <1>8, <1>12, <1>13, <1>14, <1>15, <1>16

\* A packet of a frame that the history cannot give out was overwritten.
LEMMA LostIsBehind ==
  ASSUME Inv, NEW n \in Kept, ~Fetchable(hist, n, 0, FALSE, now)
  PROVE  Later(n) >= HistSize
<1> SUFFICES ASSUME ~(Later(n) >= HistSize) PROVE FALSE
  OBVIOUS
<1>1. n \in Taken /\ n \in Nat /\ n # 0 /\ IsFiniteSet(Kept)
  <2>1. n \in Taken /\ IsFiniteSet(Kept)
    BY KeptIs DEF Inv
  <2>2. Len(kinds) \in Nat
    BY DEF Inv, TypeInv
  <2> QED BY <2>1, <2>2 DEF Taken
<1>2. Later(n) \in Nat
  <2>1. IsFiniteSet({k \in Kept : k > n})
    BY <1>1, FS_Subset
  <2> QED BY <2>1, FS_CardinalityType DEF Later
<1>3. PICK i \in 0 .. HistSize - 1 : hist.ring[i].seq = n
  <2>1. hist.prev \in 0 .. HistSize - 1
    BY DEF Inv, TypeInv, History
  <2>2. Later(n) < HistSize
    BY <1>2, SendPathAssumption
  <2>3. hist.ring[IndexOf(Later(n))].seq = n
    BY <2>2 DEF Inv, RingInv
  <2>4. \A k \in 0 .. HistSize - 1 : IndexOf(k) \in 0 .. HistSize - 1
    BY <2>1, SendPathAssumption DEF IndexOf
  <2>5. IndexOf(Later(n)) \in 0 .. HistSize - 1
    BY <1>2, <2>2, <2>4, SendPathAssumption
  <2> QED BY <2>3, <2>5
<1>4. hist \in History
  BY DEF Inv, TypeInv
<1>5. /\ FindSeqNum(hist, n) # NotFound
      /\ FindSeqNum(hist, n) \in 0 .. HistSize - 1
      /\ hist.ring[FindSeqNum(hist, n)].seq = n
  BY <1>1, <1>3, <1>4, Finds
<1>6. hist.ring[FindSeqNum(hist, n)].len = 1
  BY <1>1, <1>5 DEF Inv, RingInv
<1>7. hist.store
  BY <1>4 DEF History
<1> QED BY <1>5, <1>6, <1>7 DEF Fetchable

\* The packet is fetched; or it leaves its list since the ring has moved on.
LEMMA TimeToSendPacketStep ==
  ASSUME Inv, TimeToSendPacket
  PROVE  Inv'
<1>1. /\ busy.at = "sending" /\ held = NoPacket
      /\ marker' = marker /\ kinds' = kinds /\ enc' = enc /\ nack' = nack /\ now' = now
      /\ originals' = originals /\ granted' = granted /\ resent' = resent
  BY DEF TimeToSendPacket, wireVars
<1>2. /\ Taken' = Taken /\ (\A n : Media(n)' <=> Media(n))
      /\ Len(kinds) \in Nat /\ Kept' = Kept /\ \A n : Later(n)' = Later(n)
  BY <1>1, SameNumbers
<1>3. /\ busy \in Calls /\ busy.prio \in {"High", "Normal"} /\ busy.id \in Numbers
      /\ lists[busy.prio] # <<>> /\ Head(lists[busy.prio]) = busy.id
      /\ hist \in History /\ now \in Nat
  BY <1>1, CallsOf, SendPathAssumption DEF Inv, TypeInv, CallInv
<1>4. busy.id \in Taken /\ busy.id \in Nat
  <2>1. lists[busy.prio] \in Seq(Numbers) /\ busy.prio \in Pacer!Priorities
    BY <1>3 DEF Inv, ListsInv, Pacer!Priorities
  <2>2. Head(lists[busy.prio]) = lists[busy.prio][1] /\ 1 \in DOMAIN lists[busy.prio]
    BY <1>3, <2>1, WithoutHead
  <2> QED BY <1>3, <2>1, <2>2 DEF Inv, ListsInv, Numbers
<1>5. CASE Fetchable(hist, busy.id, 0, Retransmission, now)
  <2>1. /\ hist' = MarkSent(hist, busy.id, now) /\ held' = busy.id
        /\ lists' = lists /\ busy' = busy
    BY <1>5 DEF TimeToSendPacket, pacerVars
  <2>2. /\ hist' \in History /\ hist'.prev = hist.prev
        /\ \A i \in 0 .. HistSize - 1 : hist'.ring[i].seq = hist.ring[i].seq
                                        /\ hist'.ring[i].len = hist.ring[i].len
    BY <1>3, <1>4, <1>5, <2>1, Marks DEF Fetchable
  <2>3. held' \in 0 .. Len(kinds)
    BY <1>2, <1>4, <2>1 DEF Taken
  <2>4. ListsInv'
    BY <1>2, <2>1 DEF Inv, ListsInv
  <2>5. TypeInv'
    BY <1>1, <1>2, <2>1, <2>2, <2>3 DEF Inv, TypeInv
  <2>6. CallInv'
    BY <1>1, <2>1 DEF Inv, CallInv
  <2>7. WaitingInv' /\ SentInv' /\ MarkerInv' /\ RequestInv'
    BY <1>1, <1>2, <2>1 DEF Inv, WaitingInv, SentInv, OriginalsInOrder, MarkerInv,
       PaddingOutsideFrames, RequestInv
  <2>8. RingInv'
    BY <1>1, <1>2, <2>2, RingStays
  <2>9. LostOnlyWhenBehind'
    BY <1>1, <1>2, <2>1 DEF Inv, LostOnlyWhenBehind
  <2> QED BY <2>4, <2>5, <2>6, <2>7, <2>8, <2>9 DEF Inv
<1>6. CASE ~Fetchable(hist, busy.id, 0, Retransmission, now)
  <2>1. Pacer!Answer(TRUE) /\ hist' = hist /\ held' = NoPacket
    BY <1>1, <1>6 DEF TimeToSendPacket
  <2>2. /\ ListsInv' /\ CallInv' /\ WaitingInv' /\ MarkerInv' /\ RingInv' /\ busy' \in Calls
        /\ busy.prio = "Normal" =>
             /\ lists'["High"] = lists["High"]
             /\ \A n : Pacer!In(n, lists["Normal"]) => n = busy.id \/ Pacer!In(n, lists'["Normal"])
             /\ Media(busy.id) /\ (enc.at # "ready" => busy.id < enc.n)
             /\ \A i \in DOMAIN lists'["Normal"] : Pacer!In(lists'["Normal"][i], lists["Normal"])
        /\ busy.prio = "High" =>
             /\ lists'["Normal"] = lists["Normal"]
             /\ \A i, j \in DOMAIN lists'["High"] : lists'["High"][i] = lists'["High"][j] => i = j
             /\ \A n : Pacer!In(n, lists'["High"]) => Pacer!In(n, lists["High"])
    BY <1>1, <2>1, PoppedStep
  <2>3. TypeInv'
    BY <1>1, <1>2, <2>1, <2>2 DEF Inv, TypeInv, NoPacket
  <2>4. SentInv'
    <3>1. \A i \in DOMAIN lists'["Normal"] : Pacer!In(lists'["Normal"][i], lists["Normal"])
      BY <1>3, <2>2 DEF Pacer!In
    <3> QED BY <1>1, <1>2, <3>1 DEF Inv, SentInv, OriginalsInOrder, Pacer!In
  <2>5. RequestInv'
    <3>1. /\ \A n : Pacer!In(n, lists'["High"]) => Pacer!In(n, lists["High"])
          /\ \A i, j \in DOMAIN lists'["High"] : lists'["High"][i] = lists'["High"][j] => i = j
      BY <1>3, <2>2 DEF Inv, RequestInv
    <3>2. \A n : One(Pacer!In(n, lists'["High"])) \in 0 .. One(Pacer!In(n, lists["High"]))
                 /\ One(Pacer!In(n, lists["High"])) \in Nat
      BY <3>1 DEF One
    <3>3. \A n \in Numbers : /\ resent[n] \in Nat /\ granted[n] \in Nat
                             /\ One(nack = n) \in Nat
                             /\ resent[n] + One(Pacer!In(n, lists["High"])) + One(nack = n)
                                <= granted[n]
      BY DEF Inv, TypeInv, RequestInv, One
    <3>4. \A n \in Numbers :
            resent[n] + One(Pacer!In(n, lists'["High"])) + One(nack = n) <= granted[n]
      BY <3>2, <3>3
    <3> QED BY <1>1, <3>1, <3>4 DEF RequestInv
  <2>6. LostOnlyWhenBehind'
    <3>1. CASE busy.prio = "High"
      BY <1>1, <1>2, <2>2, <3>1 DEF Inv, LostOnlyWhenBehind
    <3>2. CASE busy.prio = "Normal"
      <4>1. Media(busy.id) /\ (enc.at # "ready" => busy.id # enc.n)
        BY <1>4, <2>2, <3>2 DEF Inv, TypeInv, Places
      <4>2. busy.id \in Kept
        BY <1>4, <4>1, KeptIs DEF Inv
      <4>3. Retransmission = FALSE
        BY <3>2 DEF Retransmission
      <4>4. Later(busy.id) >= HistSize
        BY <1>6, <4>2, <4>3, LostIsBehind
      <4> QED BY <1>1, <1>2, <2>2, <3>2, <4>4 DEF Inv, LostOnlyWhenBehind
    <3> QED BY <1>3, <3>1, <3>2
  <2> QED BY <2>2, <2>3, <2>4, <2>5, <2>6 DEF Inv
<1> QED BY <1>5, <1>6

\* The packet sent comes after all that were sent and before all that wait.
LEMMA SentStep ==
  ASSUME Inv, PrepareAndSendPacket(TRUE)
  PROVE  Inv'
<1>1. /\ busy.at = "sending" /\ held # NoPacket /\ Pacer!Answer(TRUE) /\ OnWire
      /\ held' = NoPacket /\ hist' = hist
      /\ marker' = marker /\ kinds' = kinds /\ enc' = enc /\ nack' = nack /\ now' = now
      /\ granted' = granted
  BY DEF PrepareAndSendPacket
<1>2. held = busy.id
  BY <1>1 DEF Inv, CallInv
<1>3. /\ Taken' = Taken /\ (\A n : Media(n)' <=> Media(n)) /\ Taken \subseteq Numbers
      /\ Len(kinds) \in Nat /\ Kept' = Kept /\ \A n : Later(n)' = Later(n)
  BY <1>1, SameNumbers
<1>4. /\ ListsInv' /\ CallInv' /\ WaitingInv' /\ MarkerInv' /\ RingInv'
      /\ busy' \in Calls /\ busy.prio \in {"High", "Normal"} /\ busy.id \in Taken
      /\ busy.prio = "Normal" =>
           /\ lists'["High"] = lists["High"]
           /\ \A n : Pacer!In(n, lists["Normal"]) => n = busy.id \/ Pacer!In(n, lists'["Normal"])
           /\ Media(busy.id) /\ (enc.at # "ready" => busy.id < enc.n)
           /\ \A i \in DOMAIN lists'["Normal"] :
                busy.id < lists'["Normal"][i] /\ Pacer!In(lists'["Normal"][i], lists["Normal"])
      /\ busy.prio = "High" =>
           /\ lists'["Normal"] = lists["Normal"]
           /\ \A i, j \in DOMAIN lists'["High"] : lists'["High"][i] = lists'["High"][j] => i = j
           /\ Pacer!In(busy.id, lists["High"]) /\ ~Pacer!In(busy.id, lists'["High"])
           /\ \A n : Pacer!In(n, lists'["High"]) => Pacer!In(n, lists["High"])
  BY <1>1, PoppedStep
<1>5. PICK n \in Taken : n = busy.id
  BY <1>4
<1>6. originals \in Seq(Numbers) /\ resent \in [Numbers -> Nat] /\ granted \in [Numbers -> Nat]
  BY DEF Inv, TypeInv
<1>7. CASE busy.prio = "High"
  <2>1. originals' = originals /\ resent' = [resent EXCEPT ![n] = @ + 1]
    BY <1>1, <1>2, <1>5, <1>7 DEF OnWire, Retransmission
  <2>2. resent' \in [Numbers -> Nat]
    BY <1>3, <1>5, <1>6, <2>1
  <2>3. TypeInv'
    BY <1>1, <1>3, <1>4, <2>1, <2>2 DEF Inv, TypeInv, NoPacket
  <2>4. SentInv'
    BY <1>1, <1>3, <1>4, <1>7, <2>1 DEF Inv, SentInv, OriginalsInOrder
  <2>5. RequestInv'
    <3>1. /\ \A k : One(Pacer!In(k, lists'["High"])) \in {0, 1}
          /\ \A k : One(Pacer!In(k, lists'["High"])) <= One(Pacer!In(k, lists["High"]))
          /\ One(Pacer!In(n, lists'["High"])) = 0 /\ One(Pacer!In(n, lists["High"])) = 1
          /\ \A k : One(Pacer!In(k, lists["High"])) \in {0, 1}
          /\ \A k : One(nack = k) \in {0, 1}
      BY <1>4, <1>5, <1>7 DEF One
    <3>2. \A k \in Numbers : /\ resent[k] \in Nat /\ granted[k] \in Nat
                             /\ resent[k] + One(Pacer!In(k, lists["High"])) + One(nack = k)
                                <= granted[k]
      BY <1>6 DEF Inv, RequestInv
    <3>3. \A k \in Numbers : resent'[k] = IF k = n THEN resent[k] + 1 ELSE resent[k]
      BY <1>6, <2>1
    <3>4. \A k \in Numbers :
            resent'[k] + One(Pacer!In(k, lists'["High"])) + One(nack = k) <= granted[k]
      BY <3>1, <3>2, <3>3
    <3> QED BY <1>1, <1>4, <1>7, <3>4 DEF RequestInv
  <2>6. LostOnlyWhenBehind'
    BY <1>1, <1>3, <1>4, <1>7, <2>1 DEF Inv, LostOnlyWhenBehind
  <2> QED BY <1>4, <2>3, <2>4, <2>5, <2>6 DEF Inv
<1>8. CASE busy.prio = "Normal"
  <2>1. originals' = Append(originals, n) /\ resent' = resent
    BY <1>1, <1>2, <1>5, <1>8 DEF OnWire, Retransmission
  <2>2. PICK k \in Nat : k = Len(originals)
    BY <1>6
  <2>3. /\ originals' \in Seq(Numbers) /\ DOMAIN originals = 1 .. k
        /\ DOMAIN originals' = 1 .. k + 1 /\ originals'[k + 1] = n
        /\ \A o \in 1 .. k : originals'[o] = originals[o]
    BY <1>3, <1>5, <1>6, <2>1, <2>2, WithLast
  <2>4. \A o \in DOMAIN originals' :
          (o \in DOMAIN originals /\ originals'[o] = originals[o]) \/ (o = k + 1 /\ originals'[o] = n)
    BY <2>3
  <2>5. TypeInv'
    <3>1. \A o \in DOMAIN originals' : originals'[o] \in Taken
      BY <2>4 DEF Inv, TypeInv
    <3> QED BY <1>1, <1>3, <1>4, <2>1, <2>3, <3>1 DEF Inv, TypeInv, NoPacket
  <2>6. \A o \in DOMAIN originals : Media(originals[o]) =>
          /\ originals[o] < n
          /\ \A i \in DOMAIN lists'["Normal"] : originals[o] < lists'["Normal"][i]
          /\ enc.at # "ready" => originals[o] < enc.n
    <3>1. Pacer!In(n, lists["Normal"])
      <4>1. lists["Normal"] \in Seq(Numbers) /\ lists["Normal"] # <<>>
            /\ Head(lists["Normal"]) = n
        BY <1>1, <1>5, <1>8 DEF Inv, ListsInv, CallInv, Pacer!Priorities
      <4>2. lists["Normal"][1] = n /\ 1 \in DOMAIN lists["Normal"]
        BY <4>1, WithoutHead
      <4> QED BY <4>2 DEF Pacer!In
    <3> QED BY <1>4, <1>8, <3>1 DEF Inv, SentInv, Pacer!In
  <2>7. SentInv'
    <3>1. \A o \in DOMAIN originals' : Media(originals'[o]) =>
            /\ \A i \in DOMAIN lists'["Normal"] : originals'[o] < lists'["Normal"][i]
            /\ enc.at # "ready" => originals'[o] < enc.n
      BY <1>4, <1>5, <1>8, <2>4, <2>6
    <3>2. \A i, j \in DOMAIN originals' :
            i < j /\ Media(originals'[i]) /\ Media(originals'[j]) => originals'[i] < originals'[j]
      <4>1. \A i, j \in DOMAIN originals :
              i < j /\ Media(originals[i]) /\ Media(originals[j]) => originals[i] < originals[j]
        BY DEF Inv, SentInv, OriginalsInOrder
      <4> SUFFICES ASSUME NEW i \in DOMAIN originals', NEW j \in DOMAIN originals', i < j,
                          Media(originals'[i]), Media(originals'[j])
                   PROVE  originals'[i] < originals'[j]
        OBVIOUS
      <4>2. i \in DOMAIN originals /\ originals'[i] = originals[i]
        BY <2>3
      <4>3. CASE j \in DOMAIN originals
        BY <2>3, <4>1, <4>2, <4>3
      <4>4. CASE j = k + 1
        BY <2>3, <2>6, <4>2, <4>4
      <4> QED BY <2>4, <4>3, <4>4
    <3> QED BY <1>1, <1>3, <3>1, <3>2 DEF SentInv, OriginalsInOrder
  <2>8. RequestInv'
    BY <1>1, <1>4, <1>8, <2>1 DEF Inv, RequestInv
  <2>9. LostOnlyWhenBehind'
    <3>1. \A m : (\E o \in DOMAIN originals : originals[o] = m)
                 => \E o \in DOMAIN originals' : originals'[o] = m
      BY <2>3
    <3>2. \E o \in DOMAIN originals' : originals'[o] = n
      BY <2>3
    <3> QED BY <1>1, <1>3, <1>4, <1>5, <1>8, <3>1, <3>2 DEF Inv, LostOnlyWhenBehind
  <2> QED BY <1>4, <2>5, <2>7, <2>8, <2>9 DEF Inv
<1> QED BY <1>4, <1>7, <1>8

\* The transport takes the packet, or it stays at the head of its list.
LEMMA PrepareAndSendPacketStep ==
  ASSUME Inv, NEW ok \in BOOLEAN, PrepareAndSendPacket(ok)
  PROVE  Inv'
<1>1. CASE ok = TRUE
  BY <1>1, SentStep
<1>2. CASE ok = FALSE
  <2>1. Pacer!Answer(FALSE) /\ held' = NoPacket /\ originals' = originals /\ resent' = resent
    BY <1>2 DEF PrepareAndSendPacket
  <2>2. busy' = Pacer!Idle /\ lists' = lists
    BY <2>1 DEF Pacer!Answer
  <2>3. UNCHANGED <<lists, hist, marker, kinds, enc, nack, now, wireVars>>
    BY <2>1, <2>2 DEF PrepareAndSendPacket, wireVars
  <2> QED BY <2>1, <2>2, <2>3, IdleCall, TurnStep
<1> QED BY <1>1, <1>2

\* Padding on the wire is out of the order of the media packets.
LEMMA SendPaddingStep ==
  ASSUME Inv, NEW ok \in BOOLEAN, SendPadding(ok)
  PROVE  Inv'
<1>1. CASE ok = FALSE
  <2>1. busy' = Pacer!Idle /\ lists' = lists /\ originals' = originals /\ held' = NoPacket
    BY <1>1 DEF SendPadding, Pacer!PaddingAnswer
  <2>2. UNCHANGED <<lists, hist, marker, kinds, enc, nack, now, wireVars>>
    BY <2>1 DEF SendPadding, wireVars
  <2> QED BY <2>1, <2>2, IdleCall, TurnStep
<1>2. CASE ok = TRUE
  <2>1. /\ busy.at = "padding" /\ held # NoPacket
        /\ originals' = Append(originals, held) /\ lists' = lists /\ busy' = busy
        /\ held' = NoPacket /\ hist' = hist /\ marker' = marker /\ kinds' = kinds /\ enc' = enc
        /\ nack' = nack /\ now' = now /\ granted' = granted /\ resent' = resent
    BY <1>2 DEF SendPadding, pacerVars
  <2>2. /\ Taken' = Taken /\ (\A n : Media(n)' <=> Media(n)) /\ Taken \subseteq Numbers
        /\ Len(kinds) \in Nat /\ Kept' = Kept /\ \A n : Later(n)' = Later(n)
    BY <2>1, SameNumbers
  <2>3. held \in Taken /\ ~Media(held)
    BY <2>1, <2>2 DEF Inv, TypeInv, CallInv, NoPacket, Taken
  <2>4. PICK n \in Taken : n = held
    BY <2>3
  <2>5. originals \in Seq(Numbers)
    BY DEF Inv, TypeInv
  <2>6. PICK k \in Nat : k = Len(originals)
    BY <2>5
  <2>7. /\ originals' \in Seq(Numbers) /\ DOMAIN originals = 1 .. k
        /\ DOMAIN originals' = 1 .. k + 1 /\ originals'[k + 1] = n
        /\ \A o \in 1 .. k : originals'[o] = originals[o]
    BY <2>1, <2>2, <2>4, <2>5, <2>6, WithLast
  <2>8. /\ \A o \in DOMAIN originals' :
            (o \in DOMAIN originals /\ originals'[o] = originals[o])
            \/ (o = k + 1 /\ originals'[o] = n)
        /\ \A o \in DOMAIN originals : o \in DOMAIN originals' /\ originals'[o] = originals[o]
    BY <2>7
  <2>9. ListsInv' /\ CallInv'
    BY <2>1, <2>2 DEF Inv, ListsInv, CallInv
  <2>10. TypeInv'
    <3>1. \A o \in DOMAIN originals' : originals'[o] \in Taken
      BY <2>8 DEF Inv, TypeInv
    <3> QED BY <2>1, <2>2, <2>7, <3>1 DEF Inv, TypeInv, NoPacket
  <2>11. SentInv'
    <3>1. \A o \in DOMAIN originals' :
            Media(originals'[o]) => o \in DOMAIN originals /\ originals'[o] = originals[o]
      BY <2>3, <2>4, <2>8
    <3> QED BY <2>1, <2>2, <3>1 DEF Inv, SentInv, OriginalsInOrder
  <2>12. WaitingInv' /\ MarkerInv' /\ RequestInv'
    BY <2>1, <2>2 DEF Inv, WaitingInv, MarkerInv, PaddingOutsideFrames, RequestInv
  <2>13. RingInv'
    BY <2>1, <2>2, RingStays
  <2>14. LostOnlyWhenBehind'
    <3>1. \A m : (\E o \in DOMAIN originals : originals[o] = m)
                 => \E o \in DOMAIN originals' : originals'[o] = m
      BY <2>8
    <3> QED BY <2>1, <2>2, <3>1 DEF Inv, LostOnlyWhenBehind
  <2> QED BY <2>9, <2>10, <2>11, <2>12, <2>13, <2>14 DEF Inv
<1> QED BY <1>1, <1>2

\* A request is granted for a packet in the ring only, so for one taken.
LEMMA ReSendPacketStep ==
  ASSUME Inv, NEW n \in Numbers, ReSendPacket(n)
  PROVE  Inv'
<1>1. /\ nack = NoPacket /\ Fetchable(hist, n, MinResend, TRUE, now)
      /\ hist' = MarkSent(hist, n, now) /\ nack' = n /\ granted' = [granted EXCEPT ![n] = @ + 1]
      /\ lists' = lists /\ busy' = busy /\ marker' = marker /\ kinds' = kinds /\ enc' = enc
      /\ held' = held /\ now' = now /\ originals' = originals /\ resent' = resent
  BY DEF ReSendPacket, pacerVars
<1>2. /\ Taken' = Taken /\ (\A m : Media(m)' <=> Media(m)) /\ Taken \subseteq Numbers
      /\ Len(kinds) \in Nat /\ Kept' = Kept /\ \A m : Later(m)' = Later(m)
  BY <1>1, SameNumbers
<1>3. hist \in History /\ now \in Nat /\ n \in Nat \ {0}
  BY SendPathAssumption DEF Inv, TypeInv, Numbers
<1>4. /\ FindSeqNum(hist, n) # NotFound
      /\ FindSeqNum(hist, n) \in 0 .. HistSize - 1
      /\ hist.ring[FindSeqNum(hist, n)].seq = n
  BY <1>1, <1>3, Finds DEF Fetchable
<1>5. n \in 0 .. Len(kinds)
  BY <1>4 DEF Inv, RingInv
<1>6. /\ hist' \in History /\ hist'.prev = hist.prev
      /\ \A i \in 0 .. HistSize - 1 : hist'.ring[i].seq = hist.ring[i].seq
                                      /\ hist'.ring[i].len = hist.ring[i].len
  BY <1>1, <1>3, <1>4, Marks
<1>7. granted \in [Numbers -> Nat] /\ resent \in [Numbers -> Nat]
  BY DEF Inv, TypeInv
<1>8. ListsInv' /\ CallInv'
  BY <1>1, <1>2 DEF Inv, ListsInv, CallInv
<1>9. TypeInv'
  <2>1. granted' \in [Numbers -> Nat]
    BY <1>1, <1>7
  <2> QED BY <1>1, <1>2, <1>5, <1>6, <2>1 DEF Inv, TypeInv
<1>10. WaitingInv' /\ SentInv' /\ MarkerInv'
  BY <1>1, <1>2 DEF Inv, WaitingInv, SentInv, OriginalsInOrder, MarkerInv, PaddingOutsideFrames
<1>11. RequestInv'
  <2>1. \A m \in Numbers :
          /\ granted'[m] = IF m = n THEN granted[m] + 1 ELSE granted[m]
          /\ granted[m] \in Nat /\ resent[m] \in Nat
    BY <1>1, <1>7
  <2>2. \A m \in Numbers : /\ One(nack = m) = 0
                           /\ One(n = m) = IF m = n THEN 1 ELSE 0
                           /\ One(Pacer!In(m, lists["High"])) \in {0, 1}
    BY <1>1 DEF One, NoPacket, Numbers
  <2>3. \A m \in Numbers :
          resent[m] + One(Pacer!In(m, lists["High"])) + One(nack = m) <= granted[m]
    BY DEF Inv, RequestInv
  <2>4. \A m \in Numbers :
          resent[m] + One(Pacer!In(m, lists["High"])) + One(n = m) <= granted'[m]
    BY <2>1, <2>2, <2>3
  <2> QED BY <1>1, <2>4 DEF Inv, RequestInv
<1>12. RingInv'
  BY <1>1, <1>2, <1>6, RingStays
<1>13. LostOnlyWhenBehind'
  BY <1>1, <1>2 DEF Inv, LostOnlyWhenBehind
<1> QED BY <1>8, <1>9, <1>10, <1>11, <1>12, <1>13 DEF Inv

\* The request moves from the RTCP thread to the list, or is one with that there.
LEMMA QueueRetransmissionStep ==
  ASSUME Inv, QueueRetransmission
  PROVE  Inv'
<1> DEFINE s == lists["High"]
           t == lists'["High"]
<1>1. /\ nack # NoPacket /\ Pacer!Accept("High", nack) /\ nack' = NoPacket
      /\ hist' = hist /\ marker' = marker /\ kinds' = kinds /\ enc' = enc /\ held' = held
      /\ now' = now /\ originals' = originals /\ granted' = granted /\ resent' = resent
  BY DEF QueueRetransmission, wireVars
<1>2. /\ Taken' = Taken /\ (\A n : Media(n)' <=> Media(n)) /\ Taken \subseteq Numbers
      /\ Len(kinds) \in Nat /\ Kept' = Kept /\ \A n : Later(n)' = Later(n)
  BY <1>1, SameNumbers
<1>3. nack \in Taken
  BY <1>1, <1>2 DEF Inv, TypeInv, NoPacket, Taken
<1>4. PICK n \in Taken : n = nack
  BY <1>3
<1>5. /\ lists' \in [Pacer!Priorities -> Seq(Numbers)] /\ lists'["Low"] = <<>>
      /\ busy' = busy
      /\ lists'["Normal"] = lists["Normal"]
      /\ Len(s) \in Nat /\ DOMAIN s = 1 .. Len(s)
      /\ \/ Pacer!In(n, s) /\ t = s
         \/ /\ ~Pacer!In(n, s) /\ DOMAIN t = 1 .. Len(s) + 1
            /\ \A i \in 1 .. Len(s) : t[i] = s[i]
            /\ t[Len(s) + 1] = n
      /\ busy.at = "sending" => lists'[busy.prio] # <<>> /\ Head(lists'[busy.prio]) = busy.id
  BY <1>1, <1>2, <1>4, AcceptStep DEF Pacer!Priorities
<1>6. PICK k \in Nat : k = Len(s)
  BY <1>5
<1> HIDE DEF s, t
<1>7. \A i \in DOMAIN t : (i \in DOMAIN s /\ t[i] = s[i])
                          \/ (i = k + 1 /\ t[i] = n /\ ~Pacer!In(n, s))
  BY <1>5, <1>6
<1>8. ListsInv'
  <2>1. \A i \in DOMAIN s : s[i] \in Taken
    BY DEF Inv, ListsInv, Pacer!Priorities, s
  <2>2. \A i \in DOMAIN t : t[i] \in Taken
    BY <1>7, <2>1
  <2>3. \A prio \in Pacer!Priorities : \A i \in DOMAIN lists'[prio] : lists'[prio][i] \in Taken
    BY <1>5, <2>2 DEF Inv, ListsInv, Pacer!Priorities, t
  <2> QED BY <1>2, <1>5, <2>3 DEF ListsInv
<1>9. TypeInv'
  BY <1>1, <1>2, <1>5 DEF Inv, TypeInv, NoPacket
<1>10. CallInv'
  BY <1>1, <1>2, <1>5 DEF Inv, CallInv
<1>11. WaitingInv' /\ SentInv' /\ MarkerInv'
  BY <1>1, <1>2, <1>5 DEF Inv, WaitingInv, SentInv, OriginalsInOrder, MarkerInv,
     PaddingOutsideFrames
<1>12. RequestInv'
  <2>1. \A i, j \in DOMAIN t : t[i] = t[j] => i = j
    <3>1. \A i, j \in DOMAIN s : s[i] = s[j] => i = j
      BY DEF Inv, RequestInv, s
    <3>2. ~Pacer!In(n, s) => \A i \in DOMAIN s : s[i] # n
      BY DEF Pacer!In
    <3> QED BY <1>7, <3>1, <3>2
  <2>2. \A m : Pacer!In(m, t) => Pacer!In(m, s) \/ m = n
    BY <1>7 DEF Pacer!In
  <2>3. \A m \in Numbers : /\ One(Pacer!In(m, t)) \in {0, 1} /\ One(Pacer!In(m, s)) \in {0, 1}
                           /\ One(nack = m) \in {0, 1} /\ One(NoPacket = m) = 0
                           /\ (m = n => One(nack = m) = 1)
                           /\ (m # n => One(Pacer!In(m, t)) <= One(Pacer!In(m, s)))
    BY <1>4, <2>2 DEF One, NoPacket, Numbers
  <2>4. \A m \in Numbers : /\ resent[m] \in Nat /\ granted[m] \in Nat
                           /\ resent[m] + One(Pacer!In(m, s)) + One(nack = m) <= granted[m]
    BY DEF Inv, TypeInv, RequestInv, s
  <2>5. \A m \in Numbers :
          resent[m] + One(Pacer!In(m, t)) + One(NoPacket = m) <= granted[m]
    BY <2>3, <2>4
  <2> QED BY <1>1, <2>1, <2>5 DEF RequestInv, t
<1>13. RingInv'
  BY <1>1, <1>2, RingStays
<1>14. LostOnlyWhenBehind'
  BY <1>1, <1>2, <1>5 DEF Inv, LostOnlyWhenBehind
<1> QED BY <1>8, <1>9, <1>10, <1>11, <1>12, <1>13, <1>14 DEF Inv

(***************************************************************************)
(* The invariant                                                            *)
(***************************************************************************)
LEMMA InvInit == Init => Inv
<1> SUFFICES ASSUME Init PROVE Inv
  OBVIOUS
<1>1. /\ lists = Pacer!Empty /\ busy = Pacer!Idle /\ hist = Allocate(HistSize)
      /\ marker = FALSE /\ kinds = <<>> /\ enc = Ready(0) /\ nack = 0 /\ held = 0
      /\ now = StartTime /\ originals = <<>>
      /\ granted = [n \in Numbers |-> 0] /\ resent = [n \in Numbers |-> 0]
  BY DEF Init, Pacer!Init, NoPacket
<1>2. /\ lists \in [Pacer!Priorities -> Seq(Numbers)]
      /\ \A prio \in Pacer!Priorities : lists[prio] = <<>> /\ DOMAIN lists[prio] = {}
      /\ lists["Low"] = <<>> /\ DOMAIN lists["Normal"] = {} /\ DOMAIN lists["High"] = {}
  BY <1>1 DEF Pacer!Empty, Pacer!Priorities
<1>3. /\ kinds \in Seq(Kinds) /\ Len(kinds) = 0 /\ Taken = {}
      /\ originals \in Seq(Numbers) /\ DOMAIN originals = {}
  BY <1>1 DEF Taken
<1>4. enc \in Places /\ enc.at = "ready" /\ enc.n = 0
  BY <1>1 DEF Ready, Places
<1>5. /\ hist \in History
      /\ \A i \in 0 .. HistSize - 1 : hist.ring[i].seq = 0
  <2>1. EmptySlot \in Slot /\ EmptySlot.seq = 0
    BY SeqSpaceAssumption DEF EmptySlot, Slot, SeqNums, NoPacket, StorageTypes
  <2>2. [i \in 0 .. HistSize - 1 |-> EmptySlot] \in [0 .. HistSize - 1 -> Slot]
    BY <2>1
  <2>3. 0 \in 0 .. HistSize - 1 /\ 0 \in Nat
    BY SendPathAssumption
  <2> HIDE DEF EmptySlot
  <2> QED BY <1>1, <2>1, <2>2, <2>3 DEF Allocate, History
<1>6. ListsInv
  BY <1>2 DEF ListsInv
<1>7. TypeInv
  <2>1. busy \in Calls /\ now \in StartTime .. MaxTime
    BY <1>1, IdleCall, SendPathAssumption
  <2>2. granted \in [Numbers -> Nat] /\ resent \in [Numbers -> Nat] /\ marker \in BOOLEAN
    BY <1>1
  <2>3. /\ nack \in 0 .. Len(kinds) /\ held \in 0 .. Len(kinds) /\ held = NoPacket
        /\ Len(kinds) <= MaxPackets /\ enc.n <= Len(kinds)
    BY <1>1, <1>3, <1>4, SendPathAssumption DEF NoPacket
  <2> QED BY <1>3, <1>4, <1>5, <2>1, <2>2, <2>3 DEF TypeInv
<1>8. CallInv
  BY <1>1, IdleCall DEF CallInv
<1>9. WaitingInv /\ SentInv
  BY <1>2, <1>3, <1>4 DEF WaitingInv, SentInv, OriginalsInOrder
<1>10. MarkerInv
  BY <1>1, <1>3 DEF MarkerInv, PaddingOutsideFrames
<1>11. RequestInv
  <2>1. \A n \in Numbers : One(Pacer!In(n, lists["High"])) = 0 /\ One(nack = n) = 0
    BY <1>1, <1>2 DEF One, Pacer!In, Numbers
  <2>2. \A n \in Numbers : resent[n] = 0 /\ granted[n] = 0
    BY <1>1
  <2>3. \A n \in Numbers :
          resent[n] + One(Pacer!In(n, lists["High"])) + One(nack = n) <= granted[n]
    BY <2>1, <2>2
  <2> QED BY <1>2, <2>3 DEF RequestInv
<1>12. RingInv /\ LostOnlyWhenBehind
  <2>1. Kept = {}
    BY <1>3 DEF Kept
  <2> QED BY <1>3, <1>5, <2>1 DEF RingInv, LostOnlyWhenBehind
<1> QED BY <1>6, <1>7, <1>8, <1>9, <1>10, <1>11, <1>12 DEF Inv

\* One lemma for each kind of step.
LEMMA InvNext == Inv /\ [Next]_vars => Inv'
<1> SUFFICES ASSUME Inv, [Next]_vars PROVE Inv'
  OBVIOUS
<1>1. ASSUME NEW last \in BOOLEAN, BuildRTPheader(last) PROVE Inv'
  <2> DEFINE kind == IF last THEN "last" ELSE "media"
  <2>1. kind \in Kinds \ {"padding"} /\ (kind # "media" \/ ~last)
    BY DEF Kinds
  <2>2. /\ enc.at = "ready" /\ TakeNumber(kind) /\ marker' = last /\ enc' = Built(NextNumber)
        /\ UNCHANGED <<pacerVars, hist, nack, held, now, wireVars>>
    BY <1>1 DEF BuildRTPheader
  <2> HIDE DEF kind
  <2> QED BY <2>1, <2>2, BuildStep
<1>2. ASSUME BuildFec PROVE Inv'
  <2>1. "fec" \in Kinds \ {"padding"} /\ "fec" # "media"
    BY DEF Kinds
  <2>2. /\ enc.at = "ready" /\ TakeNumber("fec") /\ marker' = marker /\ enc' = Built(NextNumber)
        /\ UNCHANGED <<pacerVars, hist, nack, held, now, wireVars>>
    BY <1>2 DEF BuildFec
  <2>3. marker \in BOOLEAN
    BY DEF Inv, TypeInv
  <2> QED BY <2>1, <2>2, <2>3, BuildStep
<1>3. CASE UNCHANGED vars
  <2>1. /\ lists' = lists /\ busy' = busy /\ hist' = hist /\ marker' = marker /\ kinds' = kinds
        /\ enc' = enc /\ nack' = nack /\ held' = held /\ now' = now
        /\ originals' = originals /\ granted' = granted /\ resent' = resent
    BY <1>3 DEF vars
  <2>2. /\ Taken' = Taken /\ (\A n : Media(n)' <=> Media(n))
        /\ Len(kinds) \in Nat /\ Kept' = Kept /\ \A n : Later(n)' = Later(n)
    BY <2>1, SameNumbers
  <2>3. ListsInv' /\ CallInv' /\ TypeInv'
    BY <2>1, <2>2 DEF Inv, ListsInv, CallInv, TypeInv
  <2>4. WaitingInv' /\ SentInv' /\ MarkerInv' /\ RequestInv'
    BY <2>1, <2>2 DEF Inv, WaitingInv, SentInv, OriginalsInOrder, MarkerInv,
       PaddingOutsideFrames, RequestInv
  <2>5. RingInv'
    BY <2>1, <2>2, RingStays
  <2>6. LostOnlyWhenBehind'
    BY <2>1, <2>2 DEF Inv, LostOnlyWhenBehind
  <2> QED BY <2>3, <2>4, <2>5, <2>6 DEF Inv
<1>4. CASE Encoder
  BY <1>1, <1>2, <1>4, StoreStep, SendPacketStep DEF Encoder
<1>5. CASE ProcessThread
  BY <1>5, StartSendingStep, TimeToSendPacketStep, PrepareAndSendPacketStep,
     TakePaddingNumberStep, SendPaddingStep, PaddingDoneStep DEF ProcessThread
<1>6. CASE Rtcp
  BY <1>6, ReSendPacketStep, QueueRetransmissionStep DEF Rtcp
<1>7. CASE Tick
  BY <1>7, TickStep
<1> QED BY <1>3, <1>4, <1>5, <1>6, <1>7 DEF Next

\* The invariant holds of every run.
LEMMA InvAlways == Spec => []Inv
<1> QED BY InvInit, InvNext, PTL DEF Spec

(* Types; the buffer of the process thread is in use only in a callback,    *)
(* and the history keeps its size.                                          *)
THEOREM TypeCorrect == Spec => []TypeOK
<1>1. Inv => TypeOK
  <2> SUFFICES ASSUME Inv PROVE TypeOK
    OBVIOUS
  <2>1. originals \in Seq(1 .. Len(kinds))
    <3>1. originals \in Seq(Numbers) /\ \A o \in DOMAIN originals : originals[o] \in Taken
      BY DEF Inv, TypeInv
    <3> QED BY <3>1 DEF Taken
  <2>2. /\ busy.at \in {"idle", "sending", "padding"}
        /\ hist.store /\ hist.size = HistSize /\ hist.prev \in 0 .. HistSize - 1
        /\ hist.ring \in [0 .. HistSize - 1 -> Slot]
    <3>1. busy \in Calls /\ hist \in History
      BY DEF Inv, TypeInv
    <3> QED BY <3>1, CallsOf DEF History
  <2>3. enc.at \in {"ready", "built", "stored"} /\ enc.n \in 0 .. Len(kinds)
    BY DEF Inv, TypeInv, Places
  <2> QED BY <2>1, <2>2, <2>3 DEF Inv, TypeInv, ListsInv, TypeOK
<1> QED BY <1>1, InvAlways, PTL

(* Padding never splits the numbers of one frame: SendPadData reads the     *)
(* marker and takes the number in one critical section, and BuildRTPheader  *)
(* writes the marker in the one in which it takes its number.               *)
THEOREM PaddingBetweenFrames == Spec => []PaddingOutsideFrames
<1>1. Inv => PaddingOutsideFrames
  BY DEF Inv, MarkerInv
<1> QED BY <1>1, InvAlways, PTL

(* Media and FEC packets leave for the first time in the order of their     *)
(* numbers and once: what was sent comes before what waits in the list of   *)
(* the pacer, which is in order, and that before what the encoder builds.   *)
THEOREM SendsInOrder == Spec => []OriginalsInOrder
<1>1. Inv => OriginalsInOrder
  BY DEF Inv, SentInv
<1> QED BY <1>1, InvAlways, PTL

(* A packet handed to the pacer waits, was sent, or was overwritten in the  *)
(* history by as many later packets as that stores: when TimeToSendPacket   *)
(* does not find a packet of a frame, the ring has moved on past it.        *)
THEOREM LosesOnlyBehind == Spec => []LostOnlyWhenBehind
<1>1. Inv => LostOnlyWhenBehind
  BY DEF Inv
<1> QED BY <1>1, InvAlways, PTL

(* No more retransmissions of a packet than requests granted: each one that *)
(* was granted is with the RTCP thread, in the pacer's list, which merges   *)
(* it with one that waits there, or sent.                                   *)
THEOREM ResendsOnRequest == Spec => []ResentOnRequest
<1>1. Inv => ResentOnRequest
  <2> SUFFICES ASSUME Inv, NEW n \in Numbers PROVE resent[n] <= granted[n]
    BY DEF ResentOnRequest
  <2>1. resent[n] \in Nat /\ granted[n] \in Nat
    BY DEF Inv, TypeInv
  <2>2. One(Pacer!In(n, lists["High"])) \in {0, 1} /\ One(nack = n) \in {0, 1}
    BY DEF One
  <2>3. resent[n] + One(Pacer!In(n, lists["High"])) + One(nack = n) <= granted[n]
    BY DEF Inv, RequestInv
  <2> QED BY <2>1, <2>2, <2>3
<1> QED BY <1>1, InvAlways, PTL
=============================================================================
