------------------------------ MODULE H264Proofs ------------------------------
(***************************************************************************)
(* The two halves of h264_impl.cc, for any bounds.                          *)
(*                                                                          *)
(* For any delay of x264 and number of pictures: no picture is lost, and    *)
(* the fragments of each go out once.  A picture is in one place at a time: *)
(* in x264, in the images that went out with fragments, or not taken yet.   *)
(*                                                                          *)
(* For any number of inputs, ring length and number of timestamps: the      *)
(* start-up buffer is used once, a picture goes out with the times of the   *)
(* call that gave it, and is dropped only when timestamps wrapped.  The map and the  *)
(* ring of infos move together: entry k of the map leads to the info of the *)
(* input that came Used - k inputs ago.                                     *)
(***************************************************************************)
EXTENDS H264EncoderProps, H264DecoderProps, WellFoundedInduction, SequenceTheorems, TLAPS

(***************************************************************************)
(* The encoder: facts about sequences                                       *)
(***************************************************************************)
(* Without its element at i.                                                *)
LEMMA TakeOut ==
  ASSUME NEW S, NEW s \in Seq(S), NEW i \in DOMAIN s
  PROVE  LET u == SubSeq(s, 1, i - 1) \o SubSeq(s, i + 1, Len(s))
         IN  /\ u \in Seq(S)
             /\ Len(u) = Len(s) - 1
             /\ DOMAIN u = 1 .. Len(s) - 1
             /\ \A j \in 1 .. Len(s) - 1 : u[j] = IF j < i THEN s[j] ELSE s[j + 1]
<1> DEFINE l == SubSeq(s, 1, i - 1)
           r == SubSeq(s, i + 1, Len(s))
<1>1. i \in 1 .. Len(s) /\ Len(s) \in Nat
  OBVIOUS
<1>2. /\ l \in Seq(S) /\ Len(l) = i - 1
      /\ \A j \in 1 .. i - 1 : l[j] = s[j]
  <2>1. \A j \in 1 .. i - 1 : s[j] \in S
    BY <1>1
  <2> QED BY <1>1, <2>1
<1>3. /\ r \in Seq(S) /\ Len(r) = Len(s) - i
      /\ \A j \in 1 .. Len(s) - i : r[j] = s[i + j]
  <2>1. \A j \in i + 1 .. Len(s) : s[j] \in S
    BY <1>1
  <2> QED BY <1>1, <2>1
<1> HIDE DEF l, r
<1>4. /\ l \o r \in Seq(S) /\ Len(l \o r) = Len(s) - 1
      /\ \A j \in 1 .. Len(s) - 1 : (l \o r)[j] = IF j < i THEN s[j] ELSE s[j + 1]
  BY <1>1, <1>2, <1>3, ConcatProperties
<1>5. DOMAIN (l \o r) = 1 .. Len(s) - 1
  BY <1>4
<1> QED BY <1>4, <1>5, Zenon DEF l, r

Numbers == 1 .. MaxPictures
Image == [bytes : Bytes, stamp : Numbers, parts : BOOLEAN]
Handle == [open : BOOLEAN, pending : Seq(Numbers)]

(* x264 holds pictures that were taken, each once, and none of those that   *)
(* went out with fragments.                                                 *)
OnePlace ==
  /\ x264 \in Handle
  /\ \A i \in DOMAIN x264.pending : x264.pending[i] < picture
  /\ \A i, j \in DOMAIN x264.pending : x264.pending[i] = x264.pending[j] => i = j
  /\ \A i \in DOMAIN out :
       out[i].parts => out[i].bytes \in 1 .. picture - 1 /\ out[i].bytes \notin Pending

EncoderInv == EncoderTypeOK /\ OnePlace /\ NoPictureLost /\ FragmentsOnce

(* A list of different pictures, and the list without one of them.          *)
LEMMA WithoutOne ==
  ASSUME NEW S, NEW s \in Seq(S), NEW i \in DOMAIN s,
         \A j, k \in DOMAIN s : s[j] = s[k] => j = k
  PROVE  LET w == Without(s, i)
         IN  /\ w \in Seq(S) /\ Len(w) = Len(s) - 1
             /\ \A j, k \in DOMAIN w : w[j] = w[k] => j = k
             /\ \A j \in DOMAIN w : w[j] # s[i] /\ \E k \in DOMAIN s : w[j] = s[k]
             /\ \A k \in DOMAIN s : k # i => \E j \in DOMAIN w : w[j] = s[k]
<1> DEFINE w == Without(s, i)
<1> SUFFICES /\ w \in Seq(S) /\ Len(w) = Len(s) - 1
             /\ \A j, k \in DOMAIN w : w[j] = w[k] => j = k
             /\ \A j \in DOMAIN w : w[j] # s[i] /\ \E k \in DOMAIN s : w[j] = s[k]
             /\ \A k \in DOMAIN s : k # i => \E j \in DOMAIN w : w[j] = s[k]
  OBVIOUS
<1>1. /\ w \in Seq(S) /\ Len(w) = Len(s) - 1 /\ DOMAIN w = 1 .. Len(s) - 1
      /\ \A j \in 1 .. Len(s) - 1 : w[j] = IF j < i THEN s[j] ELSE s[j + 1]
  BY TakeOut DEF Without
<1>2. DOMAIN s = 1 .. Len(s) /\ i \in 1 .. Len(s) /\ Len(s) \in Nat
  OBVIOUS
<1> HIDE DEF w
<1> DEFINE from(j) == IF j < i THEN j ELSE j + 1
           to(k) == IF k < i THEN k ELSE k - 1
<1>3. \A j \in DOMAIN w : from(j) \in DOMAIN s /\ from(j) # i /\ w[j] = s[from(j)]
  BY <1>1, <1>2
<1>4. \A j, k \in DOMAIN w : from(j) = from(k) => j = k
  BY <1>1, <1>2
<1>5. \A k \in DOMAIN s : k # i => to(k) \in DOMAIN w /\ w[to(k)] = s[k]
  BY <1>1, <1>2
<1> HIDE DEF from, to
<1> QED BY <1>1, <1>3, <1>4, <1>5

LEMMA EncoderInitInv == EncoderInit => EncoderInv
<1> SUFFICES ASSUME EncoderInit PROVE EncoderInv
  OBVIOUS
<1> USE EncoderAssumption DEF EncoderInit
<1>1. x264 = Closed /\ x264.pending = <<>> /\ x264.open = FALSE /\ out = <<>>
  BY DEF Closed
<1>2. OnePlace
  BY <1>1 DEF OnePlace, Closed, Handle
<1>3. NoPictureLost /\ FragmentsOnce
  BY <1>1 DEF NoPictureLost, FragmentsOnce
<1>4. x264.open => encoderInited
  BY <1>1
<1>5. EncoderTypeOK
  <2>1. /\ encoderInited = FALSE /\ encodeCallback = FALSE /\ broken = FALSE /\ gone = {}
        /\ image = 0 /\ picture \in 1 .. MaxPictures + 1 /\ inits \in 0 .. MaxInits
    BY DEF Nothing
  <2>2. x264.pending \in Seq(1 .. MaxPictures) /\ Len(x264.pending) <= Delay
    BY <1>1
  <2>3. out \in Seq([bytes : Bytes, stamp : 1 .. MaxPictures, parts : BOOLEAN])
    BY <1>1
  <2> HIDE DEF EncoderInit
  <2> QED BY <1>4, <2>1, <2>2, <2>3 DEF EncoderTypeOK, Nothing
<1> QED BY <1>2, <1>3, <1>5 DEF EncoderInv

(* Nothing is taken or given out: the pictures x264 held stay or are gone.  *)
LEMMA QuietStep ==
  ASSUME EncoderInv, UNCHANGED <<picture, out>>,
         encoderInited' \in BOOLEAN, encodeCallback' \in BOOLEAN, broken' \in BOOLEAN,
         image' \in Bytes \union {Nothing}, inits' \in 0 .. MaxInits,
         \/ UNCHANGED <<x264, gone>> /\ (encoderInited => encoderInited')
         \/ /\ x264' \in {Open, Closed} /\ gone' = gone \union Pending
            /\ x264'.open => encoderInited'
  PROVE  EncoderInv'
<1>1. CASE UNCHANGED <<x264, gone>> /\ (encoderInited => encoderInited')
  BY <1>1 DEF EncoderInv, EncoderTypeOK, OnePlace, NoPictureLost, FragmentsOnce, Pending
<1>2. CASE x264' \in {Open, Closed} /\ gone' = gone \union Pending /\ (x264'.open => encoderInited')
  <2>1. x264'.pending = <<>> /\ x264' \in Handle /\ Pending' = {}
    <3>1. <<>> \in Seq(Numbers) /\ TRUE \in BOOLEAN /\ FALSE \in BOOLEAN
      OBVIOUS
    <3>2. Open \in Handle /\ Closed \in Handle
      BY <3>1 DEF Open, Closed, Handle
    <3>3. x264'.pending = <<>>
      BY <1>2 DEF Open, Closed
    <3> QED BY <1>2, <3>2, <3>3 DEF Pending
  <2>2. Pending \subseteq Numbers
    BY DEF EncoderInv, OnePlace, Handle, Pending
  <2>3. EncoderTypeOK'
    BY <1>2, <2>1, <2>2, EncoderAssumption DEF EncoderInv, EncoderTypeOK, Numbers
  <2>4. OnePlace'
    BY <2>1 DEF EncoderInv, OnePlace
  <2>5. NoPictureLost'
    BY <1>2 DEF EncoderInv, NoPictureLost
  <2>6. FragmentsOnce'
    BY DEF EncoderInv, FragmentsOnce
  <2> QED BY <2>3, <2>4, <2>5, <2>6 DEF EncoderInv
<1> QED BY <1>1, <1>2

(* An image goes out once more, without fragments.                          *)
LEMMA GivesNothingStep == ASSUME EncoderInv, EncodeGivesNothing PROVE EncoderInv'
<1>1. /\ encoderInited /\ encodeCallback /\ picture <= MaxPictures /\ picture' = picture + 1
      /\ x264.open /\ Len(x264.pending) < Delay
      /\ x264' = [x264 EXCEPT !.pending = Append(x264.pending, picture)]
      /\ out' = IF image = Nothing THEN out ELSE Append(out, Delivery(image, FALSE))
      /\ UNCHANGED <<encoderInited, encodeCallback, image, inits, gone, broken>>
  BY DEF EncodeGivesNothing, TakePicture
<1>2. /\ picture \in Numbers /\ x264 \in Handle /\ out \in Seq(Image) /\ image \in Bytes \union {Nothing}
      /\ Delay \in Nat /\ MaxPictures \in Nat
  BY <1>1, EncoderAssumption DEF EncoderInv, EncoderTypeOK, OnePlace, Numbers, Image
<1> DEFINE held == x264.pending
<1>3. held \in Seq(Numbers) /\ x264'.pending = Append(held, picture) /\ x264'.open = x264.open
  BY <1>1, <1>2 DEF Handle
<1> HIDE DEF held
<1>4. /\ x264'.pending \in Seq(Numbers) /\ Len(x264'.pending) = Len(held) + 1
      /\ DOMAIN x264'.pending = 1 .. Len(held) + 1 /\ DOMAIN held = 1 .. Len(held) /\ Len(held) \in Nat
      /\ \A i \in 1 .. Len(held) : x264'.pending[i] = held[i]
      /\ x264'.pending[Len(held) + 1] = picture
  BY <1>2, <1>3
<1>5. x264' \in Handle
  BY <1>1, <1>2, <1>4 DEF Handle
<1>6. Pending' = Pending \union {picture}
  <2>1. Pending = {held[i] : i \in 1 .. Len(held)}
    BY <1>4 DEF Pending, held
  <2>2. Pending' = {x264'.pending[i] : i \in 1 .. Len(held) + 1}
    BY <1>4 DEF Pending
  <2>3. 1 .. Len(held) + 1 = 1 .. Len(held) \union {Len(held) + 1}
    BY <1>4
  <2> QED BY ONLY <1>4, <2>1, <2>2, <2>3
<1>7. /\ out' \in Seq(Image) /\ DOMAIN out \subseteq DOMAIN out'
      /\ \A i \in DOMAIN out : out'[i] = out[i]
      /\ \A i \in DOMAIN out' : i \in DOMAIN out \/ out'[i].parts = FALSE
  <2>1. CASE image = Nothing
    BY <1>1, <1>2, <2>1
  <2>2. CASE image # Nothing
    <3> DEFINE d == Delivery(image, FALSE)
    <3>1. d \in Image /\ d.parts = FALSE
      BY <1>2, <2>2 DEF Delivery, Image
    <3> HIDE DEF d
    <3>2. out' = Append(out, d)
      BY <1>1, <2>2 DEF d
    <3> HIDE DEF Image
    <3> QED BY <1>2, <3>1, <3>2
  <2> QED BY <2>1, <2>2
<1>8. EncoderTypeOK'
  <2>1. picture' \in 1 .. MaxPictures + 1 /\ Len(x264'.pending) <= Delay
    BY <1>1, <1>2, <1>4 DEF held, Numbers
  <2> QED BY <1>1, <1>3, <1>4, <1>7, <2>1 DEF EncoderInv, EncoderTypeOK, Numbers, Image
<1>9. OnePlace'
  <2>1. /\ \A i \in DOMAIN held : held[i] < picture /\ held[i] \in Nat
        /\ \A i, j \in DOMAIN held : held[i] = held[j] => i = j
    <3>1. \A i \in DOMAIN held : held[i] \in Numbers
      BY <1>3
    <3>2. /\ \A i \in DOMAIN held : held[i] < picture
          /\ \A i, j \in DOMAIN held : held[i] = held[j] => i = j
      BY DEF EncoderInv, OnePlace, held
    <3> QED BY <3>1, <3>2 DEF Numbers
  <2>a. picture \in Nat /\ picture' = picture + 1
    BY <1>1, <1>2 DEF Numbers
  <2>2. \A i \in DOMAIN x264'.pending : x264'.pending[i] < picture'
    BY <1>4, <2>1, <2>a
  <2>3. \A i, j \in DOMAIN x264'.pending : x264'.pending[i] = x264'.pending[j] => i = j
    <3> SUFFICES ASSUME NEW i \in 1 .. Len(held) + 1, NEW j \in 1 .. Len(held) + 1,
                        x264'.pending[i] = x264'.pending[j]
                 PROVE  i = j
      BY <1>4
    <3>1. CASE i \in 1 .. Len(held) /\ j \in 1 .. Len(held)
      BY <1>4, <2>1, <3>1, SMTT(30)
    <3>2. CASE i = Len(held) + 1 /\ j \in 1 .. Len(held)
      BY <1>4, <2>1, <2>a, <3>2, SMTT(30)
    <3>3. CASE i \in 1 .. Len(held) /\ j = Len(held) + 1
      BY <1>4, <2>1, <2>a, <3>3, SMTT(30)
    <3> QED BY <1>4, <3>1, <3>2, <3>3
  <2>4. \A i \in DOMAIN out' :
          out'[i].parts => out'[i].bytes \in 1 .. picture' - 1 /\ out'[i].bytes \notin Pending'
    <3> SUFFICES ASSUME NEW i \in DOMAIN out', out'[i].parts
                 PROVE  out'[i].bytes \in 1 .. picture' - 1 /\ out'[i].bytes \notin Pending'
      OBVIOUS
    <3>1. i \in DOMAIN out /\ out[i].parts /\ out'[i] = out[i]
      BY <1>7
    <3>2. out[i].bytes \in 1 .. picture - 1 /\ out[i].bytes \notin Pending
      BY <3>1 DEF EncoderInv, OnePlace
    <3>3. out[i].bytes \in 1 .. picture' - 1 /\ out[i].bytes # picture
      BY <2>a, <3>2
    <3>4. out[i].bytes \notin Pending'
      BY <1>6, <3>2, <3>3
    <3> QED BY <3>1, <3>3, <3>4
  <2> QED BY <1>5, <2>2, <2>3, <2>4 DEF OnePlace
<1>10. NoPictureLost'
  <2> SUFFICES ASSUME NEW n \in 1 .. picture
               PROVE  n \in Pending' \union gone' \/ \E i \in DOMAIN out' : out'[i].bytes = n
    <3>1. 1 .. picture' - 1 = 1 .. picture
      BY <1>1, <1>2 DEF Numbers
    <3> QED BY <3>1 DEF NoPictureLost
  <2>1. CASE n = picture
    BY <1>6, <2>1
  <2>2. CASE n \in 1 .. picture - 1
    BY <1>1, <1>6, <1>7, <2>2 DEF EncoderInv, NoPictureLost
  <2> QED BY <1>2, <2>1, <2>2 DEF Numbers
<1>11. FragmentsOnce'
  BY <1>7 DEF EncoderInv, FragmentsOnce
<1> QED BY <1>8, <1>9, <1>10, <1>11 DEF EncoderInv

(* A picture leaves x264 and goes out with its fragments.                   *)
LEMMA GivesPictureStep == ASSUME EncoderInv, EncodeGivesPicture PROVE EncoderInv'
<1> DEFINE held == Append(x264.pending, picture)
<1>1. /\ encoderInited /\ encodeCallback /\ picture <= MaxPictures /\ picture' = picture + 1 /\ x264.open
      /\ UNCHANGED <<encoderInited, encodeCallback, inits, gone, broken>>
  BY DEF EncodeGivesPicture, TakePicture
<1>2. PICK i \in DOMAIN held :
        /\ x264' = [x264 EXCEPT !.pending = Without(held, i)]
        /\ image' = held[i]
        /\ out' = Append(out, Delivery(held[i], TRUE))
  BY DEF EncodeGivesPicture
<1>3. /\ picture \in Numbers /\ x264 \in Handle /\ out \in Seq(Image)
      /\ Delay \in Nat /\ MaxPictures \in Nat
      /\ x264.pending \in Seq(Numbers) /\ Len(x264.pending) <= Delay
      /\ \A k \in DOMAIN x264.pending : x264.pending[k] < picture
      /\ \A j, k \in DOMAIN x264.pending : x264.pending[j] = x264.pending[k] => j = k
  BY <1>1, EncoderAssumption DEF EncoderInv, EncoderTypeOK, OnePlace, Numbers, Image, Handle
<1>4. /\ held \in Seq(Numbers) /\ Len(held) = Len(x264.pending) + 1 /\ Len(x264.pending) \in Nat
      /\ DOMAIN held = 1 .. Len(x264.pending) + 1 /\ DOMAIN x264.pending = 1 .. Len(x264.pending)
      /\ \A k \in 1 .. Len(x264.pending) : held[k] = x264.pending[k]
      /\ held[Len(x264.pending) + 1] = picture
  BY <1>3
<1>5. /\ \A k \in DOMAIN held : held[k] \in 1 .. picture
      /\ \A j, k \in DOMAIN held : held[j] = held[k] => j = k
      /\ \A n : n \in Pending \/ n = picture <=> \E k \in DOMAIN held : held[k] = n
  <2> HIDE DEF held
  <2> DEFINE last == Len(x264.pending) + 1
             old == x264.pending
  <2>a. picture \in Nat /\ picture >= 1
    BY <1>3 DEF Numbers
  <2>1. \A k \in 1 .. last - 1 : old[k] \in 1 .. picture - 1 /\ held[k] = old[k]
    <3>1. \A k \in DOMAIN old : old[k] \in Numbers /\ old[k] < picture
      BY <1>3
    <3> QED BY <1>4, <2>a, <3>1, SMTT(30) DEF Numbers
  <2>b. last \in Nat \ {0} /\ DOMAIN held = 1 .. last /\ held[last] = picture
    BY <1>4
  <2>c. \A j, k \in 1 .. last - 1 : old[j] = old[k] => j = k
    <3>1. 1 .. last - 1 = DOMAIN old
      BY <1>4
    <3> QED BY <1>3, <3>1
  <2> HIDE DEF last, old
  <2>2. \A k \in DOMAIN held : held[k] \in 1 .. picture
    <3> SUFFICES ASSUME NEW k \in 1 .. last PROVE held[k] \in 1 .. picture
      BY <2>b
    <3>1. CASE k \in 1 .. last - 1
      BY <2>a, <2>1, <3>1
    <3>2. CASE k = last
      BY <2>a, <2>b, <3>2
    <3> QED BY <2>b, <3>1, <3>2
  <2>3. \A j, k \in DOMAIN held : held[j] = held[k] => j = k
    <3> SUFFICES ASSUME NEW j \in 1 .. last, NEW k \in 1 .. last, held[j] = held[k]
                 PROVE  j = k
      BY <2>b
    <3>1. CASE j \in 1 .. last - 1 /\ k \in 1 .. last - 1
      <4>1. old[j] = old[k]
        BY <2>1, <3>1
      <4> QED BY ONLY <2>c, <3>1, <4>1, Zenon
    <3>2. CASE j = last /\ k \in 1 .. last - 1
      <4>1. held[k] \in 1 .. picture - 1 /\ held[j] = picture
        BY <2>b, <2>1, <3>2
      <4> QED BY <2>a, <4>1
    <3>3. CASE j \in 1 .. last - 1 /\ k = last
      <4>1. held[j] \in 1 .. picture - 1 /\ held[k] = picture
        BY <2>b, <2>1, <3>3
      <4> QED BY <2>a, <4>1
    <3> QED BY <2>b, <3>1, <3>2, <3>3
  <2>4. \A n : n \in Pending \/ n = picture <=> \E k \in DOMAIN held : held[k] = n
    <3>1. \A n : n \in Pending <=> \E k \in 1 .. last - 1 : held[k] = n
      <4>1. \A n : n \in Pending <=> \E k \in DOMAIN old : old[k] = n
        BY Zenon DEF Pending, old
      <4>2. DOMAIN old = 1 .. last - 1
        BY <1>4 DEF old, last
      <4> QED BY ONLY <2>1, <4>1, <4>2, Zenon
    <3>2. \A k : k \in 1 .. last <=> k \in 1 .. last - 1 \/ k = last
      BY ONLY <2>b
    <3> QED BY ONLY <2>b, <3>1, <3>2, Zenon
  <2> QED BY <2>2, <2>3, <2>4
<1> HIDE DEF held
<1> DEFINE w == Without(held, i)
           d == Delivery(held[i], TRUE)
<1>6. /\ w \in Seq(Numbers) /\ Len(w) = Len(held) - 1
      /\ \A j, k \in DOMAIN w : w[j] = w[k] => j = k
      /\ \A j \in DOMAIN w : w[j] # held[i] /\ \E k \in DOMAIN held : w[j] = held[k]
      /\ \A k \in DOMAIN held : k # i => \E j \in DOMAIN w : w[j] = held[k]
  BY <1>4, <1>5, WithoutOne, ZenonT(60)
<1>7. held[i] \in Numbers /\ held[i] \in 1 .. picture
  BY <1>4, <1>5
<1>8. d \in Image /\ d.parts = TRUE /\ d.bytes = held[i]
  BY <1>3, <1>7 DEF Delivery, Image, Bytes, Numbers
<1> HIDE DEF w, d
<1>9. x264'.pending = w /\ x264'.open = x264.open /\ x264' \in Handle
  BY <1>2, <1>3, <1>6 DEF Handle, w
<1>10. /\ out' \in Seq(Image) /\ DOMAIN out' = 1 .. Len(out) + 1 /\ DOMAIN out = 1 .. Len(out)
       /\ Len(out) \in Nat
       /\ \A k \in DOMAIN out : out'[k] = out[k]
       /\ out'[Len(out) + 1] = d
  <2>1. out' = Append(out, d)
    BY <1>2 DEF d
  <2> HIDE DEF Image
  <2> QED BY <1>3, <1>8, <2>1
<1>11. /\ Pending' \subseteq Pending \union {picture} /\ held[i] \notin Pending'
       /\ \A n \in Pending \union {picture} : n = held[i] \/ n \in Pending'
  <2>1. Pending' = {w[j] : j \in DOMAIN w}
    BY <1>9 DEF Pending
  <2>2. \A n \in Pending' : n # held[i] /\ \E k \in DOMAIN held : n = held[k]
    BY <1>6, <2>1
  <2>3. ASSUME NEW n \in Pending \union {picture}, n # held[i]
        PROVE  n \in Pending'
    <3>1. PICK k \in DOMAIN held : held[k] = n
      BY <1>5
    <3>2. \E j \in DOMAIN w : w[j] = held[k]
      BY <1>6, <2>3, <3>1
    <3> QED BY <2>1, <3>1, <3>2
  <2>4. Pending' \subseteq Pending \union {picture}
    BY <1>5, <2>2
  <2> QED BY <2>2, <2>3, <2>4
<1>12. EncoderTypeOK'
  <2>1. picture' \in 1 .. MaxPictures + 1 /\ Len(x264'.pending) <= Delay
    BY <1>1, <1>3, <1>4, <1>6, <1>9 DEF Numbers
  <2>2. image' \in Bytes
    BY <1>2, <1>7 DEF Bytes, Numbers
  <2> QED BY <1>1, <1>6, <1>9, <1>10, <2>1, <2>2 DEF EncoderInv, EncoderTypeOK, Numbers, Image
<1>13. \A k \in DOMAIN out : out[k].parts =>
         out[k].bytes \in 1 .. picture - 1 /\ out[k].bytes \notin Pending \union {picture}
  BY <1>3 DEF EncoderInv, OnePlace, Numbers
<1>14. OnePlace'
  <2>1. \A k \in DOMAIN w : w[k] < picture'
    BY <1>1, <1>3, <1>5, <1>6 DEF Numbers
  <2>2. \A k \in DOMAIN out' :
          out'[k].parts => out'[k].bytes \in 1 .. picture' - 1 /\ out'[k].bytes \notin Pending'
    <3> SUFFICES ASSUME NEW k \in DOMAIN out', out'[k].parts
                 PROVE  out'[k].bytes \in 1 .. picture' - 1 /\ out'[k].bytes \notin Pending'
      OBVIOUS
    <3>1. CASE k \in DOMAIN out
      BY <1>1, <1>3, <1>10, <1>11, <1>13, <3>1 DEF Numbers
    <3>2. CASE k = Len(out) + 1
      BY <1>1, <1>3, <1>7, <1>8, <1>10, <1>11, <3>2 DEF Numbers
    <3> QED BY <1>10, <3>1, <3>2
  <2> QED BY <1>6, <1>9, <2>1, <2>2 DEF OnePlace
<1>15. NoPictureLost'
  <2> SUFFICES ASSUME NEW n \in 1 .. picture
               PROVE  n \in Pending' \union gone' \/ \E k \in DOMAIN out' : out'[k].bytes = n
    <3>1. 1 .. picture' - 1 = 1 .. picture
      BY <1>1, <1>3 DEF Numbers
    <3> QED BY <3>1 DEF NoPictureLost
  <2>1. out'[Len(out) + 1].bytes = held[i] /\ Len(out) + 1 \in DOMAIN out'
    BY <1>8, <1>10
  <2>2. CASE n \in Pending \union {picture}
    BY <1>11, <2>1, <2>2
  <2>3. CASE n \notin Pending \union {picture}
    <3>1. n \in 1 .. picture - 1
      BY <1>3, <2>3 DEF Numbers
    <3>2. n \in gone \/ \E k \in DOMAIN out : out[k].bytes = n
      BY <2>3, <3>1 DEF EncoderInv, NoPictureLost
    <3> QED BY <1>1, <1>10, <3>2
  <2> QED BY <2>2, <2>3
<1>16. FragmentsOnce'
  <2> SUFFICES ASSUME NEW j \in DOMAIN out', NEW k \in DOMAIN out',
                      out'[j].parts, out'[k].parts, out'[j].bytes = out'[k].bytes
               PROVE  j = k
    BY DEF FragmentsOnce
  <2>1. \A m \in DOMAIN out : out[m].parts => out[m].bytes # held[i]
    BY <1>5, <1>13
  <2>2. CASE j \in DOMAIN out /\ k \in DOMAIN out
    BY <1>10, <2>2 DEF EncoderInv, FragmentsOnce
  <2>3. CASE j = Len(out) + 1 /\ k \in DOMAIN out
    BY <1>8, <1>10, <2>1, <2>3
  <2>4. CASE j \in DOMAIN out /\ k = Len(out) + 1
    BY <1>8, <1>10, <2>1, <2>4
  <2> QED BY <1>10, <2>2, <2>3, <2>4
<1> QED BY <1>12, <1>14, <1>15, <1>16 DEF EncoderInv

LEMMA EncoderStepInv == EncoderInv /\ [EncoderNext]_encoderVars => EncoderInv'
<1> SUFFICES ASSUME EncoderInv, [EncoderNext]_encoderVars PROVE EncoderInv'
  OBVIOUS
<1>0. /\ encoderInited \in BOOLEAN /\ encodeCallback \in BOOLEAN /\ broken \in BOOLEAN
      /\ image \in Bytes \union {Nothing} /\ inits \in 0 .. MaxInits /\ MaxInits \in Nat
      /\ MaxPictures \in Nat /\ picture \in 1 .. MaxPictures + 1
  BY EncoderAssumption DEF EncoderInv, EncoderTypeOK
<1>1. (IF image = Nothing THEN Nothing ELSE Garbage) \in Bytes \union {Nothing}
  BY DEF Bytes
<1>2. CASE InitEncode
  <2>1. /\ UNCHANGED <<picture, out, encodeCallback, broken>> /\ encoderInited' = TRUE
        /\ image' \in Bytes \union {Nothing} /\ inits' = inits + 1 /\ inits < MaxInits
        /\ x264' = Open /\ gone' = gone \union Pending
    BY <1>1, <1>2 DEF InitEncode, LoseBytes
  <2>2. inits' \in 0 .. MaxInits
    BY <1>0, <2>1
  <2> QED BY <1>0, <2>1, <2>2, QuietStep
<1>3. CASE InitEncodeFails
  <2>1. /\ UNCHANGED <<picture, out, encodeCallback>> /\ encoderInited' = FALSE /\ broken' = TRUE
        /\ image' \in Bytes \union {Nothing} /\ inits' = inits + 1 /\ inits < MaxInits
        /\ x264' = Closed /\ gone' = gone \union Pending
    BY <1>1, <1>3 DEF InitEncodeFails, LoseBytes, Close
  <2>2. inits' \in 0 .. MaxInits /\ Closed.open = FALSE
    BY <1>0, <2>1 DEF Closed
  <2> QED BY <1>0, <2>1, <2>2, QuietStep
<1>4. CASE ReleaseEncoder
  <2>1. /\ UNCHANGED <<picture, out, encodeCallback, broken, inits>> /\ encoderInited' = FALSE
        /\ image' \in Bytes \union {Nothing}
        /\ x264' = Closed /\ gone' = gone \union Pending /\ Closed.open = FALSE
    BY <1>1, <1>4 DEF ReleaseEncoder, LoseBytes, Close, Closed
  <2> QED BY <1>0, <2>1, QuietStep
<1>5. ASSUME NEW set \in BOOLEAN, RegisterEncodeCompleteCallback(set) PROVE EncoderInv'
  BY <1>0, <1>5, QuietStep DEF RegisterEncodeCompleteCallback
<1>6. CASE EncodeFails \/ EncodeOnClosed
  <2>1. /\ encoderInited /\ picture <= MaxPictures /\ picture' = picture + 1 /\ broken' \in BOOLEAN
        /\ gone \union {picture} \subseteq gone' /\ gone' \subseteq gone \union Pending \union {picture}
        /\ \/ x264' = Closed /\ gone' = gone \union Pending \union {picture}
           \/ x264' = x264 /\ gone' = gone \union {picture}
        /\ UNCHANGED <<encoderInited, encodeCallback, image, inits, out>>
    BY <1>0, <1>6 DEF EncodeFails, EncodeOnClosed, TakePicture
  <2>2. /\ x264' \in Handle /\ (x264'.open => encoderInited)
        /\ x264'.pending \in Seq(Numbers) /\ Len(x264'.pending) <= Delay
        /\ \/ Pending' = {} /\ DOMAIN x264'.pending = {} /\ Pending \subseteq gone'
           \/ x264' = x264
    <3>1. CASE x264' = x264
      BY <2>1, <3>1 DEF EncoderInv, EncoderTypeOK, OnePlace, Numbers
    <3>2. CASE x264' = Closed /\ gone' = gone \union Pending \union {picture}
      <4>1. x264'.pending = <<>> /\ <<>> \in Seq(Numbers)
        BY <3>2 DEF Closed
      <4>2. x264' \in Handle
        BY <3>2, <4>1 DEF Closed, Handle
      <4> QED BY <2>1, <3>2, <4>1, <4>2, EncoderAssumption DEF Pending
    <3> QED BY <2>1, <3>1, <3>2
  <2>3. Pending' \subseteq Pending /\ Pending \subseteq gone' \union Pending'
    BY <2>2 DEF Pending
  <2>4. Pending \subseteq Numbers
    BY DEF EncoderInv, OnePlace, Handle, Pending
  <2>5. EncoderTypeOK'
    <3>1. gone' \subseteq 1 .. MaxPictures /\ picture' \in 1 .. MaxPictures + 1
      BY <1>0, <2>1, <2>4 DEF EncoderInv, EncoderTypeOK, Numbers
    <3> QED BY <2>1, <2>2, <3>1 DEF EncoderInv, EncoderTypeOK, Numbers
  <2>6. OnePlace'
    <3>1. \A i \in DOMAIN x264'.pending : x264'.pending[i] < picture'
      BY <1>0, <2>1, <2>2 DEF EncoderInv, OnePlace, Numbers, Handle
    <3>2. \A i, j \in DOMAIN x264'.pending : x264'.pending[i] = x264'.pending[j] => i = j
      BY <2>2 DEF EncoderInv, OnePlace
    <3>3. \A i \in DOMAIN out :
            out[i].parts => out[i].bytes \in 1 .. picture' - 1 /\ out[i].bytes \notin Pending'
      BY <1>0, <2>1, <2>3 DEF EncoderInv, OnePlace
    <3> QED BY <2>1, <2>2, <3>1, <3>2, <3>3 DEF OnePlace
  <2>7. NoPictureLost'
    <3> SUFFICES ASSUME NEW n \in 1 .. picture
                 PROVE  n \in Pending' \union gone' \/ \E i \in DOMAIN out' : out'[i].bytes = n
      BY <1>0, <2>1 DEF NoPictureLost
    <3>1. CASE n = picture
      BY <2>1, <3>1
    <3>2. CASE n \in 1 .. picture - 1
      BY <2>1, <2>3, <3>2 DEF EncoderInv, NoPictureLost
    <3> QED BY <1>0, <3>1, <3>2
  <2>8. FragmentsOnce'
    BY <2>1 DEF EncoderInv, FragmentsOnce
  <2> QED BY <2>5, <2>6, <2>7, <2>8 DEF EncoderInv
<1>7. CASE UNCHANGED encoderVars
  BY <1>0, <1>7, QuietStep DEF encoderVars
<1> QED BY <1>2, <1>3, <1>4, <1>5, <1>6, <1>7, GivesNothingStep, GivesPictureStep DEF EncoderNext

(* No picture that Encode accepted is lost: x264 has it, it went out, or it *)
(* went with a handle that was closed (Encode, Release, InitEncode).        *)
THEOREM LosesNoPicture == EncoderSpec => []NoPictureLost
<1>1. EncoderInv => NoPictureLost
  BY DEF EncoderInv
<1> QED BY EncoderInitInv, EncoderStepInv, <1>1, PTL DEF EncoderSpec

(* The fragments of a picture go out once (Encode).                         *)
THEOREM SendsFragmentsOnce == EncoderSpec => []FragmentsOnce
<1>1. EncoderInv => FragmentsOnce
  BY DEF EncoderInv
<1> QED BY EncoderInitInv, EncoderStepInv, <1>1, PTL DEF EncoderSpec

(* The encoder's types.                                                     *)
THEOREM EncoderTypeCorrect == EncoderSpec => []EncoderTypeOK
<1>1. EncoderInv => EncoderTypeOK
  BY DEF EncoderInv
<1> QED BY EncoderInitInv, EncoderStepInv, <1>1, PTL DEF EncoderSpec

(***************************************************************************)
(* The decoder: facts about numbers and sequences                           *)
(***************************************************************************)
(* A non-empty set of natural numbers has a least element: a CHOOSE of the  *)
(* least, as in a linear search or a minimum of times, has a witness.       *)
LEMMA LeastElement ==
  ASSUME NEW S \in SUBSET Nat, S # {}
  PROVE  \E i \in S : \A j \in S : i <= j
<1> DEFINE R == OpToRel(<, Nat)
<1>1. \A x, y \in S : <<y, x>> \in R <=> y < x
  BY SMT DEF OpToRel
<1>2. IsWellFoundedOn(R, Nat)
  BY NatLessThanWellFounded
<1> HIDE DEF R
<1>3. PICK x \in S : \A y \in S : ~(<<y, x>> \in R)
  BY <1>2, WFMin
<1>4. \A y \in S : ~(y < x)
  BY <1>1, <1>3
<1> QED BY <1>4

(* One subtraction or addition is enough near the ring's ends.              *)
LEMMA ModWithin ==
  ASSUME NEW n \in Nat \ {0}
  PROVE  /\ \A a \in 0 .. n - 1 : a % n = a
         /\ \A a \in n .. 2 * n - 1 : a % n = a - n
         /\ \A a \in -n .. -1 : a % n = a + n
         /\ \A a \in Int : a % n \in 0 .. n - 1
<1>1. \A a \in 0 .. n - 1 : a % n = a
  OBVIOUS
<1>2. \A a \in n .. 2 * n - 1 : a % n = a - n
  OBVIOUS
<1>3. \A a \in -n .. -1 : a % n = a + n
  OBVIOUS
<1>4. \A a \in Int : a % n \in 0 .. n - 1
  OBVIOUS
<1> QED BY <1>1, <1>2, <1>3, <1>4

(* Numbers that differ and are equal in the ring are a round apart.         *)
LEMMA ModApart ==
  ASSUME NEW n \in Nat \ {0}, NEW a \in Int, NEW b \in Int, a % n = b % n, a < b
  PROVE  b - a >= n
<1>1. ASSUME NEW c \in Int PROVE c = n * (c \div n) + (c % n)
  OBVIOUS
<1>2. a \div n \in Int /\ b \div n \in Int
  OBVIOUS
<1>3. PICK q \in Int, r \in Int : q = a \div n /\ r = b \div n
  BY <1>2
<1>4. a = n * q + (a % n) /\ b = n * r + (b % n)
  BY <1>1, <1>3
<1> DEFINE k == r - q
<1>5. k \in Int /\ b - a = n * k
  <2>1. b - a = n * r - n * q
    BY <1>4
  <2> QED BY <2>1
<1> HIDE DEF k
<1>6. \A j \in Int : j <= 0 => n * j <= 0
  OBVIOUS
<1>7. k >= 1
  BY <1>5, <1>6
<1>8. \A j \in Int : j >= 1 => n * j >= n
  OBVIOUS
<1> QED BY <1>5, <1>7, <1>8

Tuples == [ts : 0 .. TsSpace - 1, slot : Positions]
Maps == [tuple : [Positions -> Tuples], nextAdd : Positions, nextPop : Positions]

(* Entry k of map m leads to the slot that has input n - Used + k.          *)
EntryFor(m, inf, k, n) ==
  /\ inf[Nth(m, k)] = n
  /\ m.tuple[Nth(m, k)].ts = Stamp(n)
  /\ m.tuple[Nth(m, k)].slot = Nth(m, k)

(* The map has the inputs before n, without a gap.                          *)
Holds(m, inf, n) ==
  /\ Used(m) < n
  /\ \A k \in 0 .. Used(m) - 1 : EntryFor(m, inf, k, n - Used(m) + k)

StartUp ==
  /\ framecnt < 3 => fed = <<>>
  /\ \A i, j \in DOMAIN buffered : i < j => buffered[i] < buffered[j]
  /\ StartUpOnce

Times ==
  /\ map \in Maps
  /\ nextInfo = map.nextAdd
  /\ Holds(map, infos, next)
  /\ RenderTimeOfCall
  /\ DroppedOnlyAtWrap

Inv == TypeOK /\ StartUp /\ Times

(***************************************************************************)
(* The map                                                                  *)
(***************************************************************************)
(* Counting round the list in steps that do not go round twice.             *)
LEMMA RingArithmetic ==
  ASSUME NEW m \in Maps
  PROVE  /\ Used(m) = IF m.nextPop <= m.nextAdd THEN m.nextAdd - m.nextPop
                      ELSE m.nextAdd - m.nextPop + MemoryLength
         /\ Used(m) \in 0 .. MemoryLength - 1
         /\ \A k \in 0 .. MemoryLength :
              /\ Nth(m, k) = IF m.nextPop + k < MemoryLength THEN m.nextPop + k
                             ELSE m.nextPop + k - MemoryLength
              /\ Nth(m, k) \in Positions
         /\ \A i \in Positions :
              After(i) = IF i + 1 < MemoryLength THEN i + 1 ELSE 0
<1> DEFINE N == MemoryLength
<1>1. /\ N \in Nat \ {0}
      /\ m.nextAdd \in 0 .. N - 1 /\ m.nextPop \in 0 .. N - 1
  BY TimestampMapAssumption DEF Maps, Positions
<1>2. /\ \A a \in 0 .. N - 1 : a % N = a
      /\ \A a \in N .. 2 * N - 1 : a % N = a - N
      /\ \A a \in -N .. -1 : a % N = a + N
  BY <1>1, ModWithin
<1> HIDE DEF N
<1>3. Used(m) = IF m.nextPop <= m.nextAdd THEN m.nextAdd - m.nextPop
                ELSE m.nextAdd - m.nextPop + N
  BY <1>1, <1>2 DEF Used, N
<1>4. ASSUME NEW k \in 0 .. N
      PROVE  Nth(m, k) = IF m.nextPop + k < N THEN m.nextPop + k ELSE m.nextPop + k - N
  <2> DEFINE a == m.nextPop + k
  <2>1. a \in 0 .. N - 1 \/ a \in N .. 2 * N - 1
    BY <1>1
  <2>2. Nth(m, k) = a % N
    BY DEF Nth, N
  <2> HIDE DEF a
  <2>3. Nth(m, k) = IF a < N THEN a ELSE a - N
    BY <1>1, <1>2, <2>1, <2>2
  <2> QED BY <1>1, <2>3 DEF a
<1>5. ASSUME NEW i \in 0 .. N - 1
      PROVE  After(i) = IF i + 1 < N THEN i + 1 ELSE 0
  BY <1>1, <1>2 DEF After, N
<1> QED BY <1>1, <1>3, <1>4, <1>5 DEF N, Positions

LEMMA StampInSpace ==
  ASSUME first \in 0 .. TsSpace - 1, NEW n \in Nat
  PROVE  Stamp(n) \in 0 .. TsSpace - 1
<1>1. TsSpace \in Nat \ {0} /\ first + n - 1 \in Int
  BY TimestampMapAssumption
<1> QED BY <1>1, ModWithin DEF Stamp

(* Inputs that are less than TsSpace apart have different timestamps.       *)
LEMMA StampsDiffer ==
  ASSUME first \in 0 .. TsSpace - 1, NEW n \in Nat, NEW d \in 1 .. TsSpace - 1, d <= n
  PROVE  Stamp(n - d) # Stamp(n)
<1> DEFINE a == first + (n - d) - 1
           b == first + n - 1
<1>1. TsSpace \in Nat \ {0} /\ a \in Int /\ b \in Int /\ a < b /\ b - a < TsSpace
  BY TimestampMapAssumption
<1>2. Stamp(n - d) = a % TsSpace /\ Stamp(n) = b % TsSpace
  BY DEF Stamp
<1> HIDE DEF a, b
<1>3. ~(b - a >= TsSpace)
  BY <1>1
<1>4. a % TsSpace # b % TsSpace
  BY <1>1, <1>3, ModApart
<1> QED BY <1>2, <1>4

(* Adding the entry of the next input keeps the map without a gap; when the *)
(* list is full its oldest entry goes.                                      *)
LEMMA AddHolds ==
  ASSUME NEW m \in Maps, NEW inf \in [Positions -> Nat], NEW n \in Nat \ {0},
         first \in 0 .. TsSpace - 1, Holds(m, inf, n)
  PROVE  LET a == Add(m, Stamp(n), m.nextAdd)
         IN  /\ a \in Maps
             /\ a.nextAdd = After(m.nextAdd)
             /\ Used(a) > 0
             /\ Holds(a, [inf EXCEPT ![m.nextAdd] = n], n + 1)
<1> DEFINE a == Add(m, Stamp(n), m.nextAdd)
           new == [inf EXCEPT ![m.nextAdd] = n]
           u == Used(m)
<1> SUFFICES /\ a \in Maps
             /\ a.nextAdd = After(m.nextAdd)
             /\ Used(a) > 0
             /\ Holds(a, new, n + 1)
  OBVIOUS
<1>0. /\ MemoryLength \in Nat /\ MemoryLength > 1
      /\ m.nextAdd \in 0 .. MemoryLength - 1 /\ m.nextPop \in 0 .. MemoryLength - 1
      /\ \A i : i \in Positions <=> i \in 0 .. MemoryLength - 1
  BY TimestampMapAssumption DEF Maps, Positions
<1>1. /\ m.nextAdd \in Positions /\ m.nextPop \in Positions
      /\ m.tuple \in [Positions -> Tuples]
  BY DEF Maps
<1>2. /\ u = IF m.nextPop <= m.nextAdd THEN m.nextAdd - m.nextPop
             ELSE m.nextAdd - m.nextPop + MemoryLength
      /\ u \in 0 .. MemoryLength - 1
      /\ \A k \in 0 .. MemoryLength :
           Nth(m, k) = IF m.nextPop + k < MemoryLength THEN m.nextPop + k
                       ELSE m.nextPop + k - MemoryLength
      /\ \A i \in Positions : After(i) = IF i + 1 < MemoryLength THEN i + 1 ELSE 0
  BY RingArithmetic
<1>3. After(m.nextAdd) \in Positions /\ After(m.nextPop) \in Positions
  <2>1. \A i \in Positions : After(i) = IF i + 1 < MemoryLength THEN i + 1 ELSE 0
    BY ONLY <1>2
  <2>2. \A i \in 0 .. MemoryLength - 1 :
          (IF i + 1 < MemoryLength THEN i + 1 ELSE 0) \in 0 .. MemoryLength - 1
    BY <1>0
  <2>3. \A i \in Positions : After(i) \in Positions
    BY ONLY <1>0, <2>1, <2>2, SMT
  <2> QED BY ONLY <1>1, <2>3, Zenon
<1>4. /\ a.nextAdd = After(m.nextAdd)
      /\ a.nextPop = IF After(m.nextAdd) = m.nextPop THEN After(m.nextPop) ELSE m.nextPop
      /\ a.tuple = [m.tuple EXCEPT ![m.nextAdd] = [ts |-> Stamp(n), slot |-> m.nextAdd]]
      /\ DOMAIN a = {"tuple", "nextAdd", "nextPop"}
  BY DEF Add
<1>5. [ts |-> Stamp(n), slot |-> m.nextAdd] \in Tuples
  BY <1>1, StampInSpace DEF Tuples
<1>6. a \in Maps
  <2>1. a.tuple \in [Positions -> Tuples]
    BY <1>1, <1>4, <1>5
  <2>2. a = [tuple |-> a.tuple, nextAdd |-> a.nextAdd, nextPop |-> a.nextPop]
    BY DEF Add
  <2> QED BY <1>1, <1>3, <1>4, <2>1, <2>2 DEF Maps
<1> HIDE DEF a, u
<1>7. /\ Used(a) = IF a.nextPop <= a.nextAdd THEN a.nextAdd - a.nextPop
                   ELSE a.nextAdd - a.nextPop + MemoryLength
      /\ \A k \in 0 .. MemoryLength :
           Nth(a, k) = IF a.nextPop + k < MemoryLength THEN a.nextPop + k
                       ELSE a.nextPop + k - MemoryLength
  BY <1>6, RingArithmetic
<1>8. Nth(m, u) = m.nextAdd
  BY <1>0, <1>2
<1>9. \A k \in 0 .. u - 1 : Nth(m, k) # m.nextAdd /\ Nth(m, k) \in Positions
  BY <1>0, <1>2
<1>11. \A k \in 0 .. u :
         LET i == Nth(m, k) IN /\ new[i] = n - u + k
                               /\ a.tuple[i].ts = Stamp(n - u + k)
                               /\ a.tuple[i].slot = i
  <2> SUFFICES ASSUME NEW k \in 0 .. u
               PROVE  /\ new[Nth(m, k)] = n - u + k
                      /\ a.tuple[Nth(m, k)].ts = Stamp(n - u + k)
                      /\ a.tuple[Nth(m, k)].slot = Nth(m, k)
    OBVIOUS
  <2>1. CASE k = u
    <3>1. n - u + k = n
      BY <1>2, <2>1
    <3>2. new[m.nextAdd] = n
      BY <1>1
    <3>3. a.tuple[m.nextAdd] = [ts |-> Stamp(n), slot |-> m.nextAdd]
      BY <1>1, <1>4
    <3> QED BY <1>8, <2>1, <3>1, <3>2, <3>3
  <2>2. CASE k # u
    <3>1. k \in 0 .. u - 1
      BY <1>2, <2>2
    <3>2. EntryFor(m, inf, k, n - u + k)
      BY <3>1 DEF Holds, u
    <3>3. new[Nth(m, k)] = inf[Nth(m, k)] /\ a.tuple[Nth(m, k)] = m.tuple[Nth(m, k)]
      BY <1>1, <1>4, <1>9, <3>1
    <3> QED BY <3>2, <3>3 DEF EntryFor
  <2> QED BY <2>1, <2>2
<1>12. CASE After(m.nextAdd) # m.nextPop
  <2>1. Used(a) = u + 1 /\ u + 1 <= MemoryLength - 1
    BY <1>0, <1>2, <1>4, <1>7, <1>12
  <2>2. \A k \in 0 .. u : Nth(a, k) = Nth(m, k)
    BY <1>0, <1>2, <1>4, <1>7, <1>12
  <2>3. u < n
    BY DEF Holds, u
  <2>4. \A k \in 0 .. u : EntryFor(a, new, k, n - u + k)
    BY <1>11, <2>2 DEF EntryFor
  <2>5. Used(a) - 1 = u /\ \A k \in 0 .. u : n + 1 - Used(a) + k = n - u + k
    BY <1>2, <2>1
  <2>6. \A k \in 0 .. Used(a) - 1 : EntryFor(a, new, k, n + 1 - Used(a) + k)
    BY <2>4, <2>5
  <2>7. Used(a) > 0 /\ Used(a) < n + 1
    BY <1>0, <1>2, <2>1, <2>3
  <2>8. Holds(a, new, n + 1)
    <3>1. Used(a) \in Nat /\ n + 1 \in Nat
      BY <1>2, <2>1
    <3> HIDE DEF new
    <3> QED BY <2>6, <2>7, <3>1 DEF Holds
  <2> QED BY <1>4, <1>6, <2>7, <2>8
<1>13. CASE After(m.nextAdd) = m.nextPop
  <2>0. /\ a.nextAdd = m.nextPop
        /\ a.nextPop = IF m.nextPop + 1 < MemoryLength THEN m.nextPop + 1 ELSE 0
        /\ m.nextPop = IF m.nextAdd + 1 < MemoryLength THEN m.nextAdd + 1 ELSE 0
    BY <1>0, <1>2, <1>4, <1>13
  <2>1. u = MemoryLength - 1 /\ Used(a) = u
    BY <1>0, <1>2, <1>7, <2>0
  <2>2. \A k \in 0 .. u - 1 : Nth(a, k) = Nth(m, k + 1)
    <3> SUFFICES ASSUME NEW k \in 0 .. u - 1 PROVE Nth(a, k) = Nth(m, k + 1)
      OBVIOUS
    <3>1. k \in 0 .. MemoryLength /\ k + 1 \in 0 .. MemoryLength
      BY <1>0, <1>2
    <3>2. Nth(a, k) = IF a.nextPop + k < MemoryLength THEN a.nextPop + k
                      ELSE a.nextPop + k - MemoryLength
      BY <1>7, <3>1
    <3>3. Nth(m, k + 1) = IF m.nextPop + (k + 1) < MemoryLength THEN m.nextPop + (k + 1)
                          ELSE m.nextPop + (k + 1) - MemoryLength
      BY <1>2, <3>1
    <3> QED BY <1>0, <2>0, <2>1, <3>1, <3>2, <3>3
  <2>3. u < n
    BY DEF Holds, u
  <2>4. \A k \in 0 .. u - 1 : EntryFor(a, new, k, n - u + (k + 1))
    <3>1. \A k \in 0 .. u - 1 : k + 1 \in 0 .. u
      BY <1>2
    <3> QED BY <1>11, <2>2, <3>1 DEF EntryFor
  <2>5. \A k \in 0 .. u - 1 : n + 1 - Used(a) + k = n - u + (k + 1)
    BY <1>2, <2>1
  <2>6. \A k \in 0 .. Used(a) - 1 : EntryFor(a, new, k, n + 1 - Used(a) + k)
    BY <2>1, <2>4, <2>5
  <2>7. Used(a) > 0 /\ Used(a) < n + 1
    BY <1>0, <1>2, <2>1, <2>3
  <2>8. Holds(a, new, n + 1)
    <3>1. Used(a) \in Nat /\ n + 1 \in Nat
      BY <1>2, <2>1
    <3> HIDE DEF new
    <3> QED BY <2>6, <2>7, <3>1 DEF Holds
  <2> QED BY <1>4, <1>6, <2>7, <2>8
<1> QED BY <1>12, <1>13

(* Looking up the input added last forgets the entries before the one that  *)
(* is found.  Its slot has that input; nothing is found only when an entry  *)
(* of an input shortly before it has a higher timestamp.                    *)
LEMMA PopHolds ==
  ASSUME NEW m \in Maps, NEW inf \in [Positions -> Nat], NEW n \in Nat \ {0},
         first \in 0 .. TsSpace - 1, Holds(m, inf, n + 1), Used(m) > 0
  PROVE  LET p == Pop(m, Stamp(n))
         IN  /\ p.map \in Maps
             /\ p.map.nextAdd = m.nextAdd
             /\ Holds(p.map, inf, n + 1)
             /\ \/ p.slot \in Positions /\ inf[p.slot] = n
                \/ /\ p.slot = None
                   /\ \E d \in 1 .. MemoryLength - 2 : d < n /\ Stamp(n - d) > Stamp(n)
<1> DEFINE p == Pop(m, Stamp(n))
           u == Used(m)
           stops == {k \in 0 .. u - 1 : m.tuple[Nth(m, k)].ts >= Stamp(n)}
           f == Min(stops)
           t == m.tuple[Nth(m, f)]
<1> SUFFICES /\ p.map \in Maps
             /\ p.map.nextAdd = m.nextAdd
             /\ Holds(p.map, inf, n + 1)
             /\ \/ p.slot \in Positions /\ inf[p.slot] = n
                \/ /\ p.slot = None
                   /\ \E d \in 1 .. MemoryLength - 2 : d < n /\ Stamp(n - d) > Stamp(n)
  OBVIOUS
<1>0. /\ MemoryLength \in Nat /\ MemoryLength > 1
      /\ m.nextAdd \in 0 .. MemoryLength - 1 /\ m.nextPop \in 0 .. MemoryLength - 1
      /\ \A i : i \in Positions <=> i \in 0 .. MemoryLength - 1
  BY TimestampMapAssumption DEF Maps, Positions
<1>1. /\ u = IF m.nextPop <= m.nextAdd THEN m.nextAdd - m.nextPop
             ELSE m.nextAdd - m.nextPop + MemoryLength
      /\ u \in 0 .. MemoryLength - 1 /\ u > 0
      /\ \A k \in 0 .. MemoryLength :
           /\ Nth(m, k) = IF m.nextPop + k < MemoryLength THEN m.nextPop + k
                          ELSE m.nextPop + k - MemoryLength
           /\ Nth(m, k) \in Positions
  BY RingArithmetic
<1>2. /\ u <= n
      /\ \A k \in 0 .. u - 1 : EntryFor(m, inf, k, n + 1 - u + k)
  BY <1>1 DEF Holds
<1>3. \A k \in 0 .. u - 1 : m.tuple[Nth(m, k)] \in Tuples
  BY <1>0, <1>1 DEF Maps
<1>4. \A k \in Nat : Stamp(k) \in 0 .. TsSpace - 1 /\ TsSpace \in Nat
  BY StampInSpace, TimestampMapAssumption
<1>5. u - 1 \in stops
  <2>1. u - 1 \in 0 .. u - 1 /\ n + 1 - u + (u - 1) = n
    BY <1>1
  <2>2. m.tuple[Nth(m, u - 1)].ts = Stamp(n)
    BY <1>2, <2>1 DEF EntryFor
  <2> QED BY <1>4, <2>1, <2>2
<1>6. f \in stops /\ \A k \in stops : f <= k
  <2>1. stops \in SUBSET Nat /\ stops # {}
    BY <1>1, <1>5
  <2>2. \E i \in stops : \A j \in stops : i <= j
    BY <2>1, LeastElement
  <2> QED BY <2>2 DEF Min
<1>7. /\ f \in 0 .. u - 1
      /\ t.ts >= Stamp(n)
      /\ t.ts = Stamp(n + 1 - u + f) /\ t.slot = Nth(m, f) /\ inf[Nth(m, f)] = n + 1 - u + f
  <2>1. f \in 0 .. u - 1 /\ t.ts >= Stamp(n)
    BY <1>6
  <2> QED BY <1>2, <2>1 DEF EntryFor
<1>8. ASSUME NEW j \in 0 .. u, NEW q, q = [m EXCEPT !.nextPop = Nth(m, j)]
      PROVE  q \in Maps /\ q.nextAdd = m.nextAdd /\ Holds(q, inf, n + 1)
  <2>0. j \in 0 .. MemoryLength /\ Nth(m, j) \in Positions
    BY <1>0, <1>1
  <2>1. q \in Maps /\ q.nextAdd = m.nextAdd /\ q.tuple = m.tuple /\ q.nextPop = Nth(m, j)
    BY <1>8, <2>0 DEF Maps
  <2>2. /\ Used(q) = IF q.nextPop <= q.nextAdd THEN q.nextAdd - q.nextPop
                     ELSE q.nextAdd - q.nextPop + MemoryLength
        /\ \A k \in 0 .. MemoryLength :
             Nth(q, k) = IF q.nextPop + k < MemoryLength THEN q.nextPop + k
                         ELSE q.nextPop + k - MemoryLength
    BY <2>1, RingArithmetic
  <2>3. q.nextPop = IF m.nextPop + j < MemoryLength THEN m.nextPop + j
                    ELSE m.nextPop + j - MemoryLength
    BY <1>1, <2>0, <2>1
  <2>4. Used(q) = u - j
    BY <1>0, <1>1, <2>0, <2>1, <2>2, <2>3
  <2>5. ASSUME NEW k \in 0 .. u - j - 1 PROVE EntryFor(q, inf, k, n + 1 - (u - j) + k)
    <3>1. k \in 0 .. MemoryLength /\ j + k \in 0 .. MemoryLength /\ j + k \in 0 .. u - 1
      BY <1>0, <1>1
    <3>2. Nth(q, k) = IF q.nextPop + k < MemoryLength THEN q.nextPop + k
                      ELSE q.nextPop + k - MemoryLength
      BY <2>2, <3>1
    <3>3. Nth(m, j + k) = IF m.nextPop + (j + k) < MemoryLength THEN m.nextPop + (j + k)
                          ELSE m.nextPop + (j + k) - MemoryLength
      BY <1>1, <3>1
    <3>4. Nth(q, k) = Nth(m, j + k)
      BY <1>0, <1>1, <2>3, <3>1, <3>2, <3>3
    <3>5. EntryFor(m, inf, j + k, n + 1 - u + (j + k))
      BY <1>2, <3>1
    <3>6. n + 1 - u + (j + k) = n + 1 - (u - j) + k
      BY <1>1
    <3> QED BY <2>1, <3>4, <3>5, <3>6 DEF EntryFor
  <2>6. Used(q) \in Nat /\ n + 1 \in Nat /\ Used(q) < n + 1
    BY <1>1, <1>2, <2>4
  <2>7. \A k \in 0 .. Used(q) - 1 : EntryFor(q, inf, k, n + 1 - Used(q) + k)
    BY <1>1, <2>4, <2>5
  <2>8. Holds(q, inf, n + 1)
    BY <2>6, <2>7 DEF Holds
  <2> QED BY <2>1, <2>8
<1> DEFINE d == u - 1 - f
<1>9. /\ d \in 0 .. MemoryLength - 2 /\ d < n /\ n - d = n + 1 - u + f /\ n - d \in Nat
       /\ d <= TsSpace - 1 /\ f \in 0 .. u /\ f + 1 \in 0 .. u /\ f \in 0 .. MemoryLength
  <2>1. /\ f \in 0 .. u - 1 /\ u \in 0 .. MemoryLength - 1 /\ u <= n /\ n \in Nat
        /\ MemoryLength \in Nat /\ TsSpace \in Nat /\ TsSpace >= MemoryLength
    BY <1>1, <1>2, <1>7, TimestampMapAssumption
  <2> HIDE DEF f, u
  <2> QED BY ONLY <2>1 DEF d
<1> HIDE DEF d
<1>10. CASE t.ts = Stamp(n)
  <2>1. n + 1 - u + f = n
    <3> SUFFICES ASSUME n + 1 - u + f # n PROVE FALSE
      OBVIOUS
    <3>1. d \in 1 .. TsSpace - 1 /\ d <= n /\ n - d = n + 1 - u + f
      <4>1. d # 0 /\ TsSpace \in Nat
        BY <1>9, TimestampMapAssumption
      <4> QED BY <1>9, <4>1
    <3>2. Stamp(n - d) # Stamp(n)
      BY <3>1, StampsDiffer
    <3> QED BY <1>7, <1>10, <3>1, <3>2
  <2>2. p = [map |-> [m EXCEPT !.nextPop = Nth(m, f + 1)], slot |-> t.slot]
    BY <1>5, <1>10 DEF Pop, Found
  <2>3. f + 1 \in 0 .. u /\ Nth(m, f) \in Positions
    <3>1. f \in 0 .. MemoryLength
      BY <1>9
    <3>2. \A k \in 0 .. MemoryLength : Nth(m, k) \in Positions
      BY ONLY <1>1
    <3>3. Nth(m, f) \in Positions
      BY ONLY <3>1, <3>2, Zenon
    <3> QED BY <1>9, <3>3
  <2>4. p.map = [m EXCEPT !.nextPop = Nth(m, f + 1)] /\ p.slot = Nth(m, f)
    BY <1>7, <2>2, SMTT(30)
  <2>5. inf[p.slot] = n
    BY <1>7, <2>1, <2>4
  <2> QED BY <1>8, <2>3, <2>4, <2>5
<1>11. CASE t.ts # Stamp(n)
  <2>1. p = [map |-> [m EXCEPT !.nextPop = Nth(m, f)], slot |-> None]
    BY <1>5, <1>11 DEF Pop, Found
  <2>2. f \in 0 .. u
    BY <1>9
  <2>3. d \in 0 .. MemoryLength - 2 /\ d < n /\ n - d = n + 1 - u + f
    BY <1>9
  <2>4. d # 0
    <3>1. d = 0 => n + 1 - u + f = n
      BY <2>3
    <3> QED BY <1>7, <1>11, <3>1
  <2>5. Stamp(n - d) > Stamp(n)
    <3>1. n - d \in Nat /\ Stamp(n - d) = t.ts
      BY <1>7, <1>9
    <3>2. Stamp(n - d) \in Int /\ Stamp(n) \in Int
      BY <1>4, <3>1
    <3> QED BY <1>7, <1>11, <3>1, <3>2
  <2>6. \E e \in 1 .. MemoryLength - 2 : e < n /\ Stamp(n - e) > Stamp(n)
    BY <1>0, <2>3, <2>4, <2>5
  <2>7. p.map = [m EXCEPT !.nextPop = Nth(m, f)] /\ p.slot = None
    BY <2>1
  <2> QED BY <1>8, <2>2, <2>6, <2>7
<1> QED BY <1>10, <1>11

(***************************************************************************)
(* The decoder                                                              *)
(***************************************************************************)
LEMMA InitInv == Init => Inv
<1> SUFFICES ASSUME Init PROVE Inv
  OBVIOUS
<1> USE DEF Init
<1>1. 0 \in Positions /\ 0 \in 0 .. TsSpace - 1
  BY TimestampMapAssumption DEF Positions
<1>2. map \in Maps
  BY <1>1 DEF EmptyMap, Maps, Tuples
<1>3. Used(map) = 0
  BY <1>2, RingArithmetic DEF EmptyMap
<1>4. Times
  BY <1>2, <1>3 DEF Times, Holds, RenderTimeOfCall, DroppedOnlyAtWrap, EmptyMap
<1>5. TypeOK
  <2>1. IsMap(map)
    BY <1>2 DEF IsMap, Maps, Tuples
  <2>2. buffered \in Seq(Inputs) /\ Len(buffered) = 0 /\ fed \in Seq(Inputs)
    OBVIOUS
  <2>3. infos \in [Positions -> Inputs \cup {0}] /\ nextInfo \in Positions
    BY <1>1
  <2>4. next \in 1 .. MaxInputs + 1 /\ resets \in 0 .. MaxResets
    BY DecoderAssumption
  <2>5. avcodec \subseteq Inputs /\ {shown.picture, shown.call, shown.info} \subseteq Inputs \cup {0}
    OBVIOUS
  <2>6. /\ inited \in BOOLEAN /\ callback \in BOOLEAN /\ freed \in BOOLEAN /\ badWrite \in BOOLEAN
        /\ framecnt \in 0 .. 3 /\ (freed <=> framecnt = 3)
        /\ Len(buffered) = IF framecnt < 2 THEN framecnt ELSE 2
    <3>1. framecnt = 0 /\ freed = FALSE
      OBVIOUS
    <3>2. inited = FALSE /\ callback = FALSE /\ badWrite = FALSE
      OBVIOUS
    <3> HIDE DEF Init
    <3>3. framecnt # 3 /\ framecnt \in 0 .. 3 /\ Len(buffered) = IF framecnt < 2 THEN framecnt ELSE 2
      BY <2>2, <3>1
    <3> QED BY <3>1, <3>2, <3>3, Zenon
  <2> HIDE DEF Init
  <2>7. first \in 0 .. TsSpace - 1
    BY DEF Init
  <2> QED BY <2>1, <2>2, <2>3, <2>4, <2>5, <2>6, <2>7, Zenon DEF TypeOK
<1>6. StartUp
  BY DEF StartUp, StartUpOnce
<1> QED BY <1>4, <1>5, <1>6 DEF Inv

(* What an input does to the map and the infos, whatever avcodec does.      *)
LEMMA InputTimes ==
  ASSUME Inv, TakeInput, NEW packet \in SUBSET (1 .. next),
         \/ (Forget \/ NoPicture) /\ avcodec' = avcodec
         \/ Outcome(packet)
  PROVE  /\ Times'
         /\ next' = next + 1 /\ next \in Nat \ {0} /\ next <= MaxInputs
         /\ infos' \in [Positions -> 1 .. next \cup {0}] /\ nextInfo' \in Positions
         /\ IsMap(map')
         /\ avcodec' \subseteq 1 .. next
         /\ {shown'.picture, shown'.call, shown'.info} \subseteq 0 .. next
         /\ first' = first /\ resets' = resets
<1> USE DEF Inv
<1>1. /\ next \in Nat \ {0} /\ next <= MaxInputs /\ next' = next + 1
      /\ first \in 0 .. TsSpace - 1 /\ first' = first /\ resets' = resets
      /\ map \in Maps /\ nextInfo = map.nextAdd /\ nextInfo \in Positions
      /\ infos' = [infos EXCEPT ![nextInfo] = next]
      /\ nextInfo' = After(nextInfo)
  <2>1. TakeInput /\ MaxInputs \in Nat
    BY DecoderAssumption
  <2>2. next \in 1 .. MaxInputs + 1 /\ first \in 0 .. TsSpace - 1 /\ nextInfo \in Positions
    BY DEF TypeOK
  <2>3. map \in Maps /\ nextInfo = map.nextAdd
    BY DEF Times
  <2>4. next <= MaxInputs /\ next' = next + 1 /\ first' = first /\ resets' = resets
    BY ONLY <2>1 DEF TakeInput
  <2>5. infos' = [infos EXCEPT ![nextInfo] = next] /\ nextInfo' = After(nextInfo)
    BY ONLY <2>1, Zenon DEF TakeInput
  <2> QED BY ONLY <2>1, <2>2, <2>3, <2>4, <2>5
<1>2. infos \in [Positions -> Nat] /\ infos \in [Positions -> 0 .. next - 1]
  <2>1. infos \in [Positions -> Inputs \cup {0}]
    BY Zenon DEF TypeOK
  <2> HIDE DEF Inv
  <2> QED BY <1>1, <2>1 DEF Inputs
<1>3. infos' \in [Positions -> Nat] /\ infos' \in [Positions -> 0 .. next]
  BY <1>1, <1>2
<1>4. /\ Mapped \in Maps /\ Mapped.nextAdd = nextInfo'
      /\ Used(Mapped) > 0 /\ Holds(Mapped, infos', next + 1)
  BY <1>1, <1>2, AddHolds DEF Times, Mapped, Slot
<1> DEFINE p == Pop(Mapped, Stamp(next))
<1>5. /\ p.map \in Maps
      /\ p.map.nextAdd = nextInfo'
      /\ Holds(p.map, infos', next + 1)
      /\ \/ p.slot \in Positions /\ infos'[p.slot] = next
         \/ /\ p.slot = None
            /\ \E d \in 1 .. MemoryLength - 2 : d < next /\ Stamp(next - d) > Stamp(next)
  BY <1>1, <1>3, <1>4, PopHolds
<1>6. /\ map' \in Maps /\ map'.nextAdd = nextInfo' /\ Holds(map', infos', next + 1)
  <2> HIDE DEF Inv
  <2>1. map' = Mapped \/ map' = p.map
    BY DEF Forget, Outcome, NoPicture, Decoded
  <2> QED BY <1>4, <1>5, <2>1
<1>a. avcodec \subseteq 1 .. next - 1 /\ avcodec \cup packet \subseteq 1 .. next
  BY <1>1 DEF TypeOK, Inputs
<1>b. avcodec' \subseteq 1 .. next
  <2> HIDE DEF Inv
  <2> QED BY <1>a DEF Outcome, Left
<1>c. shown' = shown \/ \E one \in 1 .. next : Decoded(one)
  <2> HIDE DEF Inv
  <2> QED BY <1>a DEF Outcome, Forget, NoPicture
<1>7. \/ shown' = shown
      \/ /\ shown'.call = next /\ shown'.picture \in 1 .. next
         /\ \/ shown'.info = next
            \/ /\ shown'.info = 0
               /\ \E d \in 1 .. MemoryLength - 2 : d < next /\ Stamp(next - d) > Stamp(next)
  <2>1. CASE shown' = shown
    BY <2>1
  <2>2. ASSUME NEW one \in 1 .. next, Decoded(one)
        PROVE  /\ shown'.call = next /\ shown'.picture \in 1 .. next
               /\ \/ shown'.info = next
                  \/ /\ shown'.info = 0
                     /\ \E d \in 1 .. MemoryLength - 2 : d < next /\ Stamp(next - d) > Stamp(next)
    <3>1. shown' = [picture |-> one, call |-> next,
                    info |-> IF p.slot = None THEN 0 ELSE infos'[p.slot]]
      BY <2>2 DEF Decoded
    <3>2. \A i \in Positions : i # None
      BY TimestampMapAssumption DEF Positions, None
    <3> HIDE DEF Inv, p
    <3>3. CASE p.slot = None
      BY <1>5, <3>1, <3>2, <3>3
    <3>4. CASE p.slot # None
      BY <1>5, <3>1, <3>4
    <3> QED BY <3>3, <3>4
  <2> QED BY <1>c, <2>1, <2>2
<1>8. \A k \in Nat : Stamp(k)' = Stamp(k)
  BY <1>1 DEF Stamp
<1>9. /\ {shown'.picture, shown'.call, shown'.info} \subseteq 0 .. next
      /\ RenderTimeOfCall' /\ DroppedOnlyAtWrap'
  <2>1. CASE shown' = shown
    <3>1. {shown.picture, shown.call, shown.info} \subseteq 0 .. next - 1
      BY <1>1 DEF TypeOK, Inputs
    <3>2. RenderTimeOfCall /\ DroppedOnlyAtWrap
      BY DEF Times
    <3>3. DroppedOnlyAtWrap'
      BY <1>1, <2>1, <3>2 DEF DroppedOnlyAtWrap, Stamp
    <3> QED BY <1>1, <2>1, <3>1, <3>2, <3>3 DEF RenderTimeOfCall
  <2>2. CASE shown' # shown
    <3>1. RenderTimeOfCall'
      BY <1>1, <1>7, <2>2 DEF RenderTimeOfCall
    <3>2. DroppedOnlyAtWrap'
      BY <1>1, <1>7, <2>2 DEF DroppedOnlyAtWrap, Stamp
    <3> QED BY <1>1, <1>7, <2>2, <3>1, <3>2
  <2> QED BY <2>1, <2>2
<1>10. Holds(map, infos, next)'
  BY <1>1, <1>6 DEF Holds, EntryFor, Stamp, Used, Nth
<1>11. Times'
  BY <1>6, <1>9, <1>10 DEF Times
<1>12. IsMap(map')
  <2> HIDE DEF Inv
  <2> QED BY <1>6 DEF IsMap, Maps, Tuples
<1>13. nextInfo' \in Positions
  BY <1>6 DEF Maps
<1>14. infos' \in [Positions -> 1 .. next \cup {0}]
  BY <1>1, <1>3
<1> QED BY <1>1, <1>b, <1>9, <1>11, <1>12, <1>13, <1>14

(* What an input does to the start-up.                                      *)
LEMMA InputStartUp ==
  ASSUME Inv, Reject \/ Gather \/ FeedBuffer \/ FeedInput, next' = next + 1, next \in Nat \ {0}
  PROVE  /\ StartUp'
         /\ inited' \in BOOLEAN /\ callback' \in BOOLEAN /\ freed' \in BOOLEAN
         /\ badWrite' \in BOOLEAN /\ framecnt' \in 0 .. 3 /\ (freed' <=> framecnt' = 3)
         /\ buffered' \in Seq(1 .. next)
         /\ Len(buffered') = IF framecnt' < 2 THEN framecnt' ELSE 2
         /\ fed' \in Seq(1 .. next)
<1>1. /\ inited \in BOOLEAN /\ callback \in BOOLEAN /\ freed \in BOOLEAN /\ badWrite = FALSE
      /\ framecnt \in 0 .. 3 /\ (freed <=> framecnt = 3)
      /\ buffered \in Seq(1 .. next - 1) /\ fed \in Seq(1 .. next - 1)
      /\ Len(buffered) = IF framecnt < 2 THEN framecnt ELSE 2
      /\ framecnt < 3 => fed = <<>>
      /\ \A i, j \in DOMAIN buffered : i < j => buffered[i] < buffered[j]
      /\ \A i, j \in DOMAIN fed : i < j => fed[i] < fed[j]
  BY DEF Inv, TypeOK, StartUp, StartUpOnce, Inputs
<1>2. buffered \in Seq(1 .. next) /\ fed \in Seq(1 .. next)
  BY <1>1
<1> DEFINE more(s) == Append(s, next)
<1>3. ASSUME NEW s \in Seq(1 .. next - 1), \A i, j \in DOMAIN s : i < j => s[i] < s[j]
      PROVE  /\ Append(s, next) \in Seq(1 .. next) /\ Len(Append(s, next)) = Len(s) + 1
             /\ \A i, j \in DOMAIN Append(s, next) : i < j => Append(s, next)[i] < Append(s, next)[j]
  <2>1. s \in Seq(1 .. next)
    OBVIOUS
  <2> QED BY <1>3, <2>1
<1>4. CASE Reject
  <2>1. UNCHANGED <<inited, callback, framecnt, buffered, freed, badWrite, fed>>
    BY <1>4 DEF Reject, plugin
  <2> QED BY <1>1, <1>2, <2>1 DEF StartUp, StartUpOnce
<1>5. CASE FeedInput
  <2>1. /\ UNCHANGED <<inited, callback, framecnt, buffered, freed, badWrite>>
        /\ fed' = Append(fed, next) /\ framecnt = 3
    BY <1>1, <1>5 DEF FeedInput, plugin
  <2>2. /\ fed' \in Seq(1 .. next)
        /\ \A i, j \in DOMAIN fed' : i < j => fed'[i] < fed'[j]
    BY <1>1, <1>3, <2>1
  <2>3. badWrite' = FALSE /\ framecnt' = 3 /\ buffered' = buffered
    BY <1>1, <2>1
  <2>4. StartUp'
    BY <1>1, <2>2, <2>3 DEF StartUp, StartUpOnce
  <2> QED BY <1>1, <1>2, <2>1, <2>2, <2>4
<1>6. CASE Gather
  <2>1. /\ UNCHANGED <<inited, callback, freed, fed>>
        /\ buffered' = Append(buffered, next) /\ framecnt' = framecnt + 1
        /\ framecnt < 2 /\ (badWrite' <=> badWrite \/ freed)
    BY <1>6 DEF Gather
  <2>2. badWrite' \in BOOLEAN
    BY <1>1, <1>6 DEF Gather
  <2>3. /\ buffered' \in Seq(1 .. next) /\ Len(buffered') = Len(buffered) + 1
        /\ \A i, j \in DOMAIN buffered' : i < j => buffered'[i] < buffered'[j]
    BY <1>1, <1>3, <2>1
  <2>4. ~badWrite' /\ framecnt' \in 0 .. 2 /\ ~freed'
    BY <1>1, <2>1
  <2> QED BY <1>1, <1>2, <2>1, <2>2, <2>3, <2>4 DEF StartUp, StartUpOnce
<1>7. CASE FeedBuffer
  <2>1. /\ UNCHANGED <<inited, callback, buffered, badWrite>>
        /\ fed' = fed \o buffered /\ framecnt' = 3 /\ framecnt = 2 /\ freed' = TRUE
    BY <1>7 DEF FeedBuffer
  <2>2. fed' = buffered
    <3>1. fed = <<>> /\ buffered \in Seq(1 .. next - 1)
      BY <1>1, <2>1
    <3>2. <<>> \o buffered = buffered
      BY <3>1, ConcatEmptySeq
    <3> QED BY <2>1, <3>1, <3>2
  <2>3. badWrite' = FALSE /\ buffered' = buffered
    BY <1>1, <2>1
  <2>4. StartUp'
    BY <1>1, <2>1, <2>2, <2>3 DEF StartUp, StartUpOnce
  <2>5. /\ freed' \in BOOLEAN /\ badWrite' \in BOOLEAN /\ framecnt' \in 0 .. 3
        /\ (freed' <=> framecnt' = 3) /\ Len(buffered') = 2
    <3>1. framecnt' \in 0 .. 3 /\ Len(buffered') = 2
      BY <1>1, <2>1
    <3> QED BY <2>1, <2>3, <3>1, Zenon
  <2> QED BY <1>1, <1>2, <2>1, <2>2, <2>3, <2>4, <2>5
<1> QED BY <1>4, <1>5, <1>6, <1>7

LEMMA StepInv == Inv /\ [Next]_vars => Inv'
<1> SUFFICES ASSUME Inv, [Next]_vars PROVE Inv'
  OBVIOUS
<1>1. CASE Reject \/ Gather \/ FeedBuffer \/ FeedInput
  <2>a. Range(buffered) \subseteq 1 .. next /\ next \in Nat \ {0}
    BY DEF Inv, TypeOK, Inputs, Range
  <2>1. /\ TakeInput
        /\ \E packet \in SUBSET (1 .. next) :
             \/ (Forget \/ NoPicture) /\ avcodec' = avcodec
             \/ Outcome(packet)
    <3>1. CASE Reject
      BY <3>1 DEF Reject
    <3>2. CASE Gather
      BY <3>2 DEF Gather
    <3>3. CASE FeedBuffer
      BY <2>a, <3>3 DEF FeedBuffer
    <3>4. CASE FeedInput
      BY <2>a, <3>4 DEF FeedInput
    <3> QED BY <1>1, <3>1, <3>2, <3>3, <3>4
  <2>2. /\ Times'
        /\ next' = next + 1 /\ next \in Nat \ {0} /\ next <= MaxInputs
        /\ infos' \in [Positions -> 1 .. next \cup {0}] /\ nextInfo' \in Positions
        /\ IsMap(map')
        /\ avcodec' \subseteq 1 .. next
        /\ {shown'.picture, shown'.call, shown'.info} \subseteq 0 .. next
        /\ first' = first /\ resets' = resets
    BY <2>1, InputTimes
  <2>3. /\ StartUp'
        /\ inited' \in BOOLEAN /\ callback' \in BOOLEAN /\ freed' \in BOOLEAN
        /\ badWrite' \in BOOLEAN /\ framecnt' \in 0 .. 3 /\ (freed' <=> framecnt' = 3)
        /\ buffered' \in Seq(1 .. next)
        /\ Len(buffered') = IF framecnt' < 2 THEN framecnt' ELSE 2
        /\ fed' \in Seq(1 .. next)
    BY <1>1, <2>2, InputStartUp
  <2>4. Inputs' = 1 .. next
    BY <2>2 DEF Inputs
  <2>5. next' \in 1 .. MaxInputs + 1
    BY <2>2, DecoderAssumption
  <2>6. first \in 0 .. TsSpace - 1 /\ resets \in 0 .. MaxResets
    BY DEF Inv, TypeOK
  <2>7. TypeOK'
    <3>1. IsMap(map)'
      BY <2>2 DEF IsMap
    <3>2. /\ avcodec' \subseteq Inputs'
          /\ {shown'.picture, shown'.call, shown'.info} \subseteq Inputs' \cup {0}
      BY <2>2, <2>4
    <3> QED BY <2>2, <2>3, <2>4, <2>5, <2>6, <3>1, <3>2, Zenon DEF TypeOK
  <2> QED BY <2>2, <2>3, <2>7 DEF Inv
<1>2. ASSUME UNCHANGED <<framecnt, buffered, freed, badWrite, times, first, next, fed, shown>>,
             avcodec' \subseteq avcodec, inited' \in BOOLEAN, callback' \in BOOLEAN, resets' \in 0 .. MaxResets
      PROVE  Inv'
  <2>1. UNCHANGED <<framecnt, buffered, freed, badWrite, infos, nextInfo, map, first, next, fed,
                    shown>>
    BY <1>2 DEF times
  <2>2. TypeOK'
    BY <1>2, <2>1 DEF Inv, TypeOK, Inputs, IsMap
  <2>3. StartUp'
    BY <2>1 DEF Inv, StartUp, StartUpOnce
  <2>4. Times'
    BY <2>1 DEF Inv, Times, Holds, EntryFor, Stamp, Used, Nth, RenderTimeOfCall, DroppedOnlyAtWrap
  <2> QED BY <2>2, <2>3, <2>4 DEF Inv
<1>3. /\ inited \in BOOLEAN /\ callback \in BOOLEAN /\ resets \in 0 .. MaxResets
  BY DEF Inv, TypeOK
<1>4. CASE InitDecode \/ InitDecodeFails \/ Reset
  <2>1. resets' = resets + 1 /\ resets < MaxResets /\ inited' \in BOOLEAN /\ callback' = callback
        /\ avcodec' = {}
        /\ UNCHANGED <<framecnt, buffered, freed, badWrite, times, first, next, fed, shown>>
    BY <1>4 DEF InitDecode, InitDecodeFails, Reset
  <2>2. resets' \in 0 .. MaxResets
    BY <1>3, <2>1, DecoderAssumption
  <2> QED BY <1>2, <1>3, <2>1, <2>2
<1>5. CASE Release
  BY <1>2, <1>3, <1>5 DEF Release
<1>6. ASSUME NEW set \in BOOLEAN, RegisterDecodeCompleteCallback(set) PROVE Inv'
  BY <1>2, <1>3, <1>6 DEF RegisterDecodeCompleteCallback
<1>7. CASE UNCHANGED vars
  BY <1>2, <1>3, <1>7 DEF vars, plugin
<1> QED BY <1>1, <1>4, <1>5, <1>6, <1>7 DEF Next

(* The buffer of the first inputs goes to avcodec once and is not written   *)
(* after it was freed, and avcodec gets the inputs in order (Decode).       *)
THEOREM StartsUpOnce == Spec => []StartUpOnce
<1>1. Inv => StartUpOnce
  BY DEF Inv, StartUp
<1> QED BY InitInv, StepInv, <1>1, PTL DEF Spec

(* The times a picture goes out with are those of the call that gave it,    *)
(* which is not before the call its own input came with (Decode, Decoded).  *)
THEOREM ShowsTimeOfCall == Spec => []RenderTimeOfCall
<1>1. Inv => RenderTimeOfCall
  BY DEF Inv, Times
<1> QED BY InitInv, StepInv, <1>1, PTL DEF Spec

(* A picture is dropped for want of its info only after timestamps wrapped  *)
(* (Pop, Decoded).                                                          *)
THEOREM DropsOnlyAtWrap == Spec => []DroppedOnlyAtWrap
<1>1. Inv => DroppedOnlyAtWrap
  BY DEF Inv, Times
<1> QED BY InitInv, StepInv, <1>1, PTL DEF Spec

(* The decoder's types, and the count of its start-up.                      *)
THEOREM TypeCorrect == Spec => []TypeOK
<1>1. Inv => TypeOK
  BY DEF Inv
<1> QED BY InitInv, StepInv, <1>1, PTL DEF Spec
=============================================================================
