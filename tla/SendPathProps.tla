----------------------------- MODULE SendPathProps -----------------------------
(***************************************************************************)
(* What must hold of the send path.                                         *)
(***************************************************************************)
EXTENDS SendPath

(* Types; the buffer of the process thread is in use only in a callback,    *)
(* and the history never loses its size.                                    *)
TypeOK ==
  /\ lists \in [Pacer!Priorities -> Seq(Numbers)]
  /\ busy.at \in {"idle", "sending", "padding"}
  /\ hist.store /\ hist.size = HistSize /\ hist.prev \in 0 .. HistSize - 1
  /\ hist.ring \in [0 .. HistSize - 1 -> Slot]
  /\ marker \in BOOLEAN
  /\ kinds \in Seq(Kinds)
  /\ enc.at \in {"ready", "built", "stored"} /\ enc.n \in 0 .. Len(kinds)
  /\ nack \in 0 .. Len(kinds)
  /\ held \in 0 .. Len(kinds) /\ (held # NoPacket => busy.at # "idle")
  /\ now \in StartTime .. MaxTime
  /\ originals \in Seq(1 .. Len(kinds))
  /\ granted \in [Numbers -> Nat] /\ resent \in [Numbers -> Nat]

Media(n) == kinds[n] # "padding"
Taken == 1 .. Len(kinds)

\* The packets put into the history, and how many came after one of them.
Kept == {n \in Taken : Media(n) /\ enc # Built(n)}
Later(n) == Cardinality({k \in Kept : k > n})

(* The number of a padding packet follows a last packet, an FEC packet or   *)
(* padding: padding never splits the numbers of one frame, whatever the     *)
(* encoder and process threads do between reading the marker and taking the *)
(* number (SendPadData, BuildRTPheader).                                    *)
PaddingOutsideFrames ==
  \A n \in Taken : kinds[n] = "padding" => n > 1 /\ kinds[n - 1] # "media"

(* Media and FEC packets leave for the first time in the order of their     *)
(* numbers, each at most once, also over failed sends, retransmissions of   *)
(* packets still queued, and packets the history lost in the meantime.      *)
OriginalsInOrder ==
  \A i, j \in DOMAIN originals :
    i < j /\ Media(originals[i]) /\ Media(originals[j]) => originals[i] < originals[j]

(* A packet that was handed to the pacer is waiting there, was sent, or was *)
(* overwritten in the history by as many later packets as it stores: the    *)
(* pacer, which holds numbers only, loses nothing else (TimeToSendPacket    *)
(* reports a packet it cannot find as sent).                                *)
LostOnlyWhenBehind ==
  \A n \in Taken :
    \/ ~Media(n)
    \/ n = enc.n /\ enc.at # "ready"
    \/ \E i \in DOMAIN originals : originals[i] = n
    \/ Pacer!In(n, lists["Normal"])
    \/ Later(n) >= HistSize

(* A packet is retransmitted at most as often as a request for it was       *)
(* granted, although the pacer tries again after each failed send.          *)
ResentOnRequest == \A n \in Numbers : resent[n] <= granted[n]
=============================================================================
