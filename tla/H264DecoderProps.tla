--------------------------- MODULE H264DecoderProps ---------------------------
(***************************************************************************)
(* What must hold of the H.264 decoder and of the times of its pictures.    *)
(***************************************************************************)
EXTENDS H264Decoder

Inputs == 1 .. next - 1

IsMap(m) ==
  /\ m.nextAdd \in Positions /\ m.nextPop \in Positions
  /\ \A i \in Positions : m.tuple[i].ts \in 0 .. TsSpace - 1 /\ m.tuple[i].slot \in Positions

(* Types; the count of the start-up is the number of inputs gathered,       *)
(* and the buffer is freed exactly when it is over.                         *)
TypeOK ==
  /\ inited \in BOOLEAN /\ callback \in BOOLEAN
  /\ freed \in BOOLEAN /\ badWrite \in BOOLEAN
  /\ framecnt \in 0 .. 3 /\ (freed <=> framecnt = 3)
  /\ buffered \in Seq(Inputs) /\ Len(buffered) = IF framecnt < 2 THEN framecnt ELSE 2
  /\ first \in 0 .. TsSpace - 1 /\ next \in 1 .. MaxInputs + 1
  /\ resets \in 0 .. MaxResets
  /\ infos \in [Positions -> Inputs \cup {0}] /\ nextInfo \in Positions /\ IsMap(map)
  /\ fed \in Seq(Inputs)
  /\ avcodec \subseteq Inputs
  /\ {shown.picture, shown.call, shown.info} \subseteq Inputs \cup {0}

(* avcodec gets the inputs in order and each at most once, and the start-up*)
(* buffer, freed when it was given to avcodec, is not written any more: also*)
(* when a decoder is initialised again during its start-up or later nothing *)
(* brings the count back below two (Decode, InitDecode).                    *)
StartUpOnce ==
  /\ \A i, j \in DOMAIN fed : i < j => fed[i] < fed[j]
  /\ ~badWrite

(* The times a picture goes out with are those noted in the very call of   *)
(* Decode that gave it, however many calls before gave none: the ring of    *)
(* infos keeps what the map still leads to (VCMGenericDecoder::Decode,      *)
(* Decoded).  The picture may be of an earlier input; of a later one, to be *)
(* shown before its time, it is not.                                        *)
RenderTimeOfCall ==
  shown.info # 0 => shown.info = shown.call /\ shown.picture <= shown.info

(* A picture is dropped as "too many frames backed up" only when timestamps *)
(* wrapped within the last MemoryLength - 2 inputs before it.               *)
DroppedOnlyAtWrap ==
  shown.call # 0 /\ shown.info = 0 =>
    \E n \in 1 .. MemoryLength - 2 :
      n < shown.call /\ Stamp(shown.call - n) > Stamp(shown.call)
=============================================================================
