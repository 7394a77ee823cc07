--------------------------- MODULE H264EncoderProps ---------------------------
(***************************************************************************)
(* What must hold of the H.264 encoder, and what its header promises.       *)
(***************************************************************************)
EXTENDS H264Encoder

Bytes == {Garbage} \union 1 .. MaxPictures

(* Types; the encoder counts as initialised whenever x264 has a handle.     *)
EncoderTypeOK ==
  /\ encoderInited \in BOOLEAN /\ encodeCallback \in BOOLEAN /\ broken \in BOOLEAN
  /\ x264.open => encoderInited
  /\ x264.pending \in Seq(1 .. MaxPictures) /\ Len(x264.pending) <= Delay
  /\ image \in Bytes \union {Nothing}
  /\ picture \in 1 .. MaxPictures + 1 /\ inits \in 0 .. MaxInits
  /\ gone \subseteq 1 .. MaxPictures
  /\ out \in Seq([bytes : Bytes, stamp : 1 .. MaxPictures, parts : BOOLEAN])

(* Every picture that Encode accepted comes out in the end: x264 still holds*)
(* it, its bytes were delivered, or it went with a handle that was closed.  *)
NoPictureLost ==
  \A n \in 1 .. picture - 1 :
    \/ n \in Pending \union gone
    \/ \E i \in DOMAIN out : out[i].bytes = n

(* The bytes of a picture reach the packetiser with fragments once: the     *)
(* images that are delivered again while x264 has nothing to give carry no  *)
(* fragments, so that SendH264 sends nothing of them (Encode).              *)
FragmentsOnce ==
  \A i, j \in DOMAIN out :
    out[i].parts /\ out[j].parts /\ out[i].bytes = out[j].bytes => i = j

(* "The encoded image will be returned to the user through the encode       *)
(* complete callback" (h264_impl.h, Encode): what is delivered with the time*)
(* of a picture is the encoding of that picture.                            *)
DeliversTheInput == \A i \in DOMAIN out : out[i].bytes = out[i].stamp
=============================================================================
