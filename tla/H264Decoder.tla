----------------------------- MODULE H264Decoder -----------------------------
(***************************************************************************)
(* H264DecoderImpl (h264_impl.cc) in the build with USEX264, where avcodec  *)
(* decodes, as VCMGenericDecoder and VCMDecodedFrameCallback drive it       *)
(* (generic_decoder.cc).  The first two inputs are gathered in a buffer and *)
(* given to avcodec together when the third arrives; from then on each input*)
(* is given to it alone.  The generic decoder keeps the render time of an   *)
(* input in a ring of frame infos, where the timestamp finds it.  avcodec   *)
(* holds pictures back, as the stream has B-frames: the picture that a call *)
(* gives need not be of the call's input, though it gets its timestamp.     *)
(* The video coding module makes the calls under its lock.  An input is its *)
(* number; timestamps go up by one and wrap.                                *)
(***************************************************************************)
EXTENDS TimestampMap, Functions, Sequences

CONSTANTS
  MaxInputs,      \* bound on the inputs
  MaxResets,      \* bound on the calls of InitDecode and Reset
  MaxDelay        \* bound on the pictures avcodec holds back

ASSUME DecoderAssumption == {MaxInputs, MaxResets, MaxDelay} \subseteq Nat

VARIABLES
  inited,    \* inited_
  callback,  \* decode_complete_callback_ is set
  framecnt,  \* framecnt
  buffered,  \* inputs in the first encoded_length bytes of decode_buffer
  freed,     \* decode_buffer has been given back
  first,     \* timestamp of the first input
  next,      \* number of the next input
  resets,    \* number of calls of InitDecode
  infos,     \* _frameInfos: the input whose times each slot has, or 0
  nextInfo,  \* _nextFrameInfoIdx
  map,       \* _timestampMap
  fed,       \* inputs given to avcodec, in order
  avcodec,   \* inputs it has whose picture it may still give
  shown,     \* the last picture: of input picture, given in the call with input call, with the
             \* times of input info, 0 if it was dropped
  badWrite   \* decode_buffer was written after it was freed

plugin == <<inited, callback, framecnt, buffered, freed, badWrite>>
times  == <<infos, nextInfo, map>>
vars == <<plugin, avcodec, times, first, next, resets, fed, shown>>

Stamp(n) == (first + n - 1) % TsSpace

(***************************************************************************)
(* The life of the decoder                                                  *)
(***************************************************************************)
\* Mutant: the count and the buffer of the start-up restart as well.
InitDecode_RestartsCount ==
  /\ resets < MaxResets /\ resets' = resets + 1
  /\ inited' = TRUE /\ avcodec' = {}
  /\ framecnt' = 0 /\ buffered' = <<>>
  /\ UNCHANGED <<callback, freed, badWrite, times, first, next, fed, shown>>

\* A new avcodec context; the start-up buffer and its count stay, and so do the frame infos.
InitDecode ==
  /\ resets < MaxResets /\ resets' = resets + 1
  /\ inited' = TRUE /\ avcodec' = {}
  /\ UNCHANGED <<callback, framecnt, buffered, freed, badWrite, times, first, next, fed, shown>>

InitDecodeFails ==
  /\ resets < MaxResets /\ resets' = resets + 1
  /\ inited' = FALSE /\ avcodec' = {}
  /\ UNCHANGED <<callback, framecnt, buffered, freed, badWrite, times, first, next, fed, shown>>

\* Reset reports success also when InitDecode failed.
Reset == inited /\ (InitDecode \/ InitDecodeFails)

Release ==
  /\ inited' = FALSE /\ avcodec' = {}
  /\ UNCHANGED <<callback, framecnt, buffered, freed, badWrite, times, first, next, resets, fed, shown>>

RegisterDecodeCompleteCallback(set) ==
  /\ callback' = set
  /\ UNCHANGED <<inited, framecnt, buffered, freed, badWrite, avcodec, times, first, next, resets,
                 fed, shown>>

(***************************************************************************)
(* VCMGenericDecoder::Decode around H264DecoderImpl::Decode                 *)
(***************************************************************************)
\* Mutant: the slot is chosen after it was moved on.
Slot_MovedOn == After(nextInfo)

Slot == nextInfo

\* Decode notes the times of the input before the decoder gets it.
TakeInput ==
  /\ next <= MaxInputs /\ next' = next + 1
  /\ infos' = [infos EXCEPT ![nextInfo] = next]
  /\ nextInfo' = After(nextInfo)
  /\ UNCHANGED <<first, resets>>

Mapped == Add(map, Stamp(next), Slot)

\* The decoder returned less than WEBRTC_VIDEO_CODEC_OK.
Forget == map' = Pop(Mapped, Stamp(next)).map /\ UNCHANGED shown

\* WEBRTC_VIDEO_CODEC_OK without a picture: the entry stays.
NoPicture == map' = Mapped /\ UNCHANGED shown

\* VCMDecodedFrameCallback::Decoded, called inside Decode with the timestamp of the call's
\* input, whichever input the picture is of.
Decoded(picture) ==
  LET popped == Pop(Mapped, Stamp(next))
  IN  /\ map' = popped.map
      /\ shown' = [picture |-> picture, call |-> next,
                    info |-> IF popped.slot = None THEN 0 ELSE infos'[popped.slot]]

\* What may be left to avcodec of the inputs it has: it may lose any.
Left(has) == {left \in SUBSET has : Cardinality(left) <= MaxDelay}

\* avcodec may fail, give no picture yet, or one of the inputs it has.
Outcome(packet) ==
  LET has == avcodec \cup packet
  IN  \/ (Forget \/ NoPicture) /\ avcodec' \in Left(has)
      \/ \E picture \in has : Decoded(picture) /\ avcodec' \in Left(has \ {picture})

\* WEBRTC_VIDEO_CODEC_UNINITIALIZED
Reject ==
  /\ TakeInput
  /\ ~(inited /\ callback)
  /\ Forget
  /\ UNCHANGED <<plugin, avcodec, fed>>

Gather ==
  /\ TakeInput
  /\ inited /\ callback /\ framecnt < 2
  /\ buffered' = Append(buffered, next)
  /\ framecnt' = framecnt + 1
  /\ badWrite' = (badWrite \/ freed)
  /\ NoPicture
  /\ UNCHANGED <<inited, callback, freed, avcodec, fed>>

\* Mutant: the buffer is given to avcodec again with the next input.
FeedBuffer_KeepsCount ==
  /\ TakeInput
  /\ inited /\ callback /\ framecnt = 2
  /\ fed' = fed \o buffered
  /\ freed' = TRUE
  /\ Outcome(Range(buffered))
  /\ UNCHANGED <<inited, callback, framecnt, buffered, badWrite>>

\* The input that ends the start-up is not in the packet, nor kept.
FeedBuffer ==
  /\ TakeInput
  /\ inited /\ callback /\ framecnt = 2
  /\ fed' = fed \o buffered
  /\ freed' = TRUE
  /\ framecnt' = 3
  /\ Outcome(Range(buffered))
  /\ UNCHANGED <<inited, callback, buffered, badWrite>>

FeedInput ==
  /\ TakeInput
  /\ inited /\ callback /\ framecnt > 2
  /\ fed' = Append(fed, next)
  /\ Outcome({next})
  /\ UNCHANGED plugin

Init ==
  /\ inited = FALSE /\ callback = FALSE
  /\ framecnt = 0 /\ buffered = <<>> /\ freed = FALSE /\ badWrite = FALSE
  /\ first \in 0 .. TsSpace - 1 /\ next = 1 /\ resets = 0
  /\ infos = [i \in Positions |-> 0] /\ nextInfo = 0 /\ map = EmptyMap
  /\ fed = <<>> /\ avcodec = {} /\ shown = [picture |-> 0, call |-> 0, info |-> 0]

Next ==
  \/ InitDecode \/ InitDecodeFails
  \/ Reset
  \/ Release
  \/ \E set \in BOOLEAN : RegisterDecodeCompleteCallback(set)
  \/ Reject \/ Gather \/ FeedBuffer \/ FeedInput

Spec == Init /\ [][Next]_vars
=============================================================================
