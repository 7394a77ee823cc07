----------------------------- MODULE H264Encoder -----------------------------
(***************************************************************************)
(* H264EncoderImpl (h264_impl.cc) in the build with USEX264: the plug-in    *)
(* between the video coding module, which calls it under its own lock, and  *)
(* x264, which takes pictures in and gives encoded ones out later.          *)
(*                                                                          *)
(* A picture is its number, and so are the bytes x264 makes of it.  Sizes,  *)
(* rates and frame types are left out: codec_ is not looked at again.       *)
(***************************************************************************)
EXTENDS Integers, Sequences

CONSTANTS
  Delay,          \* pictures x264 holds back before the first comes out
  Failures,       \* what may fail in x264: "open", "encode"
  MaxPictures,    \* bound on the pictures given to Encode
  MaxInits        \* bound on the calls of InitEncode

ASSUME EncoderAssumption ==
  /\ Delay \in Nat /\ MaxPictures \in Nat /\ MaxInits \in Nat
  /\ Failures \subseteq {"open", "encode"}

VARIABLES
  encoderInited,  \* inited_
  encodeCallback, \* encoded_complete_callback_ is set
  x264,           \* encoder_, with the pictures x264 holds
  image,          \* the picture whose bytes encoded_image_ has, as far as _length says
  picture,        \* number of the next picture
  inits,          \* number of calls of InitEncode
  out,            \* images given to the callback
  gone,           \* pictures lost in a handle that was closed
  broken          \* x264 was called with a handle that is not open

encoderVars == <<encoderInited, encodeCallback, x264, image, picture, inits, out, gone, broken>>

Closed == [open |-> FALSE, pending |-> <<>>]
Open == [open |-> TRUE, pending |-> <<>>]

Nothing == 0
Garbage == -1

Pending == {x264.pending[i] : i \in DOMAIN x264.pending}

\* Closing the handle drops the pictures it still holds.
Close == x264' = Closed /\ gone' = gone \union Pending

\* The buffer goes or is replaced; its length stays.
LoseBytes == image' = IF image = Nothing THEN Nothing ELSE Garbage

ReleaseEncoder ==
  /\ Close
  /\ LoseBytes
  /\ encoderInited' = FALSE
  /\ UNCHANGED <<encodeCallback, picture, inits, out, broken>>

InitEncode ==
  /\ inits < MaxInits /\ inits' = inits + 1
  /\ x264' = Open
  /\ gone' = gone \union Pending
  /\ LoseBytes
  /\ encoderInited' = TRUE
  /\ UNCHANGED <<encodeCallback, picture, out, broken>>

\* x264 refuses to open: the failure path closes the handle it did not get.
InitEncodeFails ==
  /\ "open" \in Failures
  /\ inits < MaxInits /\ inits' = inits + 1
  /\ Close
  /\ LoseBytes
  /\ encoderInited' = FALSE
  /\ broken' = TRUE
  /\ UNCHANGED <<encodeCallback, picture, out>>

RegisterEncodeCompleteCallback(set) ==
  /\ encodeCallback' = set
  /\ UNCHANGED <<encoderInited, x264, image, picture, inits, out, gone, broken>>

(***************************************************************************)
(* Encode                                                                   *)
(***************************************************************************)
TakePicture ==
  /\ encoderInited /\ encodeCallback
  /\ picture <= MaxPictures
  /\ picture' = picture + 1

Without(s, i) == SubSeq(s, 1, i - 1) \o SubSeq(s, i + 1, Len(s))

\* What the callback gets, with the time of the picture just given.
Delivery(bytes, parts) == [bytes |-> bytes, stamp |-> picture, parts |-> parts]

\* Mutant: the fragments of the last image are kept with its bytes.
EncodeGivesNothing_KeepsFragments ==
  /\ TakePicture /\ x264.open
  /\ Len(x264.pending) < Delay
  /\ x264' = [x264 EXCEPT !.pending = Append(@, picture)]
  /\ out' = IF image = Nothing THEN out ELSE Append(out, Delivery(image, TRUE))
  /\ UNCHANGED <<encoderInited, encodeCallback, image, inits, gone, broken>>

\* x264 returns no bytes yet, and what the image held is delivered again.
EncodeGivesNothing ==
  /\ TakePicture /\ x264.open
  /\ Len(x264.pending) < Delay
  /\ x264' = [x264 EXCEPT !.pending = Append(@, picture)]
  /\ out' = IF image = Nothing THEN out ELSE Append(out, Delivery(image, FALSE))
  /\ UNCHANGED <<encoderInited, encodeCallback, image, inits, gone, broken>>

\* Mutant: the image is delivered before the new bytes are copied.
EncodeGivesPicture_BeforeCopy ==
  /\ TakePicture /\ x264.open
  /\ LET held == Append(x264.pending, picture)
     IN  \E i \in DOMAIN held :
           /\ x264' = [x264 EXCEPT !.pending = Without(held, i)]
           /\ image' = held[i]
           /\ out' = Append(out, Delivery(image, TRUE))
  /\ UNCHANGED <<encoderInited, encodeCallback, inits, gone, broken>>

\* x264 returns one of the pictures it holds, in its own order.
EncodeGivesPicture ==
  /\ TakePicture /\ x264.open
  /\ LET held == Append(x264.pending, picture)
     IN  \E i \in DOMAIN held :
           /\ x264' = [x264 EXCEPT !.pending = Without(held, i)]
           /\ image' = held[i]
           /\ out' = Append(out, Delivery(held[i], TRUE))
  /\ UNCHANGED <<encoderInited, encodeCallback, inits, gone, broken>>

\* The handle is closed, but the encoder still counts as initialised.
EncodeFails ==
  /\ "encode" \in Failures
  /\ TakePicture /\ x264.open
  /\ x264' = Closed
  /\ gone' = gone \union Pending \union {picture}
  /\ UNCHANGED <<encoderInited, encodeCallback, image, inits, out, broken>>

\* The next call hands x264 the handle that is not there.
EncodeOnClosed ==
  /\ TakePicture /\ ~x264.open
  /\ gone' = gone \union {picture}
  /\ broken' = TRUE
  /\ UNCHANGED <<encoderInited, encodeCallback, x264, image, inits, out>>

EncoderInit ==
  /\ encoderInited = FALSE /\ encodeCallback = FALSE
  /\ x264 = Closed
  /\ image = Nothing
  /\ picture = 1 /\ inits = 0
  /\ out = <<>> /\ gone = {}
  /\ broken = FALSE

\* What a call of x264 without a handle does is not defined: nothing follows.
EncoderNext ==
  /\ ~broken
  /\ \/ InitEncode \/ InitEncodeFails
     \/ ReleaseEncoder
     \/ \E set \in BOOLEAN : RegisterEncodeCompleteCallback(set)
     \/ EncodeGivesNothing \/ EncodeGivesPicture
     \/ EncodeFails \/ EncodeOnClosed

EncoderSpec == EncoderInit /\ [][EncoderNext]_encoderVars
=============================================================================
