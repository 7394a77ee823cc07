----------------------------- MODULE MCH264Encoder -----------------------------
(* The encoder with a few pictures and x264 holding none, one or two back.   *)
EXTENDS H264EncoderProps
=============================================================================
