----------------------------- MODULE MCH264Decoder -----------------------------
(* The decoder from its first input to well past its start-up.  The ring of   *)
(* infos and the map go round, and the timestamps wrap once, at any input.    *)
EXTENDS H264DecoderProps
=============================================================================
