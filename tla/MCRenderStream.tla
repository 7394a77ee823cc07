---------------------------- MODULE MCRenderStream ----------------------------
(* The render stream with a few frames and a stream that is restarted once.  *)
EXTENDS RenderStreamProps
=============================================================================
