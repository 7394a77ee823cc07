-------------------------- MODULE MCPacedSenderBurst --------------------------
(* The pacer beside a leaky bucket.                                          *)
EXTENDS PacedSenderBurst
=============================================================================
