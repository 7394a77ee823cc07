---------------------------- MODULE MCPacedSender ----------------------------
(* The pacer with few packets and an interval of one or two units of time.   *)
EXTENDS PacedSenderProps
=============================================================================
