--------------------------- MODULE MCPacketHistory ---------------------------
(* The packet history on rings of one and two slots and a number space that *)
(* the stream goes round more than once.                                     *)
EXTENDS PacketHistoryProps
=============================================================================
