------------------------------ MODULE MCSendPath ------------------------------
(* The send path with a few packets and a history smaller than their number. *)
EXTENDS SendPathProps
=============================================================================
