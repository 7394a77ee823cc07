---------------------------- MODULE MCProcessThread ----------------------------
(* The process thread over a Stop and the next Start, with modules that are   *)
(* due before and after the longest wait.                                     *)
EXTENDS ProcessThreadProps
=============================================================================
