-------------------------------- MODULE MCRWLock --------------------------------
(* The reader-writer lock with two readers and two writers.               *)
EXTENDS RWLockProps
=============================================================================
