---------------------------- MODULE MCRingQueue -----------------------------
(* The instance of RingQueue that TLC checks. *)
EXTENDS RingQueue
=============================================================================
