---------------------------- MODULE MCListQueue -----------------------------
(* The instance of ListQueue that TLC checks. *)
EXTENDS ListQueue
=============================================================================
