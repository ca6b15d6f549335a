---------------------------- MODULE MCTnsSession ----------------------------
(* Model-checking instances of TnsSession. *)
EXTENDS TnsSession, TLC

\* Clients are interchangeable; no run with this set checks liveness.
ClientSymmetry == Permutations(Clients)
=============================================================================
