----------------------------- MODULE MCMemPool ------------------------------
(* Model-checking instances of MemPool. *)
EXTENDS MemPool

CONSTANTS b1, b2, b3

ThreeBuffers == <<b1, b2, b3>>
=============================================================================
