----------------------------- MODULE MCPipeline -----------------------------
(* Model-checking instances of Pipeline. *)
EXTENDS Pipeline, TLC

\* Buffers are interchangeable; used by the run without liveness only.
BufferSymmetry == Permutations(Buffers)
=============================================================================
