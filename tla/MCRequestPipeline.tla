------------------------- MODULE MCRequestPipeline -------------------------
(* RequestPipeline for TLC. *)
EXTENDS RequestPipeline, TLC

\* Requests are interchangeable: none of the decisions orders them.
Symmetry == Permutations(Requests)
=============================================================================
