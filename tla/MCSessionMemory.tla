-------------------------- MODULE MCSessionMemory --------------------------
(* SessionMemory for TLC. *)
EXTENDS SessionMemory

\* Requests of one token, of two tokens with a stop token, and one that is too
\* large for the arenas and must be refused.
NodeShapes == {[prompt |-> 2, new |-> 1, depth |-> 60, stops |-> 0],
               [prompt |-> 4, new |-> 2, depth |-> 62, stops |-> 1],
               [prompt |-> 2, new |-> 2, depth |-> 125, stops |-> 0]}
=============================================================================
