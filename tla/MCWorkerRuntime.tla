-------------------------- MODULE MCWorkerRuntime --------------------------
(* TLC instances of WorkerRuntime; the constants are given in the cfg files. *)
EXTENDS WorkerRuntime
=============================================================================
