----------------------------- MODULE TargetProcess -----------------------------
(***************************************************************************)
(* A SwiftLLM target process.  It is deployed behind one of two facades    *)
(* over the same worker and block manager: the StarSD facade, driven by a  *)
(* remote client through a registry of asynchronous copies, or the         *)
(* process-local facade, driven by an owner in the same process.           *)
(***************************************************************************)
EXTENDS TargetFacade, LocalTarget

VARIABLE facade   \* which facade the process was started with

processVars == <<workerVars, facadeVars, localVars, facade>>

Init == InitWorker /\ InitFacade /\ InitLocal /\ facade \in {"starsd", "local"}

Next == \/ facade = "starsd" /\ FacadeNext /\ UNCHANGED <<localVars, facade>>
        \/ facade = "local" /\ LocalNext /\ UNCHANGED <<facadeVars, facade>>

Spec == Init /\ [][Next]_processVars

\* Symmetry of the model: rows and requests are only ever compared.
Symmetry == Permutations(Rows) \cup Permutations(Requests)

\* Rows are neither lost nor shared under either facade: each row is
\* available or has exactly one owner.
RowsOwned == IF facade = "starsd" THEN FacadeRowsOwned ELSE LocalRowsOwned

\* Whoever reads KV reads the request's own, on the GPU and on the host, however
\* bank switches, exports and aborts interleave.
ContentsIntact == KVIntact /\ HostIntact /\ LeasedKVIntact
=============================================================================
