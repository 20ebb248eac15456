----------------------------- MODULE WorkerNode -----------------------------
(***************************************************************************)
(* What runs on the node of a worker: the worker runtime, the HostKV its   *)
(* exports and imports move, and the copy executors of its GPU.  They      *)
(* share no state here: a behaviour is one of them, the others stand       *)
(* still.                                                                  *)
(***************************************************************************)
EXTENDS MCWorkerRuntime, HostCopies, CopyStreams

VARIABLE part   \* the part that runs

nodeVars == <<vars, copyVars, streamVars, part>>

NodeInit ==
    /\ Init /\ InitCopies /\ InitStreams
    /\ part \in {"runtime", "hostkv", "streams"}

\* A part that has nothing to do may stop: no copy in hand, or everything closed.
AtRest ==
    /\ \/ part = "hostkv" /\ \A w \in Copiers : job[w] = NoJob
       \/ part = "streams" /\ owner \in {"closed", "failed"}
    /\ UNCHANGED nodeVars

NodeNext ==
    \/ /\ part = "runtime" /\ Next
       /\ UNCHANGED <<copyVars, streamVars, part>>
    \/ /\ part = "hostkv" /\ CopiesNext
       /\ UNCHANGED <<vars, streamVars, part>>
    \/ /\ part = "streams" /\ StreamsNext
       /\ UNCHANGED <<vars, copyVars, part>>
    \/ AtRest

NodeSpec == NodeInit /\ [][NodeNext]_nodeVars

\* A plan that is cut into chunks and groups, and one that is not.
NodePlans == {[direction |-> "H2D", sizes |-> <<1, 0, 1, 3>>, waits |-> TRUE],
              [direction |-> "D2H", sizes |-> <<1, 0>>, waits |-> TRUE]}
=============================================================================
