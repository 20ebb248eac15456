---------------------------- MODULE NodeServices ----------------------------
(***************************************************************************)
(* Services of a node that do not share state: a SwiftLLM target process,  *)
(* the memory of a session and the transport of commands.  A behaviour is  *)
(* one of them; the others stand still.                                    *)
(***************************************************************************)
EXTENDS TargetProcess, MCSessionMemory, CommandTransport

VARIABLE service   \* the service that runs

nodeVars == <<processVars, memoryVars, transportVars, service>>

NodeInit ==
    /\ Init /\ InitMemory /\ InitTransport
    /\ service \in {"target", "memory", "transport"}
    /\ service # "target" => facade = "local"
    /\ service # "transport" => transport = "local"

NodeNext ==
    \/ /\ service = "target" /\ Next
       /\ UNCHANGED <<memoryVars, transportVars, service>>
    \/ /\ service = "memory" /\ MemoryNext
       /\ UNCHANGED <<processVars, transportVars, service>>
    \/ /\ service = "transport" /\ TransportNext
       /\ UNCHANGED <<processVars, memoryVars, service>>

NodeSpec == NodeInit /\ [][NodeNext]_nodeVars
=============================================================================
