------------------------------- MODULE Tables -------------------------------
(***************************************************************************)
(* The two implementations of the scheduling table: in shared memory       *)
(* between processes, and inside one process.  A behaviour is one of them; *)
(* the other stands still.                                                 *)
(***************************************************************************)
EXTENDS MCSharedTable, LocalTable

VARIABLE table   \* the implementation that runs

tablesVars == <<vars, localVars, table>>

TablesInit ==
    /\ Init /\ InitLocal
    /\ table \in {"shared", "local"}
    /\ table = "shared" => \A b \in ReadBudgets : poll.budget <= b

TablesNext ==
    \/ /\ table = "shared" /\ Next
       /\ UNCHANGED <<localVars, table>>
    \/ /\ table = "local" /\ LocalNext
       /\ UNCHANGED <<vars, table>>

InShared(step) == table = "shared" /\ step /\ UNCHANGED <<localVars, table>>
InLocal(step) == table = "local" /\ step /\ UNCHANGED <<vars, table>>

\* Who has begun a publication finishes it, and the reader goes on polling.
FairTables ==
    /\ TablesInit /\ [][TablesNext]_tablesVars
    /\ \A w \in WorkerIds : WF_tablesVars(InShared(FinishPublication(w)))
    /\ WF_tablesVars(InShared(ReaderStep))
    /\ \A r \in 1 .. TableRows : WF_tablesVars(InLocal(FinishRow(r)))
    /\ WF_tablesVars(InLocal(PollStep))

\* No publication is forgotten on the way to its reader, in either table: dropped
\* hints, scans in pieces and retries included.
NothingForgotten == Covered /\ NothingMissed /\ NoRowMissed

\* Both readers come to hold everything that was published.
ReadersCatchUp == EngineCatchesUp /\ LocalReaderCatchesUp

\* Three rows of one ring; the last is a priority row, the first changes twice.
LocalRings == [r \in 1 .. TableRows |-> 0]
LocalFirst == <<3>>
LocalVersions == [r \in 1 .. TableRows |-> IF r = 1 THEN 2 ELSE 1]
=============================================================================
