--------------------------- MODULE MCSharedTable ---------------------------
(***************************************************************************)
(* Instances of SharedTable for TLC.                                       *)
(***************************************************************************)
EXTENDS SharedTable

\* Row 1 belongs to worker 0, the other rows to the last worker.
MCOwner == [r \in Rows |-> IF r = 1 THEN 0 ELSE Workers - 1]
MCNoPriority == <<>>
MCFirstRow == <<1>>
=============================================================================
