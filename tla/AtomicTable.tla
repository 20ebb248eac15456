---------------------------- MODULE AtomicTable ----------------------------
(***************************************************************************)
(* What the shared scheduling table promises its users: each row behaves   *)
(* as one atomic register with a version.  A publication installs a whole  *)
(* snapshot with the next version; an observation returns the snapshot the *)
(* row holds at that moment.  SharedTable implements this with sequence    *)
(* words, byte stores and bounded retries.                                 *)
(***************************************************************************)
EXTENDS Naturals

CONSTANTS
    Rows,      \* the rows the Engine observes
    Payload,   \* what a row may hold
    Empty,     \* the snapshot of a row never published
    Sticky     \* the rows that keep their snapshot at a cohort barrier

VARIABLES
    table,     \* table[r]: the snapshot row r holds
    view       \* view[r]: the snapshot the Engine observed last

Init ==
    /\ table = [r \in Rows |-> Empty]
    /\ view = [r \in Rows |-> Empty]

\* The owner of row r replaces its snapshot.
Publish(r) ==
    /\ \E d \in Payload :
        table' = [table EXCEPT ![r] =
                    [seq |-> IF table[r] = Empty THEN 0 ELSE table[r].seq + 1, data |-> d]]
    /\ view' = view

\* The Engine observes row r.
Observe(r) ==
    /\ view' = [view EXCEPT ![r] = table[r]]
    /\ table' = table

\* The cohort barrier forgets the request rows, on both sides.
Forget ==
    /\ table' = [r \in Rows |-> IF r \in Sticky THEN table[r] ELSE Empty]
    /\ view' = [r \in Rows |-> IF r \in Sticky THEN view[r] ELSE Empty]

Next == (\E r \in Rows : Publish(r) \/ Observe(r)) \/ Forget

Spec == Init /\ [][Next]_<<table, view>>
=============================================================================
