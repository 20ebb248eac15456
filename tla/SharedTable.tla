---------------------------- MODULE SharedTable ----------------------------
(***************************************************************************)
(* The shared scheduling table: rows that worker processes publish and the *)
(* Engine observes without a lock (csrc/control_plane/native.cpp,          *)
(* csrc/control_plane/reader.cpp, table/native_storage.py,                 *)
(* table/prepared.py, ipc/native_ring.py, ipc/process_doorbell.py).        *)
(*                                                                         *)
(* A row is a sequence word followed by fields.  Its one owner publishes   *)
(* by storing INVALID in the word, patching some of the fields, and        *)
(* storing the next sequence; then it pushes a hint <row, seq> into its    *)
(* own bounded ring (or raises the ring's overflow flag when the ring is   *)
(* full) and rings the Engine's doorbell once per drain.  The Engine polls *)
(* with a budget: it drains hints from every ring, copies the hinted rows  *)
(* with the read-word / copy / read-word-again protocol, and after an      *)
(* overflow scans all the rows over as many polls as that takes.           *)
(*                                                                         *)
(* Every access to shared memory is a step of its own (the accesses are    *)
(* sequentially consistent, native.cpp:11-12); steps that touch only the   *)
(* memory of one process are joined to a neighbour.                        *)
(***************************************************************************)
EXTENDS Naturals, Sequences, FiniteSets

CONSTANTS
    Workers,          \* the number of worker processes: ring w belongs to worker w
    Registered,       \* the number of rows the Engine observes, numbered from 1
    Unregistered,     \* rows whose kinds the Engine ignores; they follow the registered
    Owner,            \* Owner[r]: the worker that publishes row r
    PriorityRows,     \* a sequence of registered rows polled without a hint
    Fields,           \* the payload fields of a row
    Capacity,         \* entries in a notification ring
    Budget,           \* max_entries: hints and reads per poll
    Retries,          \* stable-read attempts per capture (16 in the code)
    SeqSpace,         \* UINT64_MAX: sequences are 0 .. SeqSpace - 1
    MaxPublications,  \* bound: publications of one row between two resets
    MaxResets         \* bound: cohort retirements

WorkerIds == 0 .. Workers - 1
Rows == 1 .. Registered + Unregistered
RegisteredRows == 1 .. Registered
IsPriority(r) == \E i \in 1 .. Len(PriorityRows) : PriorityRows[i] = r

ASSUME TableAssumptions ==
    /\ Workers \in Nat \ {0}
    /\ Registered \in Nat \ {0}
    /\ Unregistered \in Nat
    /\ Owner \in [Rows -> WorkerIds]
    /\ PriorityRows \in Seq(RegisteredRows)
    /\ Capacity \in Nat \ {0}
    /\ Budget \in Nat \ {0}
    /\ Retries \in Nat \ {0}
    /\ MaxPublications \in Nat \ {0}
    /\ SeqSpace \in Nat
    /\ 2 * MaxPublications < SeqSpace
    /\ MaxResets \in Nat

\* The all-ones word: a row being written, or never published.
Invalid == SeqSpace

\* A field holds the number of the publication that last wrote it, so two
\* publications of a row are told apart by any field both of them wrote.
Payloads == [Fields -> 0 .. MaxPublications]
EmptyPayload == [f \in Fields |-> 0]
Snapshot(s, d) == [seq |-> s, data |-> d]
Unseen == [seq |-> Invalid, data |-> EmptyPayload]

VARIABLES
    \* shared rows, and the last committed snapshot of each (a history variable)
    word, data, committed,
    \* shared rings and the doorbell
    ring, overflow, door, bell,
    \* late[w]: a hint entered ring w after the Reader last loaded its tail (a
    \* history variable)
    late,
    \* each worker: its program point, the row and sequence it publishes, and
    \* the fields it has still to store
    wpc, wrow, wseq, wfields,
    \* Reader: its program point, the phase that called capture, the row under
    \* inspection and the sequence word found there
    rpc, phase, at, look,
    \* Reader: ring drain
    cursor, offset, remaining, count, flagged,
    \* Reader: pending hints, what it has seen, and the recovery scan
    pending, seen, scan, scanning, rescan,
    \* Reader: the budget of the poll
    taken, left, scanned,
    \* capture: attempts made, the word of the attempt's first load, the fields
    \* copied so far, and their values
    tries, first, copied, scratch,
    \* the poll's output, and what the Engine has applied (Engine.rows)
    output, rows,
    resets

rowVars == <<word, data, committed>>
ringVars == <<ring, overflow, door, bell, late>>
workerVars == <<wpc, wrow, wseq, wfields>>
drainVars == <<cursor, offset, remaining, count, flagged>>
hintVars == <<pending, seen, scan, scanning, rescan>>
budgetVars == <<taken, left, scanned>>
captureVars == <<phase, at, look, tries, first, copied, scratch>>
engineVars == <<output, rows, resets>>
vars == <<rowVars, ringVars, workerVars, rpc, drainVars, hintVars, budgetVars,
          captureVars, engineVars>>

Init ==
    /\ word = [r \in Rows |-> Invalid]
    /\ data = [r \in Rows |-> EmptyPayload]
    /\ committed = [r \in Rows |-> Unseen]
    /\ ring = [w \in WorkerIds |-> <<>>]
    /\ overflow = [w \in WorkerIds |-> FALSE]
    /\ door = [w \in WorkerIds |-> FALSE]
    /\ bell = FALSE
    /\ wpc = [w \in WorkerIds |-> "idle"]
    /\ wrow = [w \in WorkerIds |-> 1]
    /\ wseq = [w \in WorkerIds |-> 0]
    /\ wfields = [w \in WorkerIds |-> {}]
    /\ rpc = "idle" /\ phase = "priority" /\ at = 1 /\ look = 0
    /\ cursor = 0 /\ offset = 0 /\ remaining = 0 /\ count = 0
    /\ flagged = FALSE
    /\ late = [w \in WorkerIds |-> FALSE]
    /\ pending = <<>>
    /\ seen = [r \in RegisteredRows |-> Invalid]
    /\ scan = 1 /\ scanning = FALSE /\ rescan = FALSE
    /\ taken = 0 /\ left = 0 /\ scanned = 0
    /\ tries = 0 /\ first = 0 /\ copied = {} /\ scratch = EmptyPayload
    /\ output = [r \in RegisteredRows |-> Unseen]
    /\ rows = [r \in RegisteredRows |-> Unseen]
    /\ resets = 0

(***************************************************************************)
(* A worker publishes a row: PreparedRow.publish picks the next sequence   *)
(* from the row itself, sd_table_publish_notify does the rest.             *)
(***************************************************************************)

\* Mutation of StoreInvalid: the row keeps its sequence while it is written.
StoreInvalidSkipped(w) ==
    /\ wpc[w] = "idle"
    /\ \E r \in Rows, fs \in SUBSET Fields \ {{}} :
        /\ Owner[r] = w
        /\ word[r] = Invalid \/ word[r] + 1 < MaxPublications
        /\ wrow' = [wrow EXCEPT ![w] = r]
        /\ wseq' = [wseq EXCEPT ![w] = IF word[r] = Invalid THEN 0 ELSE word[r] + 1]
        /\ wfields' = [wfields EXCEPT ![w] = fs]
        /\ word' = word
    /\ wpc' = [wpc EXCEPT ![w] = "bytes"]
    /\ UNCHANGED <<data, committed, ringVars, rpc, drainVars, hintVars, budgetVars,
                   captureVars, engineVars>>

\* PreparedRow.publish and the first store of sd_table_publish: the next
\* sequence is read from the row, and the row becomes INVALID.  A publication
\* patches some non-empty set of the fields; the others keep their bytes.
StoreInvalid(w) ==
    /\ wpc[w] = "idle"
    /\ \E r \in Rows, fs \in SUBSET Fields \ {{}} :
        /\ Owner[r] = w
        /\ word[r] = Invalid \/ word[r] + 1 < MaxPublications
        /\ wrow' = [wrow EXCEPT ![w] = r]
        /\ wseq' = [wseq EXCEPT ![w] = IF word[r] = Invalid THEN 0 ELSE word[r] + 1]
        /\ wfields' = [wfields EXCEPT ![w] = fs]
        /\ word' = [word EXCEPT ![r] = Invalid]
    /\ wpc' = [wpc EXCEPT ![w] = "bytes"]
    /\ UNCHANGED <<data, committed, ringVars, rpc, drainVars, hintVars, budgetVars,
                   captureVars, engineVars>>

\* The byte stores of sd_table_publish.
StoreField(w) ==
    /\ wpc[w] = "bytes"
    /\ \E f \in wfields[w] :
        /\ data' = [data EXCEPT ![wrow[w]][f] = wseq[w] + 1]
        /\ wfields' = [wfields EXCEPT ![w] = @ \ {f}]
    /\ UNCHANGED <<word, committed, ringVars, wpc, wrow, wseq, rpc, drainVars, hintVars,
                   budgetVars, captureVars, engineVars>>

\* The last store of sd_table_publish commits the row.
Commit(w) ==
    /\ wpc[w] = "bytes"
    /\ wfields[w] = {}
    /\ word' = [word EXCEPT ![wrow[w]] = wseq[w]]
    /\ committed' = [committed EXCEPT ![wrow[w]] = Snapshot(wseq[w], data[wrow[w]])]
    /\ wpc' = [wpc EXCEPT ![w] = "push"]
    /\ UNCHANGED <<data, ringVars, wrow, wseq, wfields, rpc, drainVars, hintVars,
                   budgetVars, captureVars, engineVars>>

\* sd_ring_push: the tail is the producer's own; the load of the head decides
\* whether there is room.
CheckRoom(w) ==
    /\ wpc[w] = "push"
    /\ wpc' = [wpc EXCEPT ![w] = IF Len(ring[w]) >= Capacity THEN "full" ELSE "room"]
    /\ UNCHANGED <<rowVars, ringVars, wrow, wseq, wfields, rpc, drainVars, hintVars,
                   budgetVars, captureVars, engineVars>>

\* The locals of the publication are not used again.
Forget(w) == wrow' = [wrow EXCEPT ![w] = 1] /\ wseq' = [wseq EXCEPT ![w] = 0]

\* sd_ring_push writes the entry and then publishes the new tail.
PushHint(w) ==
    /\ wpc[w] = "room"
    /\ ring' = [ring EXCEPT ![w] = Append(@, [row |-> wrow[w], seq |-> wseq[w]])]
    /\ late' = [late EXCEPT ![w] = TRUE]
    /\ wpc' = [wpc EXCEPT ![w] = "notify"]
    /\ Forget(w)
    /\ UNCHANGED <<rowVars, overflow, door, bell, wfields, rpc, drainVars,
                   hintVars, budgetVars, captureVars, engineVars>>

\* sd_table_publish_notify: a full ring drops the hint and raises the flag.
RaiseOverflow(w) ==
    /\ wpc[w] = "full"
    /\ overflow' = [overflow EXCEPT ![w] = TRUE]
    /\ wpc' = [wpc EXCEPT ![w] = "notify"]
    /\ Forget(w)
    /\ UNCHANGED <<rowVars, ring, late, door, bell, wfields, rpc, drainVars,
                   hintVars, budgetVars, captureVars, engineVars>>

\* The exchange on the door word: only the first publication since the last
\* drain of this ring goes on to ring the doorbell.
ExchangeDoor(w) ==
    /\ wpc[w] = "notify"
    /\ door' = [door EXCEPT ![w] = TRUE]
    /\ wpc' = [wpc EXCEPT ![w] = IF door[w] THEN "idle" ELSE "ring"]
    /\ UNCHANGED <<rowVars, ring, late, overflow, bell, wrow, wseq, wfields, rpc,
                   drainVars, hintVars, budgetVars, captureVars, engineVars>>

\* EventFDDoorbell.ring: unread wakeups coalesce in the eventfd counter.
RingDoorbell(w) ==
    /\ wpc[w] = "ring"
    /\ bell' = TRUE
    /\ wpc' = [wpc EXCEPT ![w] = "idle"]
    /\ UNCHANGED <<rowVars, ring, late, overflow, door, wrow, wseq, wfields, rpc,
                   drainVars, hintVars, budgetVars, captureVars, engineVars>>

WorkerStep(w) ==
    \/ StoreInvalid(w) \/ StoreField(w) \/ Commit(w) \/ CheckRoom(w) \/ PushHint(w)
    \/ RaiseOverflow(w) \/ ExchangeDoor(w) \/ RingDoorbell(w)

(***************************************************************************)
(* Reader::poll, called from Engine.step.                                  *)
(***************************************************************************)

\* Reader::newer: a is ahead of b by at most half of the sequence space.
Distance(a, b) == IF a >= b THEN a - b ELSE SeqSpace - b + a
Newer(a, b) == Distance(a, b) \in 1 .. SeqSpace \div 2

\* Reader::hint: a pending row keeps its place in the queue and the newest
\* sequence hinted for it.
Hinted(q, h) ==
    IF \E i \in 1 .. Len(q) : q[i].row = h.row
    THEN [i \in 1 .. Len(q) |-> IF q[i].row = h.row /\ Newer(h.seq, q[i].seq) THEN h ELSE q[i]]
    ELSE Append(q, h)

Least(a, b) == IF a <= b THEN a ELSE b
CurrentRing == (cursor + offset) % Workers

\* Engine.step drains the doorbell before it polls.  It comes here when the
\* doorbell rang, when the step before made progress, or when the one
\* millisecond wait of run_until_complete expired, so at any time.
Wake ==
    /\ rpc = "idle"
    /\ bell' = FALSE
    /\ rpc' = "door"
    /\ remaining' = Budget
    /\ UNCHANGED <<rowVars, ring, late, overflow, door, workerVars, cursor, offset, count, flagged,
                   hintVars, budgetVars, captureVars, engineVars>>

\* Mutation of ClearDoor: the door word keeps its value.
ClearDoorNot ==
    /\ rpc = "door"
    /\ door' = door
    /\ rpc' = "flag"
    /\ UNCHANGED <<rowVars, ring, late, overflow, bell, workerVars, drainVars, hintVars,
                   budgetVars, captureVars, engineVars>>

\* The door word is cleared before anything is read from the ring, so that a
\* later publication rings the doorbell again.
ClearDoor ==
    /\ rpc = "door"
    /\ door' = [door EXCEPT ![CurrentRing] = FALSE]
    /\ rpc' = "flag"
    /\ UNCHANGED <<rowVars, ring, late, overflow, bell, workerVars, drainVars, hintVars,
                   budgetVars, captureVars, engineVars>>

TakeOverflow ==
    /\ rpc = "flag"
    /\ flagged' = (flagged \/ overflow[CurrentRing])
    /\ overflow' = [overflow EXCEPT ![CurrentRing] = FALSE]
    /\ rpc' = "load"
    /\ UNCHANGED <<rowVars, ring, late, door, bell, workerVars, cursor, offset, remaining,
                   count, hintVars, budgetVars, captureVars, engineVars>>

\* The load of the tail fixes how many hints this poll takes from the ring:
\* at most the ring's share of what is left of the budget.
LoadTail ==
    /\ rpc = "load"
    /\ LET w == CurrentRing IN
        /\ count' = Least(Len(ring[w]), remaining \div (Workers - offset))
        /\ late' = [late EXCEPT ![w] = FALSE]
    /\ left' = 0
    /\ rpc' = "copy"
    /\ UNCHANGED <<rowVars, ring, overflow, door, bell, workerVars, cursor, offset, remaining,
                   flagged, hintVars, taken, scanned, captureVars, engineVars>>

\* One iteration of the copy loop.  The rows of ignored kinds have no index.
CopyHint ==
    /\ rpc = "copy"
    /\ left < count
    /\ LET h == ring[CurrentRing][left + 1] IN
        pending' = IF h.row \in RegisteredRows THEN Hinted(pending, h) ELSE pending
    /\ left' = left + 1
    /\ UNCHANGED <<rowVars, ringVars, workerVars, rpc, drainVars, seen, scan, scanning, rescan,
                   taken, scanned, captureVars, engineVars>>

\* The head is published only after the copies; then the next ring is drained.
StoreHead ==
    /\ rpc = "copy"
    /\ left = count
    /\ ring' = [ring EXCEPT ![CurrentRing] = SubSeq(@, count + 1, Len(@))]
    /\ remaining' = remaining - count
    /\ count' = 0 /\ left' = 0
    /\ offset' = offset + 1
    /\ rpc' = IF offset + 1 = Workers THEN "recover" ELSE "door"
    /\ UNCHANGED <<rowVars, late, overflow, door, bell, workerVars, cursor, flagged,
                   hintVars, taken, scanned, captureVars, engineVars>>

\* Mutation of StartRecovery: an overflow during a scan asks for no second scan.
StartRecoveryForgetful ==
    /\ rpc = "recover"
    /\ cursor' = (cursor + 1) % Workers
    /\ IF ~scanning /\ (rescan \/ flagged)
       THEN scan' = 1 /\ scanning' = TRUE /\ rescan' = FALSE
       ELSE UNCHANGED <<scan, scanning>> /\ rescan' = rescan
    /\ flagged' = FALSE /\ offset' = 0 /\ remaining' = 0
    /\ left' = Len(PriorityRows)
    /\ rpc' = "priority"
    /\ UNCHANGED <<rowVars, ringVars, workerVars, count, pending, seen, taken, scanned, captureVars, engineVars>>

\* After the rings: rotate the first ring, and start a scan when an overflow
\* asks for one and none is under way.
StartRecovery ==
    /\ rpc = "recover"
    /\ cursor' = (cursor + 1) % Workers
    /\ IF ~scanning /\ (rescan \/ flagged)
       THEN scan' = 1 /\ scanning' = TRUE /\ rescan' = FALSE
       ELSE UNCHANGED <<scan, scanning>> /\ rescan' = (rescan \/ flagged)
    /\ flagged' = FALSE /\ offset' = 0 /\ remaining' = 0
    /\ left' = Len(PriorityRows)
    /\ rpc' = "priority"
    /\ UNCHANGED <<rowVars, ringVars, workerVars, count, pending, seen, taken, scanned, captureVars, engineVars>>

\* Reader::capture starts on row r for the given phase of the poll; s is the
\* sequence to hint again if it fails.
StartCapture(p, r, s) ==
    /\ rpc' = "begin" /\ phase' = p /\ at' = r /\ look' = s
    /\ UNCHANGED <<tries, first, copied, scratch>>

\* The priority loop: the rows are visited in registration order.
Priority ==
    /\ rpc = "priority"
    /\ left > 0
    /\ LET r == PriorityRows[Len(PriorityRows) - left + 1] IN
        IF word[r] \notin {Invalid, seen[r]}
        THEN StartCapture("priority", r, word[r])
        ELSE UNCHANGED <<rpc, captureVars>>
    /\ left' = left - 1
    /\ UNCHANGED <<rowVars, ringVars, workerVars, drainVars, hintVars, taken, scanned, engineVars>>

\* Mutation of StartHints: the budget does not limit the pending loop.
StartHintsAll ==
    /\ rpc = "priority"
    /\ left = 0
    /\ \E n \in {Len(pending)} :
        taken' = n /\ left' = n
    /\ rpc' = "hints"
    /\ UNCHANGED <<rowVars, ringVars, workerVars, drainVars, hintVars, scanned, captureVars,
                   engineVars>>

\* A scan under way reserves half of the budget.
StartHints ==
    /\ rpc = "priority"
    /\ left = 0
    /\ \E n \in {Least(Len(pending), IF scanning THEN Budget \div 2 ELSE Budget)} :
        taken' = n /\ left' = n
    /\ rpc' = "hints"
    /\ UNCHANGED <<rowVars, ringVars, workerVars, drainVars, hintVars, scanned, captureVars,
                   engineVars>>

\* The pending loop: a hint that is not newer than what was seen is dropped.
TakeHint ==
    /\ rpc = "hints"
    /\ left > 0
    /\ LET h == Head(pending) IN
        IF seen[h.row] # Invalid /\ ~Newer(h.seq, seen[h.row])
        THEN UNCHANGED <<rpc, captureVars>>
        ELSE StartCapture("hints", h.row, h.seq)
    /\ pending' = Tail(pending)
    /\ left' = left - 1
    /\ UNCHANGED <<rowVars, ringVars, workerVars, drainVars, seen, scan, scanning, rescan,
                   taken, scanned, engineVars>>

StartScan ==
    /\ rpc = "hints"
    /\ left = 0
    /\ rpc' = "scan"
    /\ UNCHANGED <<rowVars, ringVars, workerVars, drainVars, hintVars, budgetVars, captureVars,
                   engineVars>>

\* The end of one iteration of the scan loop.
AdvanceScan ==
    /\ scanned' = scanned + 1
    /\ scan' = scan + 1
    /\ scanning' = (scan < Registered)

\* The scan loop: a row that is being written is skipped, because its owner
\* has still to send a hint for it.
ScanRow ==
    /\ rpc = "scan"
    /\ scanning /\ scanned < Budget - taken
    /\ IF word[scan] \notin {Invalid, seen[scan]}
       THEN /\ StartCapture("scan", scan, word[scan])
            /\ UNCHANGED <<scan, scanning, scanned>>
       ELSE AdvanceScan /\ UNCHANGED <<rpc, captureVars>>
    /\ UNCHANGED <<rowVars, ringVars, workerVars, drainVars, pending, seen, rescan, taken,
                   left, engineVars>>

\* capture returns to the loop that called it, and its locals are gone.
Return ==
    /\ rpc' = phase
    /\ IF phase = "scan" THEN AdvanceScan ELSE UNCHANGED <<scan, scanning, scanned>>
    /\ phase' = "priority" /\ at' = 1 /\ look' = 0
    /\ tries' = 0 /\ first' = 0 /\ copied' = {} /\ scratch' = EmptyPayload

\* A failed attempt.  After the last one the row is hinted again, except that
\* a priority row is looked at in the next poll anyway.
Retry ==
    IF tries + 1 < Retries
    THEN /\ tries' = tries + 1 /\ rpc' = "begin"
         /\ first' = 0 /\ copied' = {} /\ scratch' = EmptyPayload
         /\ UNCHANGED <<pending, scan, scanning, scanned, phase, at, look>>
    ELSE /\ Return
         /\ pending' = IF phase = "priority" THEN pending
                       ELSE Hinted(pending, [row |-> at, seq |-> look])

\* sd_table_read: the first load of the word.
ReadBegin ==
    /\ rpc = "begin"
    /\ IF word[at] = Invalid
       THEN Retry
       ELSE /\ rpc' = "read" /\ first' = word[at]
            /\ UNCHANGED <<pending, scan, scanning, scanned, phase, at, look, tries, copied,
                           scratch>>
    /\ UNCHANGED <<rowVars, ringVars, workerVars, drainVars, seen, rescan, taken, left,
                   engineVars>>

\* sd_table_read: the byte loads.
ReadField ==
    /\ rpc = "read"
    /\ \E f \in Fields \ copied :
        /\ scratch' = [scratch EXCEPT ![f] = data[at][f]]
        /\ copied' = copied \cup {f}
    /\ UNCHANGED <<rowVars, ringVars, workerVars, rpc, drainVars, hintVars, budgetVars, phase, at,
                   look, tries, first, engineVars>>

\* sd_table_read: the second load accepts the copy when the word is the same;
\* capture then reports a row whose sequence differs from the one seen.
ReadEnd ==
    /\ rpc = "read"
    /\ copied = Fields
    /\ IF word[at] = first
       THEN /\ Return
            /\ IF seen[at] = first
               THEN UNCHANGED <<seen, output>>
               ELSE /\ seen' = [seen EXCEPT ![at] = first]
                    /\ output' = [output EXCEPT ![at] = Snapshot(first, scratch)]
            /\ UNCHANGED pending
       ELSE Retry /\ UNCHANGED <<seen, output>>
    /\ UNCHANGED <<rowVars, ringVars, workerVars, drainVars, rescan, taken, left, rows, resets>>

\* The end of poll; Engine.apply_facts then takes every row of the batch that
\* is newer than the one it holds.
Deliver ==
    /\ rpc = "scan"
    /\ ~(scanning /\ scanned < Budget - taken)
    /\ rows' = [r \in RegisteredRows |->
                  IF /\ output[r] # Unseen
                     /\ rows[r] = Unseen \/ output[r].seq > rows[r].seq
                  THEN output[r] ELSE rows[r]]
    /\ output' = [r \in RegisteredRows |-> Unseen]
    /\ taken' = 0 /\ left' = 0 /\ scanned' = 0
    /\ rpc' = "idle"
    /\ UNCHANGED <<rowVars, ringVars, workerVars, drainVars, hintVars, captureVars, resets>>

ReaderStep ==
    \/ Wake \/ ClearDoor \/ TakeOverflow \/ LoadTail \/ CopyHint \/ StoreHead \/ StartRecovery
    \/ Priority \/ StartHints \/ TakeHint \/ StartScan \/ ScanRow
    \/ ReadBegin \/ ReadField \/ ReadEnd \/ Deliver

(***************************************************************************)
(* The cohort barrier (CohortRecycler.progress): every worker has been     *)
(* stopped and joined, so none is inside a publication; the Engine is      *)
(* between two polls.  The request rows start again from INVALID; the      *)
(* worker rows, which are the priority rows, keep their facts.             *)
(***************************************************************************)
\* Mutation of Reset: hints of the old cohort stay in the rings.
ResetKeepsRings ==
    /\ resets < MaxResets
    /\ rpc = "idle"
    /\ \A w \in WorkerIds : wpc[w] = "idle"
    /\ LET kept(f, empty) == [r \in DOMAIN f |-> IF IsPriority(r) THEN f[r] ELSE empty] IN
        /\ word' = kept(word, Invalid)
        /\ data' = kept(data, EmptyPayload)
        /\ committed' = kept(committed, Unseen)
        /\ rows' = kept(rows, Unseen)
        /\ seen' = kept(seen, Invalid)
    /\ pending' = <<>> /\ scanning' = FALSE /\ rescan' = FALSE
    /\ door' = [w \in WorkerIds |-> FALSE]
    /\ overflow' = [w \in WorkerIds |-> FALSE]
    /\ ring' = ring
    /\ late' = [w \in WorkerIds |-> FALSE]
    /\ resets' = resets + 1
    /\ UNCHANGED <<bell, workerVars, rpc, drainVars, scan, budgetVars, captureVars, output>>

Reset ==
    /\ resets < MaxResets
    /\ rpc = "idle"
    /\ \A w \in WorkerIds : wpc[w] = "idle"
    /\ LET kept(f, empty) == [r \in DOMAIN f |-> IF IsPriority(r) THEN f[r] ELSE empty] IN
        /\ word' = kept(word, Invalid)
        /\ data' = kept(data, EmptyPayload)
        /\ committed' = kept(committed, Unseen)
        /\ rows' = kept(rows, Unseen)
        /\ seen' = kept(seen, Invalid)
    /\ pending' = <<>> /\ scanning' = FALSE /\ rescan' = FALSE
    /\ door' = [w \in WorkerIds |-> FALSE]
    /\ overflow' = [w \in WorkerIds |-> FALSE]
    /\ ring' = [w \in WorkerIds |-> <<>>]
    /\ late' = [w \in WorkerIds |-> FALSE]
    /\ resets' = resets + 1
    /\ UNCHANGED <<bell, workerVars, rpc, drainVars, scan, budgetVars, captureVars, output>>

Next == (\E w \in WorkerIds : WorkerStep(w)) \/ ReaderStep \/ Reset

Spec == Init /\ [][Next]_vars

\* A worker that has begun a publication finishes it; it need never publish
\* again.  The Engine loop polls for as long as the session lasts, because the
\* doorbell wait of run_until_complete has a timeout.
FinishPublication(w) == wpc[w] # "idle" /\ WorkerStep(w)
Fairness ==
    /\ \A w \in WorkerIds : WF_vars(FinishPublication(w))
    /\ WF_vars(ReaderStep)
FairSpec == Spec /\ Fairness

(***************************************************************************)
(* Properties                                                              *)
(***************************************************************************)

\* What the Engine reports or holds of a row: the newest capture.
Captured(r) == IF output[r] # Unseen THEN output[r] ELSE rows[r]

\* Seen by everyone as one atomic table: a publication takes effect at its
\* last store, an observation at the second load of the word.
Atomic == INSTANCE AtomicTable
            WITH Rows <- RegisteredRows, Payload <- Payloads, Empty <- Unseen,
                 Sticky <- {r \in RegisteredRows : IsPriority(r)},
                 table <- [r \in RegisteredRows |-> committed[r]],
                 view <- [r \in RegisteredRows |-> Captured(r)]

\* Every capture is a whole committed publication, never a mix of two, although
\* a publication patches only some fields and is read without a lock.
ReadsAreAtomic == Atomic!Spec

\* Reader::has_pending.
HasPending ==
    \/ pending # <<>> \/ scanning \/ rescan
    \/ \E w \in WorkerIds : ring[w] # <<>> \/ overflow[w]

\* When has_pending answers no between two polls, and no worker is inside a
\* publication, the Engine holds the latest publication of every request row,
\* whatever hints were dropped on the way.
NothingMissed ==
    rpc = "idle" /\ ~HasPending /\ (\A w \in WorkerIds : wpc[w] = "idle")
        => \A r \in RegisteredRows : ~IsPriority(r) => rows[r] = committed[r]

\* A hint for the publication the row now holds is still on its way to the
\* Reader, in its ring, or in its queue.
HintOnTheWay(r) ==
    LET h == [row |-> r, seq |-> word[r]] IN
    \/ wpc[Owner[r]] \in {"push", "room", "full"} /\ wrow[Owner[r]] = r
    \/ \E i \in 1 .. Len(ring[Owner[r]]) : ring[Owner[r]][i] = h
    \/ \E i \in 1 .. Len(pending) : pending[i] = h

\* Recovery will still reach the row.
RecoveryAhead(r) ==
    overflow[Owner[r]] \/ flagged \/ rescan \/ (scanning /\ scan <= r)

\* A committed publication that the Reader has not captured is never forgotten,
\* at any step of either side: its hint is on the way, a recovery scan has
\* still to visit the row, or the row is being captured now.
Covered ==
    \A r \in RegisteredRows :
        word[r] # Invalid /\ seen[r] # word[r] =>
            \/ IsPriority(r)
            \/ HintOnTheWay(r)
            \/ RecoveryAhead(r)
            \/ rpc \in {"begin", "read"} /\ at = r

\* No lost wakeup: when the Engine may go to sleep on the doorbell, a ring that
\* received a hint or an overflow after the last drain has rung it, or its
\* worker is about to.
NoLostWakeup ==
    rpc = "idle" =>
        \A w \in WorkerIds :
            (late[w] \/ overflow[w]) => bell \/ wpc[w] \in {"notify", "ring"}

\* No hint names a publication its row has not committed, the cohort barrier
\* included: such a hint would be retried for ever.
HintsBehindRows ==
    LET behind(h) == committed[h.row].seq # Invalid /\ h.seq <= committed[h.row].seq IN
    /\ \A w \in WorkerIds : \A i \in 1 .. Len(ring[w]) : behind(ring[w][i])
    /\ \A i \in 1 .. Len(pending) : behind(pending[i])

\* One poll reports at most max_entries rows besides the priority rows: the
\* output array of NativeTableReader has exactly that many entries.
OutputFits ==
    Cardinality({r \in RegisteredRows : output[r] # Unseen}) <= Budget + Len(PriorityRows)

\* Once the workers stop publishing, the Engine comes to hold the latest
\* publication of every row, even when hints were dropped, read conflicts used
\* up their retries, and the budget was too small for one poll.
EngineCatchesUp == <>[](\A r \in RegisteredRows : rows[r] = committed[r])
====
