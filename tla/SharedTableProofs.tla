------------------------- MODULE SharedTableProofs -------------------------
(***************************************************************************)
(* Proofs about SharedTable, for every number of rows, fields, workers,    *)
(* retries and publications.                                               *)
(*                                                                         *)
(* First, that it implements AtomicTable. TableInv says why the unlocked   *)
(* copy is sound: while the word of a row is valid, the row is its last    *)
(* committed snapshot; a worker inside a publication holds the word        *)
(* INVALID and a sequence one above the last committed one; so a reader    *)
(* that finds its first word again has copied fields nobody touched in     *)
(* between.                                                                *)
(*                                                                         *)
(* Then, what the hints, the overflow flags and the doorbell are for: no   *)
(* wakeup is lost, no hint runs ahead of its row, no committed             *)
(* publication is forgotten, and one poll fits its output array. Each      *)
(* part has its own inductive invariant, on top of TableInv.               *)
(***************************************************************************)
EXTENDS SharedTable, SequenceTheorems, FiniteSetTheorems, TLAPS

\* The committed snapshots.
Published == [seq : 0 .. MaxPublications - 1, data : Payloads]
Successor(c) == IF c = Unseen THEN 0 ELSE c.seq + 1
WorkerPoints == {"idle", "bytes", "push", "room", "full", "notify", "ring"}
ReaderPhases == {"priority", "hints", "scan"}

Shapes ==
    /\ word \in [Rows -> 0 .. SeqSpace]
    /\ data \in [Rows -> Payloads]
    /\ committed \in [Rows -> Published \cup {Unseen}]
    /\ wpc \in [WorkerIds -> WorkerPoints]
    /\ wrow \in [WorkerIds -> Rows]
    /\ wseq \in [WorkerIds -> 0 .. MaxPublications]
    /\ wfields \in [WorkerIds -> SUBSET Fields]
    /\ seen \in [RegisteredRows -> 0 .. SeqSpace]
    /\ output \in [RegisteredRows -> Published \cup {Unseen}]
    /\ rows \in [RegisteredRows -> Published \cup {Unseen}]
    /\ phase \in ReaderPhases

\* A worker inside a publication owns the row, keeps it INVALID, and is about
\* to commit the next sequence.
Writing ==
    \A w \in WorkerIds : wpc[w] = "bytes" =>
        /\ Owner[wrow[w]] = w
        /\ word[wrow[w]] = Invalid
        /\ wseq[w] = Successor(committed[wrow[w]])
        /\ wseq[w] < MaxPublications

\* A row with a valid word is its last committed snapshot; one with an invalid
\* word is being written or was never published.
Settled ==
    \A r \in Rows :
        /\ word[r] # Invalid => committed[r] = Snapshot(word[r], data[r])
        /\ word[r] = Invalid /\ (wpc[Owner[r]] # "bytes" \/ wrow[Owner[r]] # r)
              => committed[r] = Unseen

\* An attempt in progress: the first word is not ahead of the row, and as long
\* as the row still has that word the copied fields are the fields of the row.
Reading ==
    /\ rpc # "read" => copied = {} /\ scratch = EmptyPayload
    /\ rpc = "read" /\ at \in RegisteredRows =>
        /\ copied \subseteq Fields
        /\ scratch \in Payloads
        /\ committed[at] # Unseen
        /\ first \in 0 .. committed[at].seq
        /\ word[at] = first => \A f \in copied : scratch[f] = data[at][f]

\* What was captured of a row is recorded in seen and is not ahead of the row;
\* the output of a poll is ahead of what the Engine holds.
Observed ==
    /\ rpc = "idle" => \A r \in RegisteredRows : output[r] = Unseen
    /\ \A r \in RegisteredRows :
        /\ seen[r] = Captured(r).seq
        /\ Captured(r) # Unseen => committed[r] # Unseen /\ Captured(r).seq <= committed[r].seq
        /\ output[r] # Unseen => rows[r] = Unseen \/ rows[r].seq < output[r].seq

\* The inductive invariant.
TableInv == Shapes /\ Writing /\ Settled /\ Reading /\ Observed

-----------------------------------------------------------------------------
\* The arithmetic of sequences: a committed sequence is never the INVALID word.
LEMMA PublishedFacts ==
    /\ Unseen.seq = Invalid
    /\ Unseen \notin Published
    /\ EmptyPayload \in Payloads
    /\ 0 < MaxPublications
    /\ MaxPublications \in Nat /\ SeqSpace \in Nat /\ MaxPublications < SeqSpace
    /\ \A c \in Published : c.seq \in 0 .. MaxPublications - 1 /\ c.seq # Invalid /\ c.data \in Payloads
    /\ \A r \in RegisteredRows : r \in Rows
    /\ \A r \in Rows : Owner[r] \in WorkerIds
    /\ 1 \in Rows
BY TableAssumptions DEF Unseen, Published, Invalid, EmptyPayload, Payloads, RegisteredRows, Rows

\* Init: nothing is published, nothing is seen.
LEMMA InitInv == Init => TableInv
BY PublishedFacts, TableAssumptions
   DEF Init, TableInv, Shapes, Writing, Settled, Reading, Observed, Captured, WorkerPoints,
       ReaderPhases, Invalid, WorkerIds

\* A reader step outside sd_table_read's loop leaves the invariant alone.
LEMMA QuietStep ==
    ASSUME TableInv,
           UNCHANGED <<rowVars, workerVars, seen, output, rows>>,
           rpc' # "read", copied' = {}, scratch' = EmptyPayload,
           rpc' = "idle" => rpc = "idle",
           phase' \in ReaderPhases
    PROVE  TableInv'
BY DEF TableInv, Shapes, Writing, Settled, Reading, Observed, Captured, rowVars, workerVars

\* The first store of a publication: the row was settled, so its word was the
\* last committed sequence, and its owner is inside no other publication.
LEMMA StoreInvalidInv == ASSUME TableInv, NEW w \in WorkerIds, StoreInvalid(w) PROVE TableInv'
<1>. USE PublishedFacts
<1>1. PICK r \in Rows, fs \in SUBSET Fields \ {{}} :
        /\ Owner[r] = w
        /\ word[r] = Invalid \/ word[r] + 1 < MaxPublications
        /\ wrow' = [wrow EXCEPT ![w] = r]
        /\ wseq' = [wseq EXCEPT ![w] = IF word[r] = Invalid THEN 0 ELSE word[r] + 1]
        /\ wfields' = [wfields EXCEPT ![w] = fs]
        /\ word' = [word EXCEPT ![r] = Invalid]
  BY DEF StoreInvalid
<1>2. /\ wpc[w] = "idle" /\ wpc' = [wpc EXCEPT ![w] = "bytes"]
      /\ UNCHANGED <<data, committed, seen, output, rows, rpc, phase, at, first, copied, scratch>>
  BY DEF StoreInvalid, hintVars, captureVars, engineVars
<1>3. /\ word[r] = Invalid => committed[r] = Unseen
      /\ word[r] # Invalid => committed[r] = Snapshot(word[r], data[r])
  BY <1>1, <1>2 DEF TableInv, Settled
<1>4. (IF word[r] = Invalid THEN 0 ELSE word[r] + 1) = Successor(committed[r])
  BY <1>3, <1>1 DEF TableInv, Shapes, Successor, Snapshot, Published, Unseen, Invalid
<1>5. Shapes'
  <2>1. word' \in [Rows -> 0 .. SeqSpace]
    BY <1>1 DEF TableInv, Shapes, Invalid
  <2>2. wrow' \in [WorkerIds -> Rows] /\ wfields' \in [WorkerIds -> SUBSET Fields]
    BY <1>1 DEF TableInv, Shapes
  <2>3. (IF word[r] = Invalid THEN 0 ELSE word[r] + 1) \in 0 .. MaxPublications
    BY <1>1 DEF TableInv, Shapes
  <2>4. wseq' \in [WorkerIds -> 0 .. MaxPublications]
    BY <1>1, <2>3 DEF TableInv, Shapes
  <2>5. wpc' \in [WorkerIds -> WorkerPoints]
    BY <1>2 DEF TableInv, Shapes, WorkerPoints
  <2>. QED BY <1>2, <2>1, <2>2, <2>4, <2>5 DEF TableInv, Shapes
<1>6. Writing'
  <2>. SUFFICES ASSUME NEW v \in WorkerIds, wpc'[v] = "bytes"
                PROVE  /\ Owner[wrow'[v]] = v /\ word'[wrow'[v]] = Invalid
                       /\ wseq'[v] = Successor(committed'[wrow'[v]]) /\ wseq'[v] < MaxPublications
    BY DEF Writing
  <2>1. CASE v = w
    <3>1. wrow'[v] = r /\ wseq'[v] = Successor(committed[r])
      BY <2>1, <1>1, <1>4 DEF TableInv, Shapes
    <3>2. wseq'[v] < MaxPublications
      BY <2>1, <1>1 DEF TableInv, Shapes
    <3>. QED BY <2>1, <3>1, <3>2, <1>1, <1>2 DEF TableInv, Shapes
  <2>2. CASE v # w
    BY <2>2, <1>1, <1>2 DEF TableInv, Shapes, Writing
  <2>. QED BY <2>1, <2>2
<1>7. Settled'
  BY <1>1, <1>2 DEF TableInv, Shapes, Settled
<1>8. Reading'
  <2>1. at \in RegisteredRows /\ rpc = "read" => word'[at] = word[at] \/ word'[at] = Invalid
    BY <1>1 DEF TableInv, Shapes
  <2>2. at \in RegisteredRows /\ rpc = "read" => first # Invalid
    BY DEF TableInv, Shapes, Reading, Invalid
  <2>. QED BY <1>2, <2>1, <2>2 DEF TableInv, Reading
<1>9. Observed'
  BY <1>1, <1>2 DEF TableInv, Observed, Captured
<1>. QED BY <1>5, <1>6, <1>7, <1>8, <1>9 DEF TableInv

\* A byte store: the word of the row is INVALID, so no reader of it can finish.
LEMMA StoreFieldInv == ASSUME TableInv, NEW w \in WorkerIds, StoreField(w) PROVE TableInv'
<1>. USE PublishedFacts
<1>1. PICK f \in wfields[w] :
        /\ data' = [data EXCEPT ![wrow[w]][f] = wseq[w] + 1]
        /\ wfields' = [wfields EXCEPT ![w] = @ \ {f}]
  BY DEF StoreField
<1>2. /\ wpc[w] = "bytes"
      /\ UNCHANGED <<word, committed, wpc, wrow, wseq, seen, output, rows, rpc, phase, at, first,
                     copied, scratch>>
  BY DEF StoreField, hintVars, captureVars, engineVars
<1>3. /\ wrow[w] \in Rows /\ f \in Fields /\ word[wrow[w]] = Invalid
      /\ wseq[w] + 1 \in 0 .. MaxPublications
  BY <1>1, <1>2 DEF TableInv, Shapes, Writing
<1>4. data' \in [Rows -> Payloads]
  BY <1>1, <1>3 DEF TableInv, Shapes, Payloads
<1>5. \A r \in Rows : r # wrow[w] => data'[r] = data[r]
  BY <1>1 DEF TableInv, Shapes
<1>6. Shapes'
  BY <1>1, <1>2, <1>4 DEF TableInv, Shapes
<1>7. Writing'
  BY <1>2 DEF TableInv, Writing
<1>8. Settled'
  BY <1>2, <1>3, <1>5 DEF TableInv, Settled
<1>9. Reading'
  <2>1. at \in RegisteredRows /\ rpc = "read" => first # Invalid
    BY DEF TableInv, Shapes, Reading, Invalid
  <2>2. at \in RegisteredRows /\ rpc = "read" /\ word[at] = first => data'[at] = data[at]
    BY <1>3, <1>5, <2>1
  <2>. QED BY <1>2, <2>2 DEF TableInv, Reading
<1>10. Observed'
  BY <1>2 DEF TableInv, Observed, Captured
<1>. QED BY <1>6, <1>7, <1>8, <1>9, <1>10 DEF TableInv

\* The last store: the new word is above every word read before.
LEMMA CommitInv == ASSUME TableInv, NEW w \in WorkerIds, Commit(w) PROVE TableInv'
<1>. USE PublishedFacts
<1> DEFINE r == wrow[w]
<1>1. /\ wpc[w] = "bytes"
      /\ word' = [word EXCEPT ![r] = wseq[w]]
      /\ committed' = [committed EXCEPT ![r] = Snapshot(wseq[w], data[r])]
      /\ wpc' = [wpc EXCEPT ![w] = "push"]
      /\ UNCHANGED <<data, wrow, wseq, wfields, seen, output, rows, rpc, phase, at, first, copied,
                     scratch>>
  BY DEF Commit, hintVars, captureVars, engineVars
<1>2. /\ r \in Rows /\ Owner[r] = w /\ word[r] = Invalid
      /\ wseq[w] = Successor(committed[r])
      /\ wseq[w] \in 0 .. MaxPublications - 1
  BY <1>1 DEF TableInv, Shapes, Writing
<1>3. Snapshot(wseq[w], data[r]) \in Published
  BY <1>2 DEF TableInv, Shapes, Snapshot, Published
<1>4. /\ Snapshot(wseq[w], data[r]).seq = wseq[w]
      /\ committed[r] # Unseen => committed[r].seq < wseq[w]
  BY <1>2 DEF Snapshot, Successor, TableInv, Shapes
<1>5. Shapes'
  <2>1. word' \in [Rows -> 0 .. SeqSpace]
    BY <1>1, <1>2 DEF TableInv, Shapes
  <2>2. committed' \in [Rows -> Published \cup {Unseen}]
    BY <1>1, <1>3 DEF TableInv, Shapes
  <2>3. wpc' \in [WorkerIds -> WorkerPoints]
    BY <1>1 DEF TableInv, Shapes, WorkerPoints
  <2>. QED BY <1>1, <2>1, <2>2, <2>3 DEF TableInv, Shapes
<1>6. Writing'
  BY <1>1, <1>2 DEF TableInv, Shapes, Writing
<1>7. Settled'
  BY <1>1, <1>2, <1>3 DEF TableInv, Shapes, Settled, Invalid
<1>8. Reading'
  <2>1. CASE at = r
    BY <2>1, <1>1, <1>2, <1>3, <1>4 DEF TableInv, Shapes, Reading
  <2>2. CASE at # r
    BY <2>2, <1>1, <1>2 DEF TableInv, Shapes, Reading
  <2>. QED BY <2>1, <2>2
<1>9. Observed'
  <2>1. \A x \in RegisteredRows : Captured(x)' = Captured(x)
    BY <1>1 DEF Captured
  <2>2. \A x \in RegisteredRows : x # r => committed'[x] = committed[x]
    BY <1>1 DEF TableInv, Shapes
  <2>3. \A x \in RegisteredRows : x = r => committed'[x] = Snapshot(wseq[w], data[r])
    BY <1>1 DEF TableInv, Shapes
  <2>4. \A x \in RegisteredRows : Captured(x) # Unseen => Captured(x) \in Published
    BY DEF TableInv, Shapes, Captured
  <2>. QED BY <1>1, <1>3, <1>4, <2>1, <2>2, <2>3, <2>4 DEF TableInv, Shapes, Observed
<1>. QED BY <1>5, <1>6, <1>7, <1>8, <1>9 DEF TableInv

\* The steps of a worker after the commit touch no row.
LEMMA NotifyInv ==
    ASSUME TableInv, NEW w \in WorkerIds,
           CheckRoom(w) \/ PushHint(w) \/ RaiseOverflow(w) \/ ExchangeDoor(w) \/ RingDoorbell(w)
    PROVE  TableInv'
<1>. USE PublishedFacts
<1>1. /\ wpc[w] # "bytes"
      /\ \E p \in WorkerPoints \ {"bytes"} : wpc' = [wpc EXCEPT ![w] = p]
      /\ wrow' \in {wrow, [wrow EXCEPT ![w] = 1]}
      /\ wseq' \in {wseq, [wseq EXCEPT ![w] = 0]}
      /\ wfields' = wfields
      /\ UNCHANGED <<word, data, committed, seen, output, rows, rpc, phase, at, first, copied,
                     scratch>>
  BY DEF CheckRoom, PushHint, RaiseOverflow, ExchangeDoor, RingDoorbell, Forget, WorkerPoints,
         rowVars, hintVars, captureVars, engineVars
<1>2. Shapes'
  BY <1>1 DEF TableInv, Shapes
<1>3. Writing'
  BY <1>1 DEF TableInv, Shapes, Writing
<1>4. Settled'
  BY <1>1 DEF TableInv, Shapes, Settled
<1>5. Reading' /\ Observed'
  BY <1>1 DEF TableInv, Reading, Observed, Captured
<1>. QED BY <1>2, <1>3, <1>4, <1>5 DEF TableInv

\* The steps of poll outside capture.
LEMMA PollInv ==
    ASSUME TableInv,
           \/ Wake \/ ClearDoor \/ TakeOverflow \/ LoadTail \/ CopyHint \/ StoreHead
           \/ StartRecovery \/ Priority \/ StartHints \/ TakeHint \/ StartScan \/ ScanRow
    PROVE  TableInv' /\ UNCHANGED <<committed, output, rows>>
<1>1. /\ UNCHANGED <<rowVars, workerVars, seen, output, rows, copied, scratch>>
      /\ rpc # "read" /\ rpc' \notin {"read", "idle"}
      /\ phase' \in ReaderPhases
  BY DEF TableInv, Shapes, Wake, ClearDoor, TakeOverflow, LoadTail, CopyHint, StoreHead,
         StartRecovery, Priority, StartHints, TakeHint, StartScan, ScanRow, StartCapture,
         AdvanceScan, ReaderPhases, hintVars, captureVars, engineVars
<1>2. copied' = {} /\ scratch' = EmptyPayload
  BY <1>1 DEF TableInv, Reading
<1>. QED BY <1>1, <1>2, QuietStep DEF rowVars

\* A failed attempt forgets what it copied.
LEMMA RetryInv ==
    ASSUME TableInv, Retry, UNCHANGED <<rowVars, workerVars, seen, output, rows>>
    PROVE  TableInv'
<1>1. /\ rpc' \notin {"read", "idle"} /\ copied' = {} /\ scratch' = EmptyPayload
      /\ phase' \in ReaderPhases
  BY DEF Retry, Return, TableInv, Shapes, ReaderPhases
<1>. QED BY <1>1, QuietStep

\* The first load of an attempt that finds a valid word.
LEMMA ReadBeginInv == ASSUME TableInv, ReadBegin PROVE TableInv' /\ UNCHANGED <<committed, output, rows>>
<1>. USE PublishedFacts
<1>1. UNCHANGED <<rowVars, workerVars, seen, output, rows>> /\ rpc = "begin"
  BY DEF ReadBegin, engineVars
<1>2. CASE word[at] = Invalid
  BY <1>1, <1>2, RetryInv DEF ReadBegin, rowVars
<1>3. CASE word[at] # Invalid
  <2>1. rpc' = "read" /\ first' = word[at] /\ UNCHANGED <<phase, at, copied, scratch>>
    BY <1>3 DEF ReadBegin
  <2>2. copied = {} /\ scratch = EmptyPayload
    BY <1>1 DEF TableInv, Reading
  <2>3. at \in RegisteredRows =>
           /\ committed[at] = Snapshot(word[at], data[at]) /\ committed[at].seq = word[at]
           /\ word[at] \in 0 .. SeqSpace
    BY <1>3 DEF TableInv, Shapes, Settled, Snapshot
  <2>4. Reading'
    BY <1>1, <1>3, <2>1, <2>2, <2>3 DEF Reading, rowVars
  <2>5. Shapes' /\ Writing' /\ Settled' /\ Observed'
    BY <1>1, <2>1 DEF TableInv, Shapes, Writing, Settled, Observed, Captured, rowVars, workerVars
  <2>. QED BY <1>1, <2>4, <2>5 DEF TableInv, rowVars
<1>. QED BY <1>2, <1>3

\* A byte load copies the field the row has now.
LEMMA ReadFieldInv == ASSUME TableInv, ReadField PROVE TableInv' /\ UNCHANGED <<committed, output, rows>>
<1>. USE PublishedFacts
<1>1. PICK f \in Fields \ copied :
        scratch' = [scratch EXCEPT ![f] = data[at][f]] /\ copied' = copied \cup {f}
  BY DEF ReadField
<1>2. /\ rpc = "read" /\ rpc' = "read"
      /\ UNCHANGED <<rowVars, workerVars, seen, output, rows, phase, at, first>>
  BY DEF ReadField, hintVars, engineVars
<1>3. Reading'
  <2>. SUFFICES ASSUME at \in RegisteredRows
                PROVE  /\ copied' \subseteq Fields /\ scratch' \in Payloads
                       /\ word[at] = first => \A g \in copied' : scratch'[g] = data[at][g]
    BY <1>2 DEF TableInv, Reading, rowVars
  <2>1. scratch \in [Fields -> 0 .. MaxPublications] /\ data[at] \in [Fields -> 0 .. MaxPublications]
    BY <1>2 DEF TableInv, Shapes, Reading, Payloads
  <2>2. scratch' \in Payloads
    BY <1>1, <2>1 DEF Payloads
  <2>3. scratch'[f] = data[at][f] /\ \A g \in Fields : g # f => scratch'[g] = scratch[g]
    BY <1>1, <2>1
  <2>. QED BY <1>1, <1>2, <2>2, <2>3 DEF TableInv, Reading
<1>4. Shapes' /\ Writing' /\ Settled' /\ Observed'
  BY <1>2 DEF TableInv, Shapes, Writing, Settled, Observed, Captured, rowVars, workerVars
<1>. QED BY <1>2, <1>3, <1>4 DEF TableInv, rowVars

\* The second load finds the first word again: the copy is the snapshot the
\* row holds at this moment.
LEMMA AcceptedCopy ==
    ASSUME TableInv, rpc = "read", at \in RegisteredRows, copied = Fields, word[at] = first
    PROVE  Snapshot(first, scratch) = committed[at]
<1>. USE PublishedFacts
<1>1. committed[at] = Snapshot(word[at], data[at])
  BY DEF TableInv, Shapes, Settled, Reading, Invalid
<1>2. scratch \in [Fields -> 0 .. MaxPublications] /\ data[at] \in [Fields -> 0 .. MaxPublications]
  BY DEF TableInv, Shapes, Reading, Payloads
<1>3. \A f \in Fields : scratch[f] = data[at][f]
  BY DEF TableInv, Reading
<1>4. scratch = data[at]
  BY <1>2, <1>3
<1>. QED BY <1>1, <1>4

\* The end of an attempt: nothing new, a new capture equal to the committed
\* snapshot, or another attempt.
LEMMA ReadEndInv ==
    ASSUME TableInv, ReadEnd
    PROVE  /\ TableInv'
           /\ committed' = committed
           /\ \/ UNCHANGED <<output, rows>>
              \/ at \in RegisteredRows /\ rows' = rows /\ output' = [output EXCEPT ![at] = committed[at]]
<1>. USE PublishedFacts
<1>1. /\ rpc = "read" /\ copied = Fields
      /\ UNCHANGED <<rowVars, workerVars, rows>>
  BY DEF ReadEnd
<1>2. CASE word[at] # first
  BY <1>1, <1>2, RetryInv DEF ReadEnd, rowVars
<1>3. CASE word[at] = first /\ UNCHANGED <<seen, output>>
  <2>1. /\ rpc' \notin {"read", "idle"} /\ copied' = {} /\ scratch' = EmptyPayload
        /\ phase' \in ReaderPhases
    BY <1>3 DEF ReadEnd, Return, TableInv, Shapes, ReaderPhases
  <2>. QED BY <1>1, <1>3, <2>1, QuietStep DEF rowVars
<1>4. CASE word[at] = first /\ seen[at] # first /\ at \in RegisteredRows
  <2>1. /\ rpc' \notin {"read", "idle"} /\ copied' = {} /\ scratch' = EmptyPayload
        /\ phase' \in ReaderPhases
        /\ seen' = [seen EXCEPT ![at] = first]
        /\ output' = [output EXCEPT ![at] = Snapshot(first, scratch)]
    BY <1>4 DEF ReadEnd, Return, TableInv, Shapes, ReaderPhases
  <2>2. Snapshot(first, scratch) = committed[at]
    BY <1>1, <1>4, AcceptedCopy
  <2>3. committed[at] \in Published /\ committed[at].seq = first /\ first \in 0 .. SeqSpace
    BY <1>1, <1>4, <2>2 DEF TableInv, Shapes, Reading, Snapshot
  <2>4. output' = [output EXCEPT ![at] = committed[at]]
    BY <2>1, <2>2
  <2>5. Shapes'
    <3>1. output' \in [RegisteredRows -> Published \cup {Unseen}]
      BY <2>3, <2>4 DEF TableInv, Shapes
    <3>2. seen' \in [RegisteredRows -> 0 .. SeqSpace]
      BY <2>1, <2>3 DEF TableInv, Shapes
    <3>. QED BY <1>1, <2>1, <3>1, <3>2 DEF TableInv, Shapes, rowVars, workerVars
  <2>6. Writing' /\ Settled'
    BY <1>1 DEF TableInv, Writing, Settled, rowVars, workerVars
  <2>7. Reading'
    BY <2>1 DEF Reading
  <2>8. Observed'
    <3>1. ASSUME NEW r \in RegisteredRows, r # at
          PROVE  seen'[r] = seen[r] /\ output'[r] = output[r] /\ Captured(r)' = Captured(r)
      BY <3>1, <1>1, <2>1, <2>4 DEF TableInv, Shapes, Captured
    <3>2. \A r \in RegisteredRows : r = at =>
             output'[r] = committed[at] /\ Captured(r)' = committed[at] /\ seen'[r] = first
      BY <1>1, <1>4, <2>1, <2>3, <2>4 DEF TableInv, Shapes, Captured
    <3>3. rows[at] = Unseen \/ rows[at].seq < first
      <4>1. /\ Captured(at) # Unseen => Captured(at).seq < first
        <5>1. Captured(at) # Unseen => Captured(at) \in Published
          BY <1>4 DEF TableInv, Shapes, Captured
        <5>2. Captured(at) # Unseen => Captured(at).seq <= first /\ Captured(at).seq # first
          BY <1>4, <2>3 DEF TableInv, Observed
        <5>. QED BY <5>1, <5>2, <2>3
      <4>2. CASE output[at] = Unseen
        BY <4>1, <4>2 DEF Captured
      <4>3. CASE output[at] # Unseen
        <5>1. rows[at] = Unseen \/ rows[at].seq < output[at].seq
          BY <1>4, <4>3 DEF TableInv, Observed
        <5>2. output[at].seq < first
          BY <4>1, <4>3 DEF Captured
        <5>3. rows[at] \in Published \cup {Unseen} /\ output[at] \in Published
          BY <1>4, <4>3 DEF TableInv, Shapes
        <5>. QED BY <5>1, <5>2, <5>3, <2>3
      <4>. QED BY <4>2, <4>3
    <3>4. \A r \in RegisteredRows : r # at =>
             seen'[r] = seen[r] /\ output'[r] = output[r] /\ Captured(r)' = Captured(r)
      BY <3>1
    <3>5. ASSUME NEW r \in RegisteredRows
          PROVE  /\ seen'[r] = Captured(r)'.seq
                 /\ Captured(r)' # Unseen => committed[r] # Unseen /\ Captured(r)'.seq <= committed[r].seq
                 /\ output'[r] # Unseen => rows[r] = Unseen \/ rows[r].seq < output'[r].seq
      <4>1. CASE r = at
        BY <4>1, <2>3, <3>2, <3>3
      <4>2. CASE r # at
        BY <4>2, <3>4 DEF TableInv, Observed
      <4>. QED BY <4>1, <4>2
    <3>. QED BY <1>1, <2>1, <3>5 DEF Observed, rowVars
  <2>. QED BY <1>1, <1>4, <2>4, <2>5, <2>6, <2>7, <2>8 DEF TableInv, rowVars
<1>5. CASE word[at] = first /\ seen[at] # first /\ at \notin RegisteredRows
  <2>1. seen' = [seen EXCEPT ![at] = first] /\ output' = [output EXCEPT ![at] = Snapshot(first, scratch)]
    BY <1>5 DEF ReadEnd
  <2>2. UNCHANGED <<seen, output>>
    BY <1>5, <2>1 DEF TableInv, Shapes
  <2>. QED BY <1>3, <1>5, <2>2
<1>6. word[at] = first /\ seen[at] = first => UNCHANGED <<seen, output>>
  BY DEF ReadEnd
<1>. QED BY <1>2, <1>3, <1>4, <1>5, <1>6

\* Delivering a batch changes nothing of what has been captured.
LEMMA DeliverInv ==
    ASSUME TableInv, Deliver
    PROVE  /\ TableInv' /\ committed' = committed
           /\ \A r \in RegisteredRows : Captured(r)' = Captured(r)
<1>. USE PublishedFacts
<1>1. /\ rpc = "scan" /\ rpc' = "idle"
      /\ UNCHANGED <<rowVars, workerVars, seen, phase, at, first, copied, scratch>>
  BY DEF Deliver, hintVars, captureVars
<1>2. /\ output' = [r \in RegisteredRows |-> Unseen]
      /\ rows' = [r \in RegisteredRows |->
                    IF /\ output[r] # Unseen
                       /\ rows[r] = Unseen \/ output[r].seq > rows[r].seq
                    THEN output[r] ELSE rows[r]]
  BY DEF Deliver
<1>3. \A r \in RegisteredRows : rows'[r] = Captured(r) /\ output'[r] = Unseen
  BY <1>2 DEF TableInv, Shapes, Observed, Captured
<1>4. \A r \in RegisteredRows : Captured(r)' = Captured(r)
  BY <1>3 DEF Captured
<1>5. Shapes'
  BY <1>1, <1>2 DEF TableInv, Shapes, rowVars, workerVars
<1>6. Writing' /\ Settled' /\ Reading'
  BY <1>1 DEF TableInv, Writing, Settled, Reading, rowVars, workerVars
<1>7. Observed'
  BY <1>1, <1>3, <1>4 DEF TableInv, Observed, rowVars
<1>. QED BY <1>1, <1>4, <1>5, <1>6, <1>7 DEF TableInv, rowVars

\* The barrier: no worker is inside a publication and no poll is in progress.
LEMMA ResetInv ==
    ASSUME TableInv, Reset
    PROVE  /\ TableInv'
           /\ \A r \in RegisteredRows :
                 /\ committed'[r] = IF IsPriority(r) THEN committed[r] ELSE Unseen
                 /\ Captured(r)' = IF IsPriority(r) THEN Captured(r) ELSE Unseen
<1>. USE PublishedFacts
<1>1. /\ rpc = "idle" /\ \A w \in WorkerIds : wpc[w] = "idle"
      /\ UNCHANGED <<workerVars, rpc, phase, at, first, copied, scratch, output>>
  BY DEF Reset, captureVars
<1>2. /\ word' = [r \in Rows |-> IF IsPriority(r) THEN word[r] ELSE Invalid]
      /\ data' = [r \in Rows |-> IF IsPriority(r) THEN data[r] ELSE EmptyPayload]
      /\ committed' = [r \in Rows |-> IF IsPriority(r) THEN committed[r] ELSE Unseen]
      /\ rows' = [r \in RegisteredRows |-> IF IsPriority(r) THEN rows[r] ELSE Unseen]
      /\ seen' = [r \in RegisteredRows |-> IF IsPriority(r) THEN seen[r] ELSE Invalid]
  BY DEF Reset, TableInv, Shapes
<1>3. \A r \in RegisteredRows : output[r] = Unseen /\ output'[r] = Unseen
  BY <1>1 DEF TableInv, Observed
<1>4. \A r \in RegisteredRows :
         /\ committed'[r] = IF IsPriority(r) THEN committed[r] ELSE Unseen
         /\ Captured(r)' = IF IsPriority(r) THEN Captured(r) ELSE Unseen
  BY <1>2, <1>3 DEF Captured
<1>5. Shapes'
  <2>1. word' \in [Rows -> 0 .. SeqSpace] /\ seen' \in [RegisteredRows -> 0 .. SeqSpace]
    BY <1>2 DEF TableInv, Shapes, Invalid
  <2>2. data' \in [Rows -> Payloads] /\ committed' \in [Rows -> Published \cup {Unseen}]
    BY <1>2 DEF TableInv, Shapes
  <2>3. rows' \in [RegisteredRows -> Published \cup {Unseen}]
    BY <1>2 DEF TableInv, Shapes
  <2>. QED BY <1>1, <2>1, <2>2, <2>3 DEF TableInv, Shapes, workerVars
<1>6. Writing'
  BY <1>1 DEF Writing, workerVars
<1>7. Settled'
  BY <1>1, <1>2 DEF TableInv, Settled, workerVars
<1>8. Reading'
  BY <1>1 DEF TableInv, Reading
<1>9. Observed'
  <2>1. \A r \in RegisteredRows : IsPriority(r) =>
           /\ seen'[r] = seen[r] /\ Captured(r)' = Captured(r) /\ committed'[r] = committed[r]
    BY <1>2, <1>4
  <2>2. \A r \in RegisteredRows : ~IsPriority(r) => seen'[r] = Invalid /\ Captured(r)' = Unseen
    BY <1>2, <1>4
  <2>. QED BY <1>3, <2>1, <2>2 DEF TableInv, Observed
<1>. QED BY <1>4, <1>5, <1>6, <1>7, <1>8, <1>9 DEF TableInv

-----------------------------------------------------------------------------
\* What a step of the table does, seen from outside: it changes neither the
\* committed snapshots nor the captured ones.
Silent ==
    \A r \in RegisteredRows : committed'[r] = committed[r] /\ Captured(r)' = Captured(r)

\* Every step keeps the invariant, and is silent or a step of AtomicTable.
LEMMA TableStep ==
    ASSUME TableInv, [Next]_vars
    PROVE  TableInv' /\ (Silent \/ Atomic!Next)
<1>. USE PublishedFacts
<1>1. ASSUME UNCHANGED <<committed, output, rows>> PROVE Silent
  BY <1>1 DEF Silent, Captured
<1>2. ASSUME NEW w \in WorkerIds, WorkerStep(w) PROVE TableInv' /\ (Silent \/ Atomic!Next)
  <2>1. CASE Commit(w)
    <3>1. TableInv'
      BY <2>1, CommitInv
    <3>2. /\ wrow[w] \in Rows /\ wseq[w] = Successor(committed[wrow[w]])
          /\ data[wrow[w]] \in Payloads
          /\ committed' = [committed EXCEPT ![wrow[w]] = Snapshot(wseq[w], data[wrow[w]])]
          /\ UNCHANGED <<output, rows>>
      BY <2>1 DEF Commit, TableInv, Shapes, Writing, engineVars
    <3>3. \A r \in RegisteredRows : Captured(r)' = Captured(r)
      BY <3>2 DEF Captured
    <3>4. CASE wrow[w] \in RegisteredRows
      <4>1. [r \in RegisteredRows |-> committed'[r]] =
               [[r \in RegisteredRows |-> committed[r]] EXCEPT ![wrow[w]] =
                  [seq |-> IF committed[wrow[w]] = Unseen THEN 0 ELSE committed[wrow[w]].seq + 1,
                   data |-> data[wrow[w]]]]
        BY <3>2, <3>4 DEF TableInv, Shapes, Snapshot, Successor
      <4>2. PICK r \in RegisteredRows : r = wrow[w]
        BY <3>4
      <4>3. Atomic!Publish(r)
        BY <3>2, <3>3, <4>1, <4>2 DEF Atomic!Publish
      <4>4. Atomic!Next
        BY <4>3 DEF Atomic!Next
      <4>. QED BY <3>1, <4>4
    <3>5. CASE wrow[w] \notin RegisteredRows
      BY <3>1, <3>2, <3>3, <3>5 DEF TableInv, Shapes, Silent
    <3>. QED BY <3>4, <3>5
  <2>2. CASE StoreInvalid(w) \/ StoreField(w)
    <3>1. UNCHANGED <<committed, output, rows>>
      BY <2>2 DEF StoreInvalid, StoreField, engineVars
    <3>. QED BY <1>1, <2>2, <3>1, StoreInvalidInv, StoreFieldInv
  <2>3. CASE CheckRoom(w) \/ PushHint(w) \/ RaiseOverflow(w) \/ ExchangeDoor(w) \/ RingDoorbell(w)
    <3>1. UNCHANGED <<committed, output, rows>>
      BY <2>3 DEF CheckRoom, PushHint, RaiseOverflow, ExchangeDoor, RingDoorbell, rowVars, engineVars
    <3>. QED BY <1>1, <2>3, <3>1, NotifyInv
  <2>. QED BY <1>2, <2>1, <2>2, <2>3 DEF WorkerStep
<1>3. CASE \/ Wake \/ ClearDoor \/ TakeOverflow \/ LoadTail \/ CopyHint \/ StoreHead
           \/ StartRecovery \/ Priority \/ StartHints \/ TakeHint \/ StartScan \/ ScanRow
  BY <1>1, <1>3, PollInv
<1>4. CASE ReadBegin \/ ReadField
  BY <1>1, <1>4, ReadBeginInv, ReadFieldInv
<1>5. CASE ReadEnd
  <2>1. TableInv' /\ committed' = committed
    BY <1>5, ReadEndInv
  <2>2. CASE UNCHANGED <<output, rows>>
    BY <1>1, <2>1, <2>2
  <2>3. CASE at \in RegisteredRows /\ rows' = rows /\ output' = [output EXCEPT ![at] = committed[at]]
    <3>1. committed[at] # Unseen
      BY <1>5, <2>3 DEF ReadEnd, TableInv, Reading
    <3>2. \A r \in RegisteredRows : Captured(r)' = IF r = at THEN committed[at] ELSE Captured(r)
      BY <2>3, <3>1 DEF TableInv, Shapes, Captured
    <3>3. [r \in RegisteredRows |-> Captured(r)'] =
             [[r \in RegisteredRows |-> Captured(r)] EXCEPT ![at] =
                [r \in RegisteredRows |-> committed[r]][at]]
      BY <2>3, <3>2
    <3>4. PICK r \in RegisteredRows : r = at
      BY <2>3
    <3>5. Atomic!Observe(r)
      BY <2>1, <3>3, <3>4 DEF Atomic!Observe
    <3>6. Atomic!Next
      BY <3>5 DEF Atomic!Next
    <3>. QED BY <2>1, <3>6
  <2>. QED BY <1>5, <2>2, <2>3, ReadEndInv
<1>6. CASE Deliver
  BY <1>6, DeliverInv DEF Silent
<1>7. CASE Reset
  <2>1. \A r \in RegisteredRows :
           /\ committed'[r] = IF IsPriority(r) THEN committed[r] ELSE Unseen
           /\ Captured(r)' = IF IsPriority(r) THEN Captured(r) ELSE Unseen
    BY <1>7, ResetInv
  <2>2. Atomic!Forget
    BY <2>1 DEF Atomic!Forget
  <2>. QED BY <1>7, <2>2, ResetInv DEF Atomic!Next
<1>8. CASE UNCHANGED vars
  <2>1. UNCHANGED <<rowVars, workerVars, seen, output, rows, rpc, phase, at, first, copied, scratch>>
    BY <1>8 DEF vars, hintVars, captureVars, engineVars
  <2>2. TableInv'
    BY <2>1 DEF TableInv, Shapes, Writing, Settled, Reading, Observed, Captured, rowVars, workerVars
  <2>. QED BY <1>1, <2>1, <2>2 DEF rowVars
<1>. QED BY <1>2, <1>3, <1>4, <1>5, <1>6, <1>7, <1>8 DEF Next, ReaderStep

\* Type correctness of the shared rows, and the reasons of the seqlock, hold in
\* every reachable state.
THEOREM TableInvariant == Spec => []TableInv
<1>1. TableInv /\ [Next]_vars => TableInv'
  BY TableStep
<1>. QED BY InitInv, <1>1, PTL DEF Spec

\* The lock-free table is linearizable: with publications taking effect at
\* their last store and observations at their second load, every behaviour of
\* SharedTable is a behaviour of AtomicTable.
THEOREM TableIsAtomic == Spec => ReadsAreAtomic
<1>1. Init => Atomic!Init
  <2>. SUFFICES ASSUME Init PROVE Atomic!Init
    OBVIOUS
  <2>1. \A r \in RegisteredRows : committed[r] = Unseen
    BY PublishedFacts DEF Init
  <2>2. \A r \in RegisteredRows : Captured(r) = Unseen
    BY DEF Init, Captured
  <2>. QED BY <2>1, <2>2 DEF Atomic!Init
<1>2. TableInv /\ [Next]_vars => [Atomic!Next]_<<[r \in RegisteredRows |-> committed[r]],
                                                [r \in RegisteredRows |-> Captured(r)]>>
  <2>. SUFFICES ASSUME TableInv, [Next]_vars, Silent
                PROVE  UNCHANGED <<[r \in RegisteredRows |-> committed[r]],
                                   [r \in RegisteredRows |-> Captured(r)]>>
    BY TableStep
  <2>. QED BY DEF Silent
<1>. QED BY <1>1, <1>2, TableInvariant, PTL DEF Spec, ReadsAreAtomic, Atomic!Spec

(***************************************************************************)
(* The hints, the overflow flags and the doorbell.                         *)
(***************************************************************************)
Versions == 0 .. MaxPublications - 1
Hints == [row : Rows, seq : Versions]
Pendings == [row : RegisteredRows, seq : Versions]
DrainPoints == {"door", "flag", "load", "copy"}
ReaderPoints == DrainPoints \cup
    {"idle", "recover", "priority", "hints", "scan", "begin", "read"}
Capturing == rpc \in {"begin", "read"}
PollPhase == IF Capturing THEN phase ELSE rpc
Turns == Len(PriorityRows)

\* Where the Reader stands: the ring it drains, the row its scan has reached,
\* the row it captures, and the queues it reads.
Draining ==
    /\ rpc \in ReaderPoints
    /\ cursor \in WorkerIds
    /\ offset \in 0 .. Workers
    /\ rpc \in DrainPoints => offset < Workers
    /\ rpc \notin DrainPoints \cup {"recover"} => offset = 0
    /\ remaining \in Nat /\ count \in Nat /\ left \in Nat
    /\ rpc = "copy" => left <= count /\ count <= remaining

Recovering ==
    /\ flagged \in BOOLEAN /\ scanning \in BOOLEAN /\ rescan \in BOOLEAN
    /\ rpc \notin DrainPoints \cup {"recover"} => ~flagged
    /\ scan \in 1 .. Registered + 1
    /\ scanning => scan <= Registered

Inspecting ==
    /\ at \in RegisteredRows
    /\ Capturing => look \in Versions
    /\ Capturing /\ phase = "scan" => scanning /\ at = scan
    /\ Capturing /\ phase = "priority" => IsPriority(at)

Flags ==
    /\ overflow \in [WorkerIds -> BOOLEAN]
    /\ door \in [WorkerIds -> BOOLEAN]
    /\ late \in [WorkerIds -> BOOLEAN]
    /\ bell \in BOOLEAN

Queues ==
    /\ ring \in [WorkerIds -> Seq(Hints)]
    /\ pending \in Seq(Pendings)
    /\ rpc = "copy" => count <= Len(ring[CurrentRing])
    /\ PollPhase = "priority" => left <= Turns
    /\ PollPhase = "hints" => left <= Len(pending)

\* A worker that announces a publication still holds its row at that sequence.
Announcing(w) == wpc[w] \in {"push", "room", "full"}
Announced == \A w \in WorkerIds : Announcing(w) => Owner[wrow[w]] = w /\ word[wrow[w]] = wseq[w]

ReaderInv == Draining /\ Recovering /\ Inspecting /\ Flags /\ Queues /\ Announced

\* The drain of this poll has still to reach ring w, from the k-th one on.
Ahead(w, k) == \E j \in k .. Workers - 1 : w = (cursor + j) % Workers
WillClear(w) ==
    \/ rpc = "door" /\ Ahead(w, offset)
    \/ rpc \in {"flag", "load", "copy"} /\ Ahead(w, offset + 1)

\* A raised door means that the bell rings, is about to, or that the drain will
\* clear the door and then look behind it; an overflow or a late hint is behind a
\* raised door, unless its worker is about to raise it or the Reader is about to
\* read it.
Doorbells ==
    \A w \in WorkerIds :
        /\ door[w] => bell \/ wpc[w] = "ring" \/ WillClear(w)
        /\ overflow[w] => door[w] \/ wpc[w] = "notify" \/ (rpc = "flag" /\ w = CurrentRing)
        /\ late[w] => door[w] \/ wpc[w] = "notify" \/ (rpc \in {"flag", "load"} /\ w = CurrentRing)

\* The row of a hint has committed its publication or a later one.
Behind(h) == committed[h.row] # Unseen /\ h.seq <= committed[h.row].seq
HintsInv ==
    /\ \A w \in WorkerIds : \A i \in 1 .. Len(ring[w]) : Behind(ring[w][i])
    /\ \A i \in 1 .. Len(pending) : Behind(pending[i])
    /\ Capturing /\ phase # "priority" => Behind([row |-> at, seq |-> look])

\* Where a hint can be.
IsPending(h) == \E i \in 1 .. Len(pending) : pending[i] = h
IsQueued(w, h) == \E i \in 1 .. Len(ring[w]) : ring[w][i] = h
Latest(r) == [row |-> r, seq |-> word[r]]
BeingScanned(r) == Capturing /\ phase = "scan" /\ at = r

\* The Reader has not seen the publication that row r holds.
Owed(r) == word[r] # Invalid /\ seen[r] # word[r]

\* What brings it to the Reader.  A row inspected by the scan counts as passed:
\* then the hint that a failed capture repeats is what covers it.
Safe(r) ==
    \/ IsPriority(r)
    \/ Announcing(Owner[r]) /\ wrow[Owner[r]] = r
    \/ IsQueued(Owner[r], Latest(r))
    \/ IsPending(Latest(r))
    \/ overflow[Owner[r]] \/ flagged \/ rescan
    \/ scanning /\ scan <= r /\ ~BeingScanned(r)
    \/ Capturing /\ at = r /\ look = word[r]

\* The hints copied from the ring under the cursor are pending before the head
\* is stored.
Copied ==
    rpc = "copy" =>
        \A i \in 1 .. left :
            LET h == ring[CurrentRing][i] IN
            h.row \in RegisteredRows /\ word[h.row] = h.seq => IsPending(h)
CoverInv == Copied /\ \A r \in RegisteredRows : Owed(r) => Safe(r)

\* A capture with the committed sequence is the committed snapshot.
Agreement ==
    \A r \in RegisteredRows :
        Captured(r).seq = committed[r].seq => Captured(r) = committed[r]

\* The entries of the output array, the turn that a capture in progress holds,
\* and the turns of this poll so far.
Reported == {r \in RegisteredRows : output[r] # Unseen}
Reserved == IF Capturing /\ phase # "scan" THEN 1 ELSE 0
Allowance ==
    CASE PollPhase = "priority" -> Turns - left
      [] PollPhase = "hints" -> Turns + taken - left
      [] PollPhase = "scan" -> Turns + taken + scanned
      [] OTHER -> 0

\* The budget: the hints taken and the rows scanned share it.
Spent ==
    /\ taken \in 0 .. Budget /\ scanned \in Nat
    /\ PollPhase = "scan" => taken + scanned <= Budget
    /\ Capturing /\ phase = "scan" => taken + scanned < Budget
    /\ PollPhase \notin {"hints", "scan"} => taken = 0
    /\ PollPhase # "scan" => scanned = 0
    /\ PollPhase = "hints" => left <= taken
Entries == Cardinality(Reported)
BudgetInv == Spent /\ Entries + Reserved <= Allowance

-----------------------------------------------------------------------------
\* Counting rings and sequences.
LEMMA Counting ==
    /\ Workers \in Nat /\ 0 < Workers /\ 0 \in WorkerIds
    /\ Budget \in Nat /\ Turns \in Nat /\ Registered \in Nat /\ 0 < Registered
    /\ RegisteredRows \subseteq Rows
<1>1. Turns \in Nat
  BY TableAssumptions, LenProperties DEF Turns
<1>. QED BY <1>1, TableAssumptions DEF WorkerIds, RegisteredRows, Rows

\* The rings are drained in turn, and each gets its share of the budget.
LEMMA RingTurns ==
    /\ \A a \in Nat : a % Workers \in WorkerIds
    /\ \A c, w \in WorkerIds : \E j \in 0 .. Workers - 1 : w = (c + j) % Workers
    /\ \A a \in Nat, n \in Nat \ {0} : a \div n \in 0 .. a
<1>. USE TableAssumptions DEF WorkerIds
<1>1. \A a \in Nat : a % Workers \in 0 .. Workers - 1
  OBVIOUS
<1>2. ASSUME NEW c \in WorkerIds, NEW w \in WorkerIds
      PROVE  \E j \in 0 .. Workers - 1 : w = (c + j) % Workers
  <2>1. CASE c <= w
    <3>1. w = (c + (w - c)) % Workers /\ w - c \in 0 .. Workers - 1
      BY <2>1
    <3>. QED BY <3>1
  <2>2. CASE c > w
    <3>1. w = (c + (Workers + w - c)) % Workers /\ Workers + w - c \in 0 .. Workers - 1
      BY <2>2
    <3>. QED BY <3>1
  <2>. QED BY <2>1, <2>2
<1>3. \A a \in Nat, n \in Nat \ {0} : a \div n \in 0 .. a
  OBVIOUS
<1>. QED BY <1>1, <1>2, <1>3

\* Within the publications of a cohort, newer means a larger number.
LEMMA NewerIsGreater == \A a, b \in Versions : Newer(a, b) <=> a > b
BY TableAssumptions DEF Versions, Newer, Distance

\* What hinting a row does to the pending hints: an entry stays, or makes room
\* for a newer hint of its row; and some entry now covers the hint.
LEMMA HintedFacts ==
    ASSUME NEW q \in Seq(Pendings), NEW h \in Pendings
    PROVE  /\ Hinted(q, h) \in Seq(Pendings)
           /\ Len(Hinted(q, h)) >= Len(q)
           /\ \A i \in 1 .. Len(q) :
                 \/ Hinted(q, h)[i] = q[i]
                 \/ q[i].row = h.row /\ q[i].seq < h.seq /\ Hinted(q, h)[i] = h
           /\ \A i \in 1 .. Len(Hinted(q, h)) :
                 Hinted(q, h)[i] = h \/ (i \in 1 .. Len(q) /\ Hinted(q, h)[i] = q[i])
           /\ \E i \in 1 .. Len(Hinted(q, h)) :
                 Hinted(q, h)[i].row = h.row /\ Hinted(q, h)[i].seq >= h.seq
<1>1. /\ Len(q) \in Nat /\ \A i \in 1 .. Len(q) : q[i] \in Pendings
  BY LenProperties, ElementOfSeq
<1>2. \A i \in 1 .. Len(q) : q[i].seq \in Versions /\ h.seq \in Versions
  BY <1>1 DEF Pendings
<1>3. CASE \E i \in 1 .. Len(q) : q[i].row = h.row
  <2> DEFINE e(i) == IF q[i].row = h.row /\ Newer(h.seq, q[i].seq) THEN h ELSE q[i]
  <2>1. Hinted(q, h) = [i \in 1 .. Len(q) |-> e(i)]
    BY <1>3 DEF Hinted
  <2>2. \A i \in 1 .. Len(q) : e(i) \in Pendings
    BY <1>1
  <2>3. Hinted(q, h) \in Seq(Pendings)
    BY <1>1, <2>1, <2>2, IsASeq
  <2>4. Len(Hinted(q, h)) = Len(q)
    BY <2>3, <2>1, <1>1, LenProperties
  <2>5. \A i \in 1 .. Len(q) : e(i) = q[i] \/ (q[i].row = h.row /\ q[i].seq < h.seq /\ e(i) = h)
    BY <1>2, NewerIsGreater
  <2>6. PICK i \in 1 .. Len(q) : q[i].row = h.row
    BY <1>3
  <2>7. e(i).row = h.row /\ e(i).seq >= h.seq
    <3>1. h.seq \in Nat /\ q[i].seq \in Nat
      BY <1>2, TableAssumptions DEF Versions
    <3>2. CASE Newer(h.seq, q[i].seq)
      BY <2>6, <3>1, <3>2
    <3>3. CASE ~Newer(h.seq, q[i].seq)
      BY <1>2, <2>6, <3>1, <3>3, NewerIsGreater
    <3>. QED BY <3>2, <3>3
  <2>. HIDE DEF e
  <2>8. \A j \in 1 .. Len(q) : Hinted(q, h)[j] = e(j)
    BY <2>1
  <2>9. \A j \in 1 .. Len(q) : e(j) = q[j] \/ e(j) = h
    BY <2>5
  <2>10. \E j \in 1 .. Len(q) : Hinted(q, h)[j].row = h.row /\ Hinted(q, h)[j].seq >= h.seq
    BY <2>7, <2>8
  <2>11. \A j \in 1 .. Len(q) :
            \/ Hinted(q, h)[j] = q[j]
            \/ q[j].row = h.row /\ q[j].seq < h.seq /\ Hinted(q, h)[j] = h
    BY <2>5, <2>8
  <2>12. \A j \in 1 .. Len(q) : Hinted(q, h)[j] = h \/ (j \in 1 .. Len(q) /\ Hinted(q, h)[j] = q[j])
    BY <2>8, <2>9
  <2>. QED BY <1>1, <2>3, <2>4, <2>10, <2>11, <2>12
<1>4. CASE ~ \E i \in 1 .. Len(q) : q[i].row = h.row
  <2>1. Hinted(q, h) = Append(q, h)
    BY <1>4 DEF Hinted
  <2>2. /\ Append(q, h) \in Seq(Pendings) /\ Len(Append(q, h)) = Len(q) + 1
        /\ \A i \in 1 .. Len(q) : Append(q, h)[i] = q[i]
        /\ Append(q, h)[Len(q) + 1] = h
    BY AppendProperties
  <2>3. h.seq >= h.seq
    BY TableAssumptions DEF Pendings, Versions
  <2>4. \A i \in 1 .. Len(q) + 1 : i \in 1 .. Len(q) \/ i = Len(q) + 1
    BY <1>1
  <2>5. \E i \in 1 .. Len(q) + 1 : Append(q, h)[i].row = h.row /\ Append(q, h)[i].seq >= h.seq
    BY <1>1, <2>2, <2>3
  <2>6. \A i \in 1 .. Len(q) + 1 : Append(q, h)[i] = h \/ (i \in 1 .. Len(q) /\ Append(q, h)[i] = q[i])
    BY <2>2, <2>4
  <2>7. Len(q) + 1 >= Len(q)
    BY <1>1
  <2>. QED BY <2>1, <2>2, <2>5, <2>6, <2>7
<1>. QED BY <1>3, <1>4

\* A valid word is the sequence of the last committed snapshot.
LEMMA ValidWord ==
    ASSUME TableInv, NEW r \in Rows, word[r] # Invalid
    PROVE  word[r] \in Versions /\ committed[r] # Unseen /\ committed[r].seq = word[r]
BY PublishedFacts DEF TableInv, Shapes, Settled, Snapshot, Versions, Published

\* What a worker announces can be hinted.
LEMMA AnnouncedHint ==
    ASSUME TableInv, ReaderInv, NEW w \in WorkerIds, Announcing(w)
    PROVE  /\ [row |-> wrow[w], seq |-> wseq[w]] \in Hints
           /\ word[wrow[w]] = wseq[w] /\ wrow[w] \in Rows /\ Owner[wrow[w]] = w
           /\ committed[wrow[w]] # Unseen /\ committed[wrow[w]].seq = wseq[w]
<1>1. word[wrow[w]] = wseq[w] /\ wrow[w] \in Rows /\ Owner[wrow[w]] = w
  BY DEF ReaderInv, Announced, TableInv, Shapes
<1>2. wseq[w] # Invalid
  BY PublishedFacts DEF TableInv, Shapes, Invalid
<1>. QED BY <1>1, <1>2, ValidWord DEF Hints

\* The Reader starts between two polls with empty queues.
LEMMA ReaderInit == Init => ReaderInv
<1>. SUFFICES ASSUME Init PROVE ReaderInv
  OBVIOUS
<1>1. rpc = "idle" /\ rpc \in ReaderPoints /\ rpc \notin DrainPoints /\ ~Capturing /\ PollPhase = "idle"
  BY DEF Init, ReaderPoints, DrainPoints, Capturing, PollPhase
<1>2. Draining
  BY <1>1, Counting DEF Init, Draining
<1>3. Recovering
  <2>1. /\ flagged \in BOOLEAN /\ scanning \in BOOLEAN /\ rescan \in BOOLEAN
        /\ ~flagged /\ ~scanning
    BY DEF Init
  <2>2. scan \in 1 .. Registered + 1
    BY Counting DEF Init
  <2>. QED BY <2>1, <2>2 DEF Recovering
<1>4. Inspecting
  BY <1>1, Counting DEF Init, Inspecting, RegisteredRows
<1>5. Flags /\ Queues
  BY <1>1, EmptySeq DEF Init, Flags, Queues
<1>6. Announced
  BY DEF Init, Announced, Announcing
<1>. QED BY <1>2, <1>3, <1>4, <1>5, <1>6 DEF ReaderInv

\* The ring under the Reader's cursor.
LEMMA CurrentRingFacts ==
    ASSUME ReaderInv
    PROVE  /\ CurrentRing \in WorkerIds
           /\ ring[CurrentRing] \in Seq(Hints)
           /\ Len(ring[CurrentRing]) \in Nat
           /\ \A i \in 1 .. Len(ring[CurrentRing]) : ring[CurrentRing][i] \in Hints
<1>1. cursor + offset \in Nat
  BY Counting DEF ReaderInv, Draining, WorkerIds
<1>2. CurrentRing \in WorkerIds
  BY <1>1, RingTurns DEF CurrentRing
<1>. QED BY <1>2, LenProperties, ElementOfSeq DEF ReaderInv, Queues

\* A worker touches the rings' ends and flags only.
LEMMA ReaderOfWorker ==
    ASSUME TableInv, ReaderInv, NEW w \in WorkerIds, WorkerStep(w)
    PROVE  ReaderInv'
<1>1. UNCHANGED <<rpc, drainVars, hintVars, budgetVars, captureVars>>
  BY DEF WorkerStep, StoreInvalid, StoreField, Commit, CheckRoom, PushHint, RaiseOverflow,
         ExchangeDoor, RingDoorbell
<1>2. Draining' /\ Recovering' /\ Inspecting'
  BY <1>1 DEF ReaderInv, Draining, Recovering, Inspecting, Capturing, drainVars, hintVars,
              budgetVars, captureVars
<1>3. /\ ring' \in [WorkerIds -> Seq(Hints)]
      /\ \A v \in WorkerIds : Len(ring'[v]) >= Len(ring[v])
  <2>1. CASE PushHint(w)
    <3> DEFINE h == [row |-> wrow[w], seq |-> wseq[w]]
    <3>1. h \in Hints /\ ring' = [ring EXCEPT ![w] = Append(@, h)]
      BY <2>1, AnnouncedHint DEF PushHint, Announcing
    <3>2. ring \in [WorkerIds -> Seq(Hints)]
      BY DEF ReaderInv, Queues
    <3>3. Append(ring[w], h) \in Seq(Hints) /\ Len(Append(ring[w], h)) = Len(ring[w]) + 1
      BY <3>1, <3>2, AppendProperties
    <3>4. \A v \in WorkerIds : Len(ring[v]) \in Nat
      BY <3>2, LenProperties
    <3>. HIDE DEF h
    <3>. QED BY <3>1, <3>2, <3>3, <3>4
  <2>2. CASE ~PushHint(w)
    <3>1. ring' = ring
      BY <2>2 DEF WorkerStep, StoreInvalid, StoreField, Commit, CheckRoom, RaiseOverflow,
                  ExchangeDoor, RingDoorbell, ringVars
    <3>2. \A v \in WorkerIds : Len(ring[v]) \in Nat
      BY LenProperties DEF ReaderInv, Queues
    <3>. QED BY <3>1, <3>2 DEF ReaderInv, Queues
  <2>. QED BY <2>1, <2>2
<1>4. Flags'
  BY DEF WorkerStep, StoreInvalid, StoreField, Commit, CheckRoom, PushHint, RaiseOverflow,
         ExchangeDoor, RingDoorbell, ringVars, ReaderInv, Flags
<1>5. Queues'
  <2>1. /\ count \in Nat /\ CurrentRing \in WorkerIds
        /\ Len(ring'[CurrentRing]) \in Nat /\ Len(ring[CurrentRing]) \in Nat
    BY <1>3, CurrentRingFacts, LenProperties DEF ReaderInv, Draining
  <2>2. rpc = "copy" => count <= Len(ring'[CurrentRing])
    BY <1>3, <2>1 DEF ReaderInv, Queues
  <2>3. CurrentRing' = CurrentRing /\ PollPhase' = PollPhase
    BY <1>1 DEF CurrentRing, PollPhase, Capturing, drainVars, captureVars
  <2>. QED BY <1>1, <1>3, <2>2, <2>3 DEF ReaderInv, Queues, Turns, drainVars, hintVars, budgetVars
<1>6. Announced'
  <2>1. CASE StoreInvalid(w)
    <3>1. \A v \in WorkerIds : Announcing(v)' => v # w /\ Announcing(v) /\ wrow'[v] = wrow[v] /\ wseq'[v] = wseq[v]
      BY <2>1 DEF StoreInvalid, Announcing, TableInv, Shapes
    <3>2. \A r \in Rows : Owner[r] # w => word'[r] = word[r]
      BY <2>1 DEF StoreInvalid, TableInv, Shapes
    <3>. QED BY <3>1, <3>2 DEF ReaderInv, Announced, TableInv, Shapes
  <2>2. CASE Commit(w)
    <3>1. \A v \in WorkerIds : v # w => (Announcing(v)' => Announcing(v))
      BY <2>2 DEF Commit, Announcing, TableInv, Shapes
    <3>2. /\ wrow' = wrow /\ wseq' = wseq /\ wrow[w] \in Rows /\ Owner[wrow[w]] = w
          /\ word' = [word EXCEPT ![wrow[w]] = wseq[w]]
      BY <2>2 DEF Commit, TableInv, Shapes, Writing
    <3>3. \A r \in Rows : Owner[r] # w => word'[r] = word[r]
      BY <3>2 DEF TableInv, Shapes
    <3>4. word'[wrow[w]] = wseq[w]
      BY <3>2 DEF TableInv, Shapes
    <3>. QED BY <3>1, <3>2, <3>3, <3>4 DEF ReaderInv, Announced, TableInv, Shapes
  <2>3. CASE ~StoreInvalid(w) /\ ~Commit(w)
    <3>1. /\ word' = word
          /\ \A v \in WorkerIds : Announcing(v)' => Announcing(v) /\ wrow'[v] = wrow[v] /\ wseq'[v] = wseq[v]
      BY <2>3 DEF WorkerStep, StoreField, CheckRoom, PushHint, RaiseOverflow, ExchangeDoor,
                  RingDoorbell, Forget, rowVars, Announcing, TableInv, Shapes
    <3>. QED BY <3>1 DEF ReaderInv, Announced
  <2>. QED BY <2>1, <2>2, <2>3
<1>. QED BY <1>2, <1>4, <1>5, <1>6 DEF ReaderInv

\* The drain of the rings.
LEMMA ReaderOfDrain ==
    ASSUME TableInv, ReaderInv,
           Wake \/ ClearDoor \/ TakeOverflow \/ LoadTail \/ CopyHint \/ StoreHead \/ StartRecovery
    PROVE  ReaderInv'
<1>1. Announced'
  BY DEF ReaderInv, Announced, Announcing, Wake, ClearDoor, TakeOverflow, LoadTail, CopyHint,
         StoreHead, StartRecovery, rowVars, workerVars
<1>2. ~Capturing /\ ~Capturing' /\ at' = at
  BY DEF Capturing, Wake, ClearDoor, TakeOverflow, LoadTail, CopyHint, StoreHead, StartRecovery,
         captureVars
<1>3. Inspecting'
  BY <1>2 DEF ReaderInv, Inspecting
<1>4. Flags'
  BY Counting
     DEF Wake, ClearDoor, TakeOverflow, LoadTail, CopyHint, StoreHead, StartRecovery,
         ringVars, ReaderInv, Flags
<1>5. Recovering'
  <2>1. CASE TakeOverflow
    <3>1. overflow[CurrentRing] \in BOOLEAN
      BY CurrentRingFacts DEF ReaderInv, Flags
    <3>2. flagged' \in BOOLEAN /\ UNCHANGED hintVars /\ rpc' = "load"
      BY <2>1, <3>1 DEF TakeOverflow, ReaderInv, Recovering
    <3>. QED BY <3>2 DEF ReaderInv, Recovering, DrainPoints, hintVars
  <2>2. CASE StartRecovery
    <3>1. (scan' = 1 /\ scanning' = TRUE) \/ (scan' = scan /\ scanning' = scanning)
      BY <2>2 DEF StartRecovery
    <3>2. rescan' \in BOOLEAN /\ flagged' \in BOOLEAN /\ ~flagged'
      BY <2>2 DEF StartRecovery, ReaderInv, Recovering
    <3>3. scanning' \in BOOLEAN
      BY <3>1 DEF ReaderInv, Recovering
    <3>4. scan' \in 1 .. Registered + 1 /\ (scanning' => scan' <= Registered)
      <4>1. CASE scan' = 1
        BY <4>1, Counting
      <4>2. CASE scan' = scan /\ scanning' = scanning
        BY <4>2 DEF ReaderInv, Recovering
      <4>. QED BY <3>1, <4>1, <4>2
    <3>. QED BY <3>2, <3>3, <3>4 DEF Recovering
  <2>3. CASE ~TakeOverflow /\ ~StartRecovery
    <3>1. UNCHANGED <<flagged, scan, scanning, rescan>>
      BY <2>3 DEF Wake, ClearDoor, LoadTail, CopyHint, StoreHead, drainVars, hintVars
    <3>2. rpc' \in DrainPoints \cup {"recover"}
      BY <2>3 DEF Wake, ClearDoor, LoadTail, CopyHint, StoreHead, DrainPoints
    <3>. QED BY <3>1, <3>2 DEF ReaderInv, Recovering
  <2>. QED BY <2>1, <2>2, <2>3
<1>6. Draining' /\ Queues'
  <2>. USE DEF DrainPoints, ReaderPoints
  <2>1. CASE Wake
    <3>1. rpc' = "door" /\ remaining' = Budget
          /\ UNCHANGED <<cursor, offset, count, left, ring, pending>>
      BY <2>1 DEF Wake, hintVars, budgetVars
    <3>2. Draining'
      BY <2>1, <3>1, Counting DEF Wake, ReaderInv, Draining
    <3>3. Queues'
      BY <1>2, <3>1 DEF ReaderInv, Queues, PollPhase
    <3>. QED BY <3>2, <3>3
  <2>2. CASE ClearDoor \/ TakeOverflow
    <3>1. rpc \in {"door", "flag"} /\ rpc' \in {"flag", "load"}
          /\ UNCHANGED <<cursor, offset, remaining, count, left, ring, pending>>
      BY <2>2 DEF ClearDoor, TakeOverflow, drainVars, hintVars, budgetVars
    <3>2. Draining'
      BY <3>1 DEF ReaderInv, Draining
    <3>3. Queues'
      BY <1>2, <3>1 DEF ReaderInv, Queues, PollPhase
    <3>. QED BY <3>2, <3>3
  <2>3. CASE LoadTail
    <3> DEFINE share == remaining \div (Workers - offset)
    <3>1. Workers - offset \in Nat \ {0} /\ remaining \in Nat
      BY <2>3, Counting DEF LoadTail, ReaderInv, Draining
    <3>2. share \in 0 .. remaining
      BY <3>1, RingTurns
    <3>3. Len(ring[CurrentRing]) \in Nat
      BY CurrentRingFacts
    <3>4. /\ count' = Least(Len(ring[CurrentRing]), share) /\ left' = 0
          /\ rpc = "load" /\ rpc' = "copy"
          /\ UNCHANGED <<cursor, offset, remaining, ring, pending>>
      BY <2>3 DEF LoadTail, hintVars
    <3>. HIDE DEF share
    <3>5. count' \in Nat /\ count' <= Len(ring[CurrentRing]) /\ count' <= remaining
      BY <3>1, <3>2, <3>3, <3>4 DEF Least
    <3>6. CurrentRing' = CurrentRing
      BY <3>4 DEF CurrentRing
    <3>7. Draining'
      BY <3>4, <3>5 DEF ReaderInv, Draining
    <3>8. Queues'
      BY <1>2, <3>4, <3>5, <3>6 DEF ReaderInv, Queues, PollPhase
    <3>. QED BY <3>7, <3>8
  <2>4. CASE CopyHint
    <3> DEFINE h == ring[CurrentRing][left + 1]
    <3>1. h \in Hints
      <4>1. left + 1 \in 1 .. Len(ring[CurrentRing])
        BY <2>4, CurrentRingFacts DEF CopyHint, ReaderInv, Draining, Queues
      <4>. QED BY <4>1, CurrentRingFacts
    <3>2. pending \in Seq(Pendings)
      BY DEF ReaderInv, Queues
    <3>3. /\ pending' = IF h.row \in RegisteredRows THEN Hinted(pending, h) ELSE pending
          /\ left' = left + 1 /\ left < count /\ rpc = "copy" /\ rpc' = "copy"
          /\ UNCHANGED <<cursor, offset, remaining, count, ring>>
      BY <2>4 DEF CopyHint, ringVars, drainVars
    <3>4. h.row \in RegisteredRows => h \in Pendings
      BY <3>1 DEF Hints, Pendings
    <3>. HIDE DEF h
    <3>5. pending' \in Seq(Pendings)
      BY <3>2, <3>3, <3>4, HintedFacts
    <3>6. Draining'
      BY <3>3 DEF ReaderInv, Draining
    <3>7. Queues'
      BY <1>2, <3>3, <3>5 DEF ReaderInv, Queues, PollPhase, CurrentRing
    <3>. QED BY <3>6, <3>7
  <2>5. CASE StoreHead
    <3>1. /\ CurrentRing \in WorkerIds /\ ring[CurrentRing] \in Seq(Hints)
          /\ Len(ring[CurrentRing]) \in Nat
          /\ \A i \in 1 .. Len(ring[CurrentRing]) : ring[CurrentRing][i] \in Hints
      BY CurrentRingFacts
    <3>2. count \in Nat /\ rpc = "copy"
      BY <2>5 DEF StoreHead, ReaderInv, Draining
    <3>3. SubSeq(ring[CurrentRing], count + 1, Len(ring[CurrentRing])) \in Seq(Hints)
      BY <3>1, <3>2, SubSeqProperties
    <3>4. ring' \in [WorkerIds -> Seq(Hints)]
      BY <2>5, <3>1, <3>3 DEF StoreHead, ReaderInv, Queues
    <3>5. Draining'
      BY <2>5, Counting DEF StoreHead, ReaderInv, Draining
    <3>6. Queues'
      BY <1>2, <2>5, <3>4 DEF StoreHead, ReaderInv, Queues, PollPhase, hintVars
    <3>. QED BY <3>5, <3>6
  <2>6. CASE StartRecovery
    <3>1. cursor + 1 \in Nat
      BY Counting DEF ReaderInv, Draining, WorkerIds
    <3>2. (cursor + 1) % Workers \in WorkerIds
      BY <3>1, RingTurns
    <3>3. Draining'
      BY <2>6, <3>2, Counting DEF StartRecovery, ReaderInv, Draining, Turns
    <3>4. left' = Turns /\ PollPhase' = "priority" /\ UNCHANGED <<ring, pending>>
      BY <1>2, <2>6 DEF StartRecovery, Turns, PollPhase, ringVars
    <3>5. Queues'
      BY <2>6, <3>4, Counting DEF StartRecovery, ReaderInv, Queues, Turns
    <3>. QED BY <3>3, <3>5
  <2>. QED BY <2>1, <2>2, <2>3, <2>4, <2>5, <2>6
<1>. QED BY <1>1, <1>3, <1>4, <1>5, <1>6 DEF ReaderInv

\* A step of the poll after the drain keeps what it does not touch.
LEMMA ReaderOfQuiet ==
    ASSUME ReaderInv,
           UNCHANGED <<ringVars, wpc, wrow, wseq, word, cursor, offset, remaining, count, flagged, rescan>>,
           rpc \notin DrainPoints \cup {"recover"},
           rpc' \in ReaderPoints \ (DrainPoints \cup {"recover"}),
           left' \in Nat
    PROVE  Draining' /\ Flags' /\ Announced'
BY DEF ReaderInv, Draining, Flags, Announced, Announcing, ringVars, ReaderPoints, DrainPoints

\* capture starts.
LEMMA CaptureStarts ==
    ASSUME NEW p, NEW r, NEW s, StartCapture(p, r, s)
    PROVE  Capturing' /\ rpc' = "begin" /\ phase' = p /\ PollPhase' = p /\ at' = r /\ look' = s
BY DEF StartCapture, Capturing, PollPhase

\* One iteration of the scan loop passes one row.
LEMMA ScanAdvances ==
    ASSUME ReaderInv, scanning, AdvanceScan
    PROVE  /\ scan \in RegisteredRows /\ scan' = scan + 1
           /\ scan' \in 1 .. Registered + 1 /\ scanning' \in BOOLEAN
           /\ scanning' <=> scan < Registered
           /\ scanning' => scan' <= Registered
<1>1. scan \in RegisteredRows
  BY DEF ReaderInv, Recovering, RegisteredRows
<1>2. scan' = scan + 1 /\ scan \in Nat /\ scan' \in 1 .. Registered + 1
  BY <1>1, Counting DEF AdvanceScan, RegisteredRows
<1>3. (scanning' <=> scan < Registered) /\ scanning' \in BOOLEAN
  <2>1. (scan < Registered) \in BOOLEAN
    OBVIOUS
  <2>2. scanning' = (scan < Registered)
    BY DEF AdvanceScan
  <2>. QED BY <2>1, <2>2, Zenon
<1>4. scan < Registered => scan + 1 <= Registered
  BY <1>2, Counting
<1>. QED BY <1>1, <1>2, <1>3, <1>4

\* The loops of poll that start a capture.
LEMMA ReaderOfLoops ==
    ASSUME TableInv, ReaderInv,
           Priority \/ StartHints \/ TakeHint \/ StartScan \/ ScanRow
    PROVE  ReaderInv'
<1>. USE Counting DEF DrainPoints, ReaderPoints
<1>1. /\ ~Capturing /\ rpc \in {"priority", "hints", "scan"} /\ PollPhase = rpc
      /\ UNCHANGED <<ringVars, wpc, wrow, wseq, word, cursor, offset, remaining, count, flagged, rescan>>
  BY DEF Priority, StartHints, TakeHint, StartScan, ScanRow, Capturing, PollPhase, rowVars,
         workerVars, drainVars, hintVars
<1>2. CASE Priority
  <2> DEFINE r == PriorityRows[Turns - left + 1]
  <2>1. left' = left - 1 /\ left' \in Nat /\ left \in 1 .. Turns /\ rpc = "priority"
    BY <1>1, <1>2 DEF Priority, ReaderInv, Draining, Queues
  <2>2. Turns - left + 1 \in 1 .. Len(PriorityRows)
    BY <2>1 DEF Turns
  <2>3. r \in RegisteredRows /\ IsPriority(r)
    BY <2>2, TableAssumptions, ElementOfSeq DEF IsPriority
  <2>4. \/ /\ StartCapture("priority", r, word[r])
           /\ word[r] # Invalid
        \/ UNCHANGED <<rpc, captureVars>>
    BY <1>2 DEF Priority, Turns
  <2>5. word[r] # Invalid => word[r] \in Versions
    BY <2>3, ValidWord
  <2>6. rpc' \in {"priority", "begin"} /\ PollPhase' = "priority" /\ UNCHANGED <<pending, scan, scanning>>
    BY <1>1, <1>2, <2>1, <2>4, CaptureStarts DEF Priority, PollPhase, Capturing, captureVars, hintVars
  <2>. HIDE DEF r
  <2>7. Draining' /\ Flags' /\ Announced'
    BY <1>1, <2>1, <2>6, ReaderOfQuiet
  <2>8. Recovering'
    BY <1>1, <2>6 DEF ReaderInv, Recovering
  <2>9. Inspecting'
    <3>1. CASE StartCapture("priority", r, word[r]) /\ word[r] # Invalid
      BY <2>3, <2>5, <3>1, CaptureStarts DEF Inspecting
    <3>2. CASE UNCHANGED <<rpc, captureVars>>
      BY <1>1, <2>6, <3>2 DEF ReaderInv, Inspecting, Capturing, captureVars
    <3>. QED BY <2>4, <3>1, <3>2
  <2>10. Queues'
    BY <1>1, <2>1, <2>6 DEF ReaderInv, Queues, Turns, ringVars
  <2>. QED BY <2>7, <2>8, <2>9, <2>10 DEF ReaderInv
<1>3. CASE StartHints
  <2>1. Len(pending) \in Nat
    BY LenProperties DEF ReaderInv, Queues
  <2>2. left' = Least(Len(pending), IF scanning THEN Budget \div 2 ELSE Budget)
    BY <1>3 DEF StartHints
  <2>3. Budget \div 2 \in Nat
    BY RingTurns
  <2>4. left' \in Nat /\ left' <= Len(pending)
    BY <2>1, <2>2, <2>3 DEF Least
  <2>5. rpc' = "hints" /\ ~Capturing' /\ PollPhase' = "hints" /\ UNCHANGED <<pending, scan, scanning, at>>
    BY <1>3 DEF StartHints, Capturing, PollPhase, hintVars, captureVars
  <2>6. Draining' /\ Flags' /\ Announced'
    BY <1>1, <2>4, <2>5, ReaderOfQuiet
  <2>7. Recovering' /\ Inspecting'
    BY <1>1, <2>5 DEF ReaderInv, Recovering, Inspecting
  <2>8. Queues'
    BY <1>1, <2>4, <2>5 DEF ReaderInv, Queues, Turns, ringVars
  <2>. QED BY <2>6, <2>7, <2>8 DEF ReaderInv
<1>4. CASE TakeHint
  <2> DEFINE h == Head(pending)
  <2>1. left' = left - 1 /\ left' \in Nat /\ left \in 1 .. Len(pending) /\ rpc = "hints"
    BY <1>1, <1>4, LenProperties DEF TakeHint, ReaderInv, Draining, Queues
  <2>2. pending \in Seq(Pendings) /\ pending # <<>>
    BY <2>1, EmptySeq DEF ReaderInv, Queues
  <2>3. h \in Pendings /\ Tail(pending) \in Seq(Pendings) /\ Len(Tail(pending)) = Len(pending) - 1
    BY <2>2, HeadTailProperties
  <2>4. StartCapture("hints", h.row, h.seq) \/ UNCHANGED <<rpc, captureVars>>
    BY <1>4 DEF TakeHint
  <2>5. rpc' \in {"hints", "begin"} /\ PollPhase' = "hints" /\ pending' = Tail(pending) /\ UNCHANGED <<scan, scanning>>
    BY <1>1, <1>4, <2>1, <2>4, CaptureStarts DEF TakeHint, PollPhase, Capturing, captureVars
  <2>6. h.row \in RegisteredRows /\ h.seq \in Versions
    BY <2>3 DEF Pendings
  <2>. HIDE DEF h
  <2>7. Draining' /\ Flags' /\ Announced'
    BY <1>1, <2>1, <2>5, ReaderOfQuiet
  <2>8. Recovering'
    BY <1>1, <2>5 DEF ReaderInv, Recovering
  <2>9. Inspecting'
    <3>1. CASE StartCapture("hints", h.row, h.seq)
      BY <2>6, <3>1, CaptureStarts DEF Inspecting
    <3>2. CASE UNCHANGED <<rpc, captureVars>>
      BY <1>1, <2>5, <3>2 DEF ReaderInv, Inspecting, Capturing, captureVars
    <3>. QED BY <2>4, <3>1, <3>2
  <2>10. Queues'
    BY <1>1, <2>1, <2>3, <2>5 DEF ReaderInv, Queues, Turns, ringVars
  <2>. QED BY <2>7, <2>8, <2>9, <2>10 DEF ReaderInv
<1>5. CASE StartScan
  <2>1. rpc' = "scan" /\ ~Capturing' /\ PollPhase' = "scan" /\ UNCHANGED <<pending, scan, scanning, at, left>>
    BY <1>5 DEF StartScan, Capturing, PollPhase, hintVars, captureVars, budgetVars
  <2>2. Draining' /\ Flags' /\ Announced'
    BY <1>1, <2>1, ReaderOfQuiet DEF ReaderInv, Draining
  <2>3. Recovering' /\ Inspecting'
    BY <1>1, <2>1 DEF ReaderInv, Recovering, Inspecting
  <2>4. Queues'
    BY <1>1, <2>1 DEF ReaderInv, Queues, Turns, ringVars
  <2>. QED BY <2>2, <2>3, <2>4 DEF ReaderInv
<1>6. CASE ScanRow
  <2>1. /\ rpc = "scan" /\ scanning /\ scan \in RegisteredRows /\ UNCHANGED <<pending, left>>
    BY <1>6 DEF ScanRow, ReaderInv, Recovering, RegisteredRows
  <2>2. \/ /\ StartCapture("scan", scan, word[scan]) /\ word[scan] # Invalid
           /\ UNCHANGED <<scan, scanning>>
        \/ AdvanceScan /\ UNCHANGED <<rpc, captureVars>>
    BY <1>6 DEF ScanRow
  <2>3. word[scan] # Invalid => word[scan] \in Versions
    BY <2>1, ValidWord
  <2>4. rpc' \in {"scan", "begin"} /\ PollPhase' = "scan"
    BY <1>1, <2>1, <2>2, CaptureStarts DEF PollPhase, Capturing, captureVars
  <2>5. Draining' /\ Flags' /\ Announced'
    BY <1>1, <2>1, <2>4, ReaderOfQuiet DEF ReaderInv, Draining
  <2>6. Recovering' /\ Inspecting'
    <3>1. CASE StartCapture("scan", scan, word[scan]) /\ word[scan] # Invalid /\ UNCHANGED <<scan, scanning>>
      BY <1>1, <2>1, <2>3, <2>4, <3>1, CaptureStarts DEF ReaderInv, Recovering, Inspecting
    <3>2. CASE AdvanceScan /\ UNCHANGED <<rpc, captureVars>>
      <4>1. ~Capturing' /\ UNCHANGED <<rpc, at>>
        BY <1>1, <3>2 DEF Capturing, captureVars
      <4>2. scan' \in 1 .. Registered + 1 /\ (scanning' => scan' <= Registered) /\ scanning' \in BOOLEAN
        BY <2>1, <3>2, ScanAdvances
      <4>3. Recovering'
        BY <1>1, <2>4, <4>2 DEF ReaderInv, Recovering
      <4>4. Inspecting'
        BY <4>1 DEF ReaderInv, Inspecting
      <4>. QED BY <4>3, <4>4
    <3>. QED BY <2>2, <3>1, <3>2
  <2>7. Queues'
    BY <1>1, <2>1, <2>4 DEF ReaderInv, Queues, Turns, ringVars
  <2>. QED BY <2>5, <2>6, <2>7 DEF ReaderInv
<1>. QED BY <1>2, <1>3, <1>4, <1>5, <1>6

\* capture returns: its loop goes on, and a scan has passed the row.
LEMMA CaptureReturns ==
    ASSUME TableInv, ReaderInv, Capturing, Return
    PROVE  /\ ~Capturing' /\ rpc' = phase /\ PollPhase' = phase /\ PollPhase = phase
           /\ phase \in ReaderPhases
           /\ at' \in RegisteredRows
           /\ scan' \in 1 .. Registered + 1 /\ scanning' \in BOOLEAN
           /\ scanning' => scan' <= Registered
           /\ \/ phase = "scan" /\ scanning /\ scan = at /\ scan' = scan + 1
              \/ phase # "scan" /\ UNCHANGED <<scan, scanning>>
           /\ phase = "scan" => (scanning' <=> scan < Registered)
<1>1. /\ rpc' = phase /\ phase \in ReaderPhases /\ at' = 1 /\ PollPhase = phase
      /\ IF phase = "scan" THEN AdvanceScan ELSE UNCHANGED <<scan, scanning, scanned>>
  BY DEF Return, TableInv, Shapes, PollPhase
<1>2. ~Capturing' /\ PollPhase' = phase
  BY <1>1 DEF Capturing, PollPhase, ReaderPhases
<1>3. at' \in RegisteredRows
  BY <1>1, Counting DEF RegisteredRows
<1>4. CASE phase = "scan"
  <2>1. scanning /\ scan = at /\ AdvanceScan
    BY <1>1, <1>4 DEF ReaderInv, Inspecting
  <2>. QED BY <1>1, <1>2, <1>3, <1>4, <2>1, ScanAdvances
<1>5. CASE phase # "scan"
  <2>1. UNCHANGED <<scan, scanning>>
    BY <1>1, <1>5
  <2>2. scan' \in 1 .. Registered + 1 /\ (scanning' => scan' <= Registered) /\ scanning' \in BOOLEAN
    BY <2>1 DEF ReaderInv, Recovering
  <2>. QED BY <1>1, <1>2, <1>3, <1>5, <2>1, <2>2
<1>. QED BY <1>4, <1>5

\* After a capture the hints are the same, or the row is hinted again.
Rehinted == pending' = pending \/ pending' = Hinted(pending, [row |-> at, seq |-> look])

\* An attempt ends: it is tried again, or capture returns.
LEMMA ReaderOfAttempt ==
    ASSUME TableInv, ReaderInv, Capturing,
           UNCHANGED <<ringVars, wpc, wrow, wseq, word, cursor, offset, remaining, count, flagged, rescan, left>>,
           Rehinted,
           \/ Return
           \/ /\ rpc' \in {"begin", "read"}
              /\ UNCHANGED <<phase, at, look, scan, scanning>>
    PROVE  ReaderInv'
<1>. USE DEF ReaderPoints
<1>1. rpc \notin DrainPoints \cup {"recover"} /\ PollPhase = phase
  BY DEF Capturing, DrainPoints, PollPhase
<1>2. pending \in Seq(Pendings) /\ [row |-> at, seq |-> look] \in Pendings /\ Len(pending) \in Nat
  BY LenProperties DEF ReaderInv, Queues, Inspecting, Pendings
<1>3. pending' \in Seq(Pendings) /\ Len(pending') >= Len(pending) /\ Len(pending') \in Nat
  <2>1. CASE pending' = pending
    BY <1>2, <2>1
  <2>2. CASE pending' = Hinted(pending, [row |-> at, seq |-> look])
    <3>1. pending' \in Seq(Pendings) /\ Len(pending') >= Len(pending)
      BY <1>2, <2>2, HintedFacts
    <3>. QED BY <3>1, LenProperties
  <2>. QED BY <2>1, <2>2 DEF Rehinted
<1>4. CASE Return
  <2>1. rpc' \in ReaderPoints \ (DrainPoints \cup {"recover"})
    BY <1>4, CaptureReturns DEF ReaderPhases, DrainPoints
  <2>2. Draining' /\ Flags' /\ Announced'
    BY <1>1, <2>1, ReaderOfQuiet DEF ReaderInv, Draining
  <2>3. Recovering'
    BY <1>4, <1>1, <2>1, CaptureReturns DEF ReaderInv, Recovering
  <2>4. Inspecting'
    BY <1>4, CaptureReturns DEF Inspecting
  <2>5. Queues'
    <3>1. PollPhase' = PollPhase /\ rpc' # "copy" /\ UNCHANGED <<ring, left>>
      BY <1>4, <2>1, CaptureReturns DEF DrainPoints, ringVars
    <3>2. left \in Nat
      BY DEF ReaderInv, Draining
    <3>. QED BY <1>2, <1>3, <3>1, <3>2 DEF ReaderInv, Queues, Turns
  <2>. QED BY <2>2, <2>3, <2>4, <2>5 DEF ReaderInv
<1>5. CASE rpc' \in {"begin", "read"} /\ UNCHANGED <<phase, at, look, scan, scanning>>
  <2>1. rpc' \in ReaderPoints \ (DrainPoints \cup {"recover"}) /\ Capturing'
    BY <1>5 DEF DrainPoints, Capturing
  <2>2. Draining' /\ Flags' /\ Announced'
    BY <1>1, <2>1, ReaderOfQuiet DEF ReaderInv, Draining
  <2>3. Recovering' /\ Inspecting'
    BY <1>1, <1>5, <2>1 DEF ReaderInv, Recovering, Inspecting
  <2>4. Queues'
    <3>1. PollPhase' = PollPhase /\ rpc' # "copy" /\ UNCHANGED <<ring, left>>
      BY <1>1, <1>5, <2>1 DEF PollPhase, ringVars
    <3>2. left \in Nat
      BY DEF ReaderInv, Draining
    <3>. QED BY <1>2, <1>3, <3>1, <3>2 DEF ReaderInv, Queues, Turns
  <2>. QED BY <2>2, <2>3, <2>4 DEF ReaderInv
<1>. QED BY <1>4, <1>5

\* What a step of sd_table_read does to the control of the poll: the attempt
\* goes on or starts again, capture returns with the row, or it gives up.
LEMMA CaptureSteps ==
    ASSUME ReadBegin \/ ReadField \/ ReadEnd
    PROVE  /\ Capturing /\ Rehinted
           /\ UNCHANGED <<rowVars, ringVars, workerVars, drainVars, rescan, left, taken, rows, resets>>
           /\ \/ /\ rpc' \in {"begin", "read"}
                 /\ UNCHANGED <<phase, at, look, scan, scanning, scanned, seen, output, pending>>
              \/ /\ Return /\ pending' = pending /\ word[at] = first /\ rpc = "read" /\ copied = Fields
                 /\ \/ seen[at] = first /\ UNCHANGED <<seen, output>>
                    \/ /\ seen[at] # first /\ seen' = [seen EXCEPT ![at] = first]
                       /\ output' = [output EXCEPT ![at] = Snapshot(first, scratch)]
              \/ /\ Return /\ UNCHANGED <<seen, output>>
                 /\ IF phase = "priority" THEN pending' = pending
                    ELSE pending' = Hinted(pending, [row |-> at, seq |-> look])
BY DEF ReadBegin, ReadField, ReadEnd, Retry, Capturing, Rehinted, hintVars, budgetVars, engineVars, captureVars

\* A step of capture keeps the position of the poll: it goes on, tries again, or
\* returns to the loop that called it.
LEMMA ReaderOfCapture ==
    ASSUME TableInv, ReaderInv, ReadBegin \/ ReadField \/ ReadEnd
    PROVE  ReaderInv'
BY CaptureSteps, ReaderOfAttempt DEF rowVars, workerVars, drainVars

\* Between polls.
LEMMA ReaderOfEnds ==
    ASSUME TableInv, ReaderInv, Deliver \/ Reset
    PROVE  ReaderInv'
<1>1. CASE Deliver
  <2>1. /\ rpc = "scan" /\ rpc' = "idle" /\ left' = 0 /\ ~Capturing'
        /\ UNCHANGED <<rowVars, ringVars, workerVars, drainVars, hintVars, captureVars>>
    BY <1>1 DEF Deliver, Capturing
  <2>2. Draining' /\ Flags' /\ Announced'
    BY <2>1, ReaderOfQuiet
       DEF ReaderPoints, DrainPoints, rowVars, workerVars, drainVars, hintVars
  <2>3. Recovering' /\ Inspecting'
    BY <2>1 DEF ReaderInv, Recovering, Inspecting, DrainPoints, drainVars, hintVars, captureVars
  <2>4. Queues'
    BY <2>1 DEF ReaderInv, Queues, PollPhase, ringVars, hintVars
  <2>. QED BY <2>2, <2>3, <2>4 DEF ReaderInv
<1>2. CASE Reset
  <2>1. /\ rpc = "idle" /\ rpc' = "idle" /\ ~Capturing' /\ ~Capturing
        /\ UNCHANGED <<workerVars, drainVars, scan, left, at>>
        /\ \A w \in WorkerIds : ~Announcing(w)
    BY <1>2 DEF Reset, Capturing, Announcing, budgetVars, captureVars
  <2>2. Draining'
    BY <2>1 DEF ReaderInv, Draining, drainVars
  <2>3. scanning' = FALSE /\ rescan' = FALSE /\ UNCHANGED <<flagged, scan, rpc>>
    BY <1>2 DEF Reset, drainVars
  <2>4. Recovering'
    <3>1. scanning' \in BOOLEAN /\ rescan' \in BOOLEAN /\ ~scanning'
      BY <2>3
    <3>. QED BY <2>3, <3>1 DEF ReaderInv, Recovering
  <2>5. Inspecting'
    BY <2>1 DEF ReaderInv, Inspecting
  <2>6. Flags'
    BY <1>2 DEF Reset, ReaderInv, Flags
  <2>7. Queues'
    <3>1. ring' = [w \in WorkerIds |-> <<>>] /\ pending' = <<>> /\ PollPhase' = "idle"
      BY <1>2, <2>1 DEF Reset, PollPhase
    <3>. QED BY <2>1, <3>1, EmptySeq DEF Queues
  <2>8. Announced'
    BY <2>1 DEF Announced, Announcing, workerVars
  <2>. QED BY <2>2, <2>4, <2>5, <2>6, <2>7, <2>8 DEF ReaderInv
<1>. QED BY <1>1, <1>2

\* Every step keeps the queues and the program point of the Reader in order.
LEMMA ReaderStepInv == ASSUME TableInv, ReaderInv, [Next]_vars PROVE ReaderInv'
<1>1. CASE UNCHANGED vars
  BY <1>1 DEF vars, rowVars, ringVars, workerVars, drainVars, hintVars, budgetVars, captureVars,
              ReaderInv, Draining, Recovering, Inspecting, Flags, Queues, Announced, Announcing,
              Capturing, PollPhase, CurrentRing, Turns
<1>. QED BY <1>1, ReaderOfWorker, ReaderOfDrain, ReaderOfLoops, ReaderOfCapture, ReaderOfEnds
         DEF Next, ReaderStep

-----------------------------------------------------------------------------
\* The doorbell.
LEMMA DoorbellsOfWorker ==
    ASSUME TableInv, ReaderInv, Doorbells, NEW w \in WorkerIds, WorkerStep(w)
    PROVE  Doorbells'
<1>1. UNCHANGED <<rpc, cursor, offset>>
  BY DEF WorkerStep, StoreInvalid, StoreField, Commit, CheckRoom, PushHint, RaiseOverflow,
         ExchangeDoor, RingDoorbell, drainVars
<1>2. \A v \in WorkerIds : WillClear(v)' = WillClear(v) /\ CurrentRing' = CurrentRing
  BY <1>1 DEF WillClear, Ahead, CurrentRing
<1>3. /\ wpc \in [WorkerIds -> WorkerPoints] /\ Flags
  BY DEF TableInv, Shapes, ReaderInv
<1>4. CASE StoreInvalid(w) \/ StoreField(w) \/ Commit(w) \/ CheckRoom(w)
  <2>1. /\ UNCHANGED <<door, overflow, late, bell>>
        /\ \A v \in WorkerIds : wpc[v] \in {"notify", "ring"} => wpc'[v] = wpc[v]
    BY <1>3, <1>4 DEF StoreInvalid, StoreField, Commit, CheckRoom, ringVars
  <2>. QED BY <1>1, <1>2, <2>1 DEF Doorbells
<1>5. CASE PushHint(w) \/ RaiseOverflow(w)
  <2>1. /\ UNCHANGED <<door, bell>> /\ wpc'[w] = "notify"
        /\ \A v \in WorkerIds : v # w =>
              wpc'[v] = wpc[v] /\ overflow'[v] = overflow[v] /\ late'[v] = late[v]
        /\ wpc[w] # "ring"
    BY <1>3, <1>5 DEF PushHint, RaiseOverflow, Flags
  <2>. QED BY <1>1, <1>2, <2>1 DEF Doorbells
<1>6. CASE ExchangeDoor(w)
  <2>1. /\ UNCHANGED <<overflow, late, bell>> /\ door'[w] /\ wpc[w] = "notify"
        /\ ~door[w] => wpc'[w] = "ring"
        /\ \A v \in WorkerIds : v # w => wpc'[v] = wpc[v] /\ door'[v] = door[v]
    BY <1>3, <1>6 DEF ExchangeDoor, Flags
  <2>. QED BY <1>1, <1>2, <2>1 DEF Doorbells
<1>7. CASE RingDoorbell(w)
  <2>1. /\ UNCHANGED <<door, overflow, late>> /\ bell' /\ wpc[w] = "ring"
        /\ \A v \in WorkerIds : v # w => wpc'[v] = wpc[v]
    BY <1>3, <1>7 DEF RingDoorbell
  <2>. QED BY <1>1, <1>2, <2>1 DEF Doorbells
<1>. QED BY <1>4, <1>5, <1>6, <1>7 DEF WorkerStep

\* The Reader clears a door before it looks at the flag and the tail behind it,
\* so what it clears too early it still sees.
LEMMA DoorbellsOfReader ==
    ASSUME TableInv, ReaderInv, Doorbells, ReaderStep
    PROVE  Doorbells'
<1>1. Flags /\ CurrentRing \in WorkerIds
  BY CurrentRingFacts DEF ReaderInv
<1>2. CASE Wake
  <2>1. /\ rpc = "idle" /\ rpc' = "door" /\ offset = 0
        /\ UNCHANGED <<wpc, door, overflow, late, cursor, offset>>
    BY <1>2 DEF Wake, ReaderInv, Draining, DrainPoints, workerVars
  <2>2. \A w \in WorkerIds : WillClear(w)'
    BY <2>1, RingTurns DEF WillClear, Ahead, ReaderInv, Draining
  <2>. QED BY <2>1, <2>2 DEF Doorbells
<1>3. CASE ClearDoor
  <2>1. /\ rpc = "door" /\ rpc' = "flag" /\ door' = [door EXCEPT ![CurrentRing] = FALSE]
        /\ UNCHANGED <<wpc, overflow, late, bell, cursor, offset>>
    BY <1>3 DEF ClearDoor, workerVars, drainVars
  <2>2. CurrentRing' = CurrentRing /\ ~door'[CurrentRing]
        /\ \A w \in WorkerIds : w # CurrentRing => door'[w] = door[w]
    BY <1>1, <2>1 DEF CurrentRing, Flags
  <2>3. ASSUME NEW w \in WorkerIds, w # CurrentRing, WillClear(w)
        PROVE  WillClear(w)'
    <3>1. PICK j \in offset .. Workers - 1 : w = (cursor + j) % Workers
      BY <2>1, <2>3 DEF WillClear, Ahead
    <3>2. j # offset
      BY <2>3, <3>1 DEF CurrentRing
    <3>3. j \in offset + 1 .. Workers - 1
      BY <3>2, Counting DEF ReaderInv, Draining
    <3>. QED BY <2>1, <3>1, <3>3 DEF WillClear, Ahead
  <2>. QED BY <2>1, <2>2, <2>3 DEF Doorbells
<1>4. CASE TakeOverflow
  <2>1. /\ rpc = "flag" /\ rpc' = "load" /\ overflow' = [overflow EXCEPT ![CurrentRing] = FALSE]
        /\ UNCHANGED <<wpc, door, late, bell, cursor, offset>>
    BY <1>4 DEF TakeOverflow, workerVars
  <2>2. CurrentRing' = CurrentRing /\ \A w \in WorkerIds : WillClear(w) => WillClear(w)'
    BY <2>1 DEF CurrentRing, WillClear, Ahead
  <2>3. ~overflow'[CurrentRing] /\ \A w \in WorkerIds : w # CurrentRing => overflow'[w] = overflow[w]
    BY <1>1, <2>1 DEF Flags
  <2>. QED BY <2>1, <2>2, <2>3 DEF Doorbells
<1>5. CASE LoadTail
  <2>1. /\ rpc = "load" /\ rpc' = "copy" /\ late' = [late EXCEPT ![CurrentRing] = FALSE]
        /\ UNCHANGED <<wpc, door, overflow, bell, cursor, offset>>
    BY <1>5 DEF LoadTail, workerVars
  <2>2. CurrentRing' = CurrentRing /\ \A w \in WorkerIds : WillClear(w) => WillClear(w)'
    BY <2>1 DEF CurrentRing, WillClear, Ahead
  <2>3. ~late'[CurrentRing] /\ \A w \in WorkerIds : w # CurrentRing => late'[w] = late[w]
    BY <1>1, <2>1 DEF Flags
  <2>. QED BY <2>1, <2>2, <2>3 DEF Doorbells
<1>6. CASE CopyHint
  <2>1. rpc = "copy" /\ UNCHANGED <<rpc, wpc, door, overflow, late, bell, cursor, offset>>
    BY <1>6 DEF CopyHint, workerVars, ringVars, drainVars
  <2>2. \A w \in WorkerIds : WillClear(w) => WillClear(w)'
    BY <2>1 DEF WillClear, Ahead
  <2>. QED BY <2>1, <2>2 DEF Doorbells
<1>7. CASE StoreHead
  <2>1. /\ rpc = "copy" /\ offset' = offset + 1 /\ UNCHANGED <<wpc, door, overflow, late, bell, cursor>>
        /\ rpc' = IF offset + 1 = Workers THEN "recover" ELSE "door"
    BY <1>7 DEF StoreHead, workerVars
  <2>2. ASSUME NEW w \in WorkerIds, WillClear(w)
        PROVE  WillClear(w)'
    <3>1. PICK j \in offset + 1 .. Workers - 1 : w = (cursor + j) % Workers
      BY <2>1, <2>2 DEF WillClear, Ahead
    <3>2. offset + 1 # Workers
      BY <3>1, Counting DEF ReaderInv, Draining
    <3>. QED BY <2>1, <3>1, <3>2 DEF WillClear, Ahead
  <2>. QED BY <2>1, <2>2 DEF Doorbells
<1>8. CASE \/ StartRecovery \/ Priority \/ StartHints \/ TakeHint \/ StartScan \/ ScanRow
           \/ ReadBegin \/ ReadField \/ ReadEnd \/ Deliver
  <2>1. rpc \notin DrainPoints /\ UNCHANGED <<wpc, door, overflow, late, bell>>
    BY <1>8 DEF DrainPoints, StartRecovery, Priority, StartHints, TakeHint, StartScan, ScanRow,
                ReadBegin, ReadField, ReadEnd, Deliver, ringVars, workerVars
  <2>2. \A w \in WorkerIds : ~WillClear(w)
    BY <2>1 DEF WillClear, DrainPoints
  <2>. QED BY <2>1, <2>2 DEF Doorbells, DrainPoints
<1>. QED BY <1>2, <1>3, <1>4, <1>5, <1>6, <1>7, <1>8 DEF ReaderStep

\* No step leaves a ring with news behind a silent doorbell.
LEMMA DoorbellsStep == ASSUME TableInv, ReaderInv, Doorbells, [Next]_vars PROVE Doorbells'
<1>1. CASE Reset
  BY <1>1 DEF Reset, Doorbells
<1>2. CASE UNCHANGED vars
  BY <1>2 DEF vars, ringVars, workerVars, drainVars, Doorbells, WillClear, Ahead, CurrentRing
<1>. QED BY <1>1, <1>2, DoorbellsOfWorker, DoorbellsOfReader DEF Next

\* The program points and the queues of the Reader, in every reachable state.
THEOREM ReaderInvariant == Spec => []ReaderInv
<1>1. TableInv /\ ReaderInv /\ [Next]_vars => ReaderInv'
  BY ReaderStepInv
<1>. QED BY ReaderInit, <1>1, TableInvariant, PTL DEF Spec

\* An Engine that sleeps on the doorbell is woken for every hint and every
\* overflow its last drain did not see, for every number of workers.
THEOREM WakeupsArrive == Spec => []NoLostWakeup
<1>1. Init => Doorbells
  BY DEF Init, Doorbells
<1>2. TableInv /\ ReaderInv /\ Doorbells /\ [Next]_vars => Doorbells'
  BY DoorbellsStep
<1>3. ReaderInv /\ Doorbells => NoLostWakeup
  BY DEF Doorbells, NoLostWakeup, WillClear
<1>. QED BY <1>1, <1>2, <1>3, TableInvariant, ReaderInvariant, PTL DEF Spec

-----------------------------------------------------------------------------
\* Hints and rows.

\* What is committed only grows until the cohort barrier.
LEMMA BehindGrows ==
    ASSUME TableInv, [Next]_vars, ~Reset
    PROVE  \A h \in Hints : Behind(h) => Behind(h)'
<1>. SUFFICES ASSUME NEW h \in Hints, Behind(h) PROVE Behind(h)'
  OBVIOUS
<1>1. h.row \in Rows /\ h.seq \in Nat
  BY TableAssumptions DEF Hints, Versions
<1>2. CASE \E w \in WorkerIds : Commit(w)
  <2>1. PICK w \in WorkerIds : Commit(w)
    BY <1>2
  <2>2. /\ wrow[w] \in Rows /\ wseq[w] = Successor(committed[wrow[w]])
        /\ wseq[w] \in 0 .. MaxPublications - 1 /\ data[wrow[w]] \in Payloads
        /\ committed' = [committed EXCEPT ![wrow[w]] = Snapshot(wseq[w], data[wrow[w]])]
    BY <2>1, PublishedFacts DEF Commit, TableInv, Shapes, Writing
  <2>3. h.row # wrow[w] => committed'[h.row] = committed[h.row]
    BY <1>1, <2>2 DEF TableInv, Shapes
  <2>4. committed'[wrow[w]] = Snapshot(wseq[w], data[wrow[w]]) /\ committed'[wrow[w]].seq = wseq[w]
    BY <2>2 DEF TableInv, Shapes, Snapshot
  <2>5. committed'[wrow[w]] # Unseen
    <3>1. wseq[w] # Unseen.seq
      BY <2>2, PublishedFacts DEF Invalid
    <3>. QED BY <2>4, <3>1
  <2>6. CASE h.row = wrow[w]
    <3>1. committed[h.row] \in Published /\ h.seq <= committed[h.row].seq
      BY <1>1, <2>6 DEF Behind, TableInv, Shapes
    <3>2. committed[h.row].seq \in Nat /\ wseq[w] = committed[h.row].seq + 1
      BY <2>2, <2>6, <3>1, PublishedFacts DEF Successor, Behind
    <3>. QED BY <1>1, <2>4, <2>5, <2>6, <3>1, <3>2 DEF Behind
  <2>. QED BY <2>3, <2>6 DEF Behind
<1>3. CASE ~ \E w \in WorkerIds : Commit(w)
  <2>1. committed' = committed
    BY <1>3 DEF Next, vars, WorkerStep, StoreInvalid, StoreField, CheckRoom, PushHint, RaiseOverflow,
                ExchangeDoor, RingDoorbell, ReaderStep, Wake, ClearDoor, TakeOverflow, LoadTail,
                CopyHint, StoreHead, StartRecovery, Priority, StartHints, TakeHint, StartScan, ScanRow,
                ReadBegin, ReadField, ReadEnd, Deliver, rowVars
  <2>. QED BY <2>1 DEF Behind
<1>. QED BY <1>2, <1>3

\* The queued hints, and the row and sequence under inspection, are hints.
LEMMA QueuedHints ==
    ASSUME ReaderInv
    PROVE  /\ \A w \in WorkerIds : \A i \in 1 .. Len(ring[w]) : ring[w][i] \in Hints
           /\ \A i \in 1 .. Len(pending) : pending[i] \in Pendings /\ pending[i] \in Hints
           /\ Pendings \subseteq Hints
           /\ Capturing => [row |-> at, seq |-> look] \in Pendings
<1>1. Pendings \subseteq Hints
  BY Counting DEF Pendings, Hints
<1>2. \A w \in WorkerIds : \A i \in 1 .. Len(ring[w]) : ring[w][i] \in Hints
  BY ElementOfSeq DEF ReaderInv, Queues
<1>3. \A i \in 1 .. Len(pending) : pending[i] \in Pendings
  BY ElementOfSeq DEF ReaderInv, Queues
<1>. QED BY <1>1, <1>2, <1>3 DEF ReaderInv, Inspecting, Pendings

\* No step queues, drains, drops or repeats a hint that is ahead of its row.
LEMMA HintsStep == ASSUME TableInv, ReaderInv, HintsInv, [Next]_vars PROVE HintsInv'
<1>. DEFINE Aim == [row |-> at, seq |-> look]
<1>1. CASE Reset
  <2>1. /\ rpc' = "idle" /\ \A w \in WorkerIds : ring'[w] = <<>>
        /\ pending' = <<>>
    BY <1>1 DEF Reset
  <2>. QED BY <2>1 DEF HintsInv, Capturing
<1>2. ASSUME ~Reset,
             \A w \in WorkerIds : \A i \in 1 .. Len(ring'[w]) : ring'[w][i] \in Hints /\ Behind(ring'[w][i]),
             \A i \in 1 .. Len(pending') : pending'[i] \in Hints /\ Behind(pending'[i]),
             Capturing' /\ phase' # "priority" => Aim' \in Hints /\ Behind(Aim')
      PROVE  HintsInv'
  BY <1>2, BehindGrows DEF HintsInv
<1>3. ASSUME NEW w \in WorkerIds, WorkerStep(w)
      PROVE  HintsInv'
  <2>1. UNCHANGED <<pending, rpc, phase, at, look>>
    BY <1>3 DEF WorkerStep, StoreInvalid, StoreField, Commit, CheckRoom, PushHint, RaiseOverflow,
                ExchangeDoor, RingDoorbell, hintVars, captureVars
  <2>2. CASE PushHint(w)
    <3> DEFINE h == [row |-> wrow[w], seq |-> wseq[w]]
    <3>1. h \in Hints /\ Behind(h) /\ ring' = [ring EXCEPT ![w] = Append(@, h)]
      BY <2>2, AnnouncedHint, TableAssumptions DEF PushHint, Announcing, Behind, Hints, Versions
    <3>2. ring \in [WorkerIds -> Seq(Hints)] /\ Len(ring[w]) \in Nat
      BY LenProperties DEF ReaderInv, Queues
    <3>. HIDE DEF h
    <3>3. /\ Len(Append(ring[w], h)) = Len(ring[w]) + 1
          /\ \A i \in 1 .. Len(ring[w]) : Append(ring[w], h)[i] = ring[w][i]
          /\ Append(ring[w], h)[Len(ring[w]) + 1] = h
      BY <3>1, <3>2, AppendProperties
    <3>4. \A i \in 1 .. Len(ring'[w]) : ring'[w][i] \in Hints /\ Behind(ring'[w][i])
      BY <3>1, <3>2, <3>3, QueuedHints DEF HintsInv
    <3>5. \A v \in WorkerIds : v # w => ring'[v] = ring[v]
      BY <3>1, <3>2
    <3>6. \A v \in WorkerIds : \A i \in 1 .. Len(ring'[v]) : ring'[v][i] \in Hints /\ Behind(ring'[v][i])
      BY <3>4, <3>5, QueuedHints DEF HintsInv
    <3>7. ~Reset
      BY <2>2 DEF PushHint, Reset
    <3>. QED BY <1>2, <2>1, <3>6, <3>7, QueuedHints DEF HintsInv, Capturing
  <2>3. CASE ~PushHint(w)
    <3>1. ring' = ring
      BY <1>3, <2>3 DEF WorkerStep, StoreInvalid, StoreField, Commit, CheckRoom, RaiseOverflow,
                        ExchangeDoor, RingDoorbell, ringVars
    <3>2. CASE ~Reset
      BY <1>2, <2>1, <3>1, <3>2, QueuedHints DEF HintsInv, Capturing
    <3>. QED BY <1>1, <3>2
  <2>. QED BY <2>2, <2>3
<1>4. ASSUME ReaderStep, ~Reset PROVE HintsInv'
  <2>1. committed' = committed
    BY <1>4 DEF ReaderStep, Wake, ClearDoor, TakeOverflow, LoadTail, CopyHint, StoreHead, StartRecovery,
                Priority, StartHints, TakeHint, StartScan, ScanRow, ReadBegin, ReadField, ReadEnd,
                Deliver, rowVars
  <2>2. \A h : Behind(h)' <=> Behind(h)
    BY <2>1 DEF Behind
  <2>3. CASE Wake \/ ClearDoor \/ TakeOverflow \/ LoadTail \/ StartRecovery \/ StartHints \/ StartScan \/ Deliver
    <3>1. ~Capturing' /\ UNCHANGED <<ring, pending>>
      BY <2>3 DEF Wake, ClearDoor, TakeOverflow, LoadTail, StartRecovery, StartHints, StartScan, Deliver,
                  Capturing, ringVars, hintVars
    <3>. QED BY <2>2, <3>1 DEF HintsInv
  <2>4. CASE CopyHint
    <3> DEFINE h == ring[CurrentRing][left + 1]
    <3>1. left + 1 \in 1 .. Len(ring[CurrentRing])
      BY <2>4, CurrentRingFacts DEF CopyHint, ReaderInv, Draining, Queues
    <3>2. h \in Hints /\ Behind(h)
      BY <3>1, CurrentRingFacts DEF HintsInv
    <3>3. /\ pending' = IF h.row \in RegisteredRows THEN Hinted(pending, h) ELSE pending
          /\ ring' = ring /\ rpc' = "copy"
      BY <2>4 DEF CopyHint, ringVars
    <3>4. h.row \in RegisteredRows => h \in Pendings
      BY <3>2 DEF Hints, Pendings
    <3>. HIDE DEF h
    <3>5. \A i \in 1 .. Len(pending') : Behind(pending'[i])
      <4>1. CASE h.row \in RegisteredRows
        <5>1. \A i \in 1 .. Len(pending') : pending'[i] = h \/ (i \in 1 .. Len(pending) /\ pending'[i] = pending[i])
          BY <3>3, <3>4, <4>1, HintedFacts DEF ReaderInv, Queues
        <5>. QED BY <3>2, <5>1 DEF HintsInv
      <4>2. CASE h.row \notin RegisteredRows
        BY <3>3, <4>2 DEF HintsInv
      <4>. QED BY <4>1, <4>2
    <3>. QED BY <2>2, <3>3, <3>5 DEF HintsInv, Capturing
  <2>5. CASE StoreHead
    <3> DEFINE q == ring[CurrentRing]
    <3>1. CurrentRing \in WorkerIds /\ Len(q) \in Nat /\ (\A i \in 1 .. Len(q) : q[i] \in Hints) /\ count \in Nat
      BY CurrentRingFacts DEF ReaderInv, Draining
    <3>2. ring' = [ring EXCEPT ![CurrentRing] = SubSeq(q, count + 1, Len(q))] /\ pending' = pending /\ ~Capturing'
      BY <2>5 DEF StoreHead, hintVars, Capturing
    <3>3. /\ Len(SubSeq(q, count + 1, Len(q))) = IF count + 1 <= Len(q) THEN Len(q) - count ELSE 0
          /\ \A i \in 1 .. Len(q) - count : SubSeq(q, count + 1, Len(q))[i] = q[count + i]
      BY <3>1, SubSeqProperties
    <3>4. \A i \in 1 .. Len(ring'[CurrentRing]) : \E j \in 1 .. Len(q) : ring'[CurrentRing][i] = q[j]
      <4>1. ring'[CurrentRing] = SubSeq(q, count + 1, Len(q))
        BY <3>1, <3>2 DEF ReaderInv, Queues
      <4>2. \A i \in 1 .. Len(ring'[CurrentRing]) : count + i \in 1 .. Len(q) /\ i \in 1 .. Len(q) - count
        BY <3>1, <3>3, <4>1
      <4>. QED BY <3>3, <4>1, <4>2
    <3>5. \A v \in WorkerIds : v # CurrentRing => ring'[v] = ring[v]
      BY <3>1, <3>2 DEF ReaderInv, Queues
    <3>. QED BY <2>2, <3>1, <3>2, <3>4, <3>5 DEF HintsInv
  <2>6. CASE Priority
    <3>1. UNCHANGED <<ring, pending>> /\ (Capturing' => phase' = "priority")
      BY <2>6 DEF Priority, StartCapture, ringVars, hintVars, captureVars, Capturing
    <3>. QED BY <2>2, <3>1 DEF HintsInv
  <2>7. CASE TakeHint
    <3>1. left \in 1 .. Len(pending) /\ rpc = "hints" /\ Len(pending) \in Nat
      BY <2>7, LenProperties DEF TakeHint, ReaderInv, Draining, Queues, PollPhase, Capturing
    <3>2. pending \in Seq(Pendings) /\ pending # <<>>
      BY <3>1, EmptySeq DEF ReaderInv, Queues
    <3>3. Head(pending) = pending[1] /\ 1 \in 1 .. Len(pending) /\ pending[1] \in Pendings
      BY <3>1, <3>2, QueuedHints
    <3>4. /\ Len(Tail(pending)) = Len(pending) - 1
          /\ \A i \in 1 .. Len(Tail(pending)) : Tail(pending)[i] = pending[i + 1]
      BY <3>2, HeadTailProperties
    <3>5. /\ ring' = ring /\ pending' = Tail(pending)
          /\ Capturing' => at' = pending[1].row /\ look' = pending[1].seq
      BY <2>7, <3>3 DEF TakeHint, StartCapture, Capturing, ringVars, captureVars
    <3>6. \A i \in 1 .. Len(pending') : Behind(pending'[i])
      BY <3>1, <3>4, <3>5 DEF HintsInv
    <3>7. Capturing' => Behind(Aim')
      <4>1. Behind(pending[1])
        BY <3>3 DEF HintsInv
      <4>. QED BY <3>5, <4>1 DEF Behind
    <3>. QED BY <2>2, <3>5, <3>6, <3>7 DEF HintsInv
  <2>8. CASE ScanRow
    <3>1. /\ UNCHANGED <<ring, pending>> /\ scanning
          /\ Capturing' => at' = scan /\ look' = word[scan] /\ word[scan] # Invalid
      BY <2>8 DEF ScanRow, StartCapture, ringVars, captureVars, Capturing
    <3>2. Capturing' => Behind(Aim')
      <4>1. scan \in Rows
        BY <3>1, Counting DEF ReaderInv, Recovering, RegisteredRows
      <4>2. word[scan] # Invalid => committed[scan] # Unseen /\ word[scan] <= committed[scan].seq
        BY <4>1, ValidWord, TableAssumptions DEF Versions
      <4>. QED BY <3>1, <4>2 DEF Behind
    <3>. QED BY <2>2, <3>1, <3>2 DEF HintsInv
  <2>9. CASE ReadBegin \/ ReadField \/ ReadEnd
    <3>1. /\ Capturing /\ ring' = ring /\ Rehinted
          /\ Return \/ UNCHANGED <<phase, at, look>>
          /\ phase = "priority" => pending' = pending
      BY <2>9, CaptureSteps DEF ringVars
    <3>2. Capturing' /\ phase' # "priority" => Behind(Aim)' /\ phase # "priority"
      <4>1. CASE Return
        BY <3>1, <4>1, CaptureReturns
      <4>2. CASE UNCHANGED <<phase, at, look>>
        BY <2>2, <3>1, <4>2 DEF HintsInv
      <4>. QED BY <3>1, <4>1, <4>2
    <3>3. \A i \in 1 .. Len(pending') : Behind(pending'[i])
      <4>1. CASE pending' = pending
        BY <4>1 DEF HintsInv
      <4>2. CASE pending' = Hinted(pending, Aim) /\ phase # "priority"
        <5>1. Aim \in Pendings /\ pending \in Seq(Pendings) /\ Behind(Aim)
          BY <3>1, <4>2, QueuedHints DEF HintsInv, ReaderInv, Queues
        <5>2. \A i \in 1 .. Len(pending') : pending'[i] = Aim \/ (i \in 1 .. Len(pending) /\ pending'[i] = pending[i])
          BY <4>2, <5>1, HintedFacts
        <5>. QED BY <5>1, <5>2 DEF HintsInv
      <4>. QED BY <3>1, <4>1, <4>2 DEF Rehinted
    <3>. QED BY <2>2, <3>1, <3>2, <3>3 DEF HintsInv
  <2>. QED BY <1>4, <2>3, <2>4, <2>5, <2>6, <2>7, <2>8, <2>9 DEF ReaderStep
<1>5. CASE UNCHANGED vars
  BY <1>5 DEF vars, rowVars, ringVars, hintVars, captureVars, HintsInv, Behind, Capturing
<1>. QED BY <1>1, <1>3, <1>4, <1>5 DEF Next

\* Every queued hint, and the one capture would put back, names a publication
\* that its row has committed.
THEOREM HintsInvariant == Spec => []HintsInv
<1>1. Init => HintsInv
  BY DEF Init, HintsInv, Capturing
<1>2. TableInv /\ ReaderInv /\ HintsInv /\ [Next]_vars => HintsInv'
  BY HintsStep
<1>. QED BY <1>1, <1>2, TableInvariant, ReaderInvariant, PTL DEF Spec

\* No hint names a publication its row has not committed, across drains,
\* retries and cohort barriers.
THEOREM HintsStayBehind == Spec => []HintsBehindRows
<1>1. TableInv /\ ReaderInv /\ HintsInv => HintsBehindRows
  <2>. SUFFICES ASSUME TableInv, ReaderInv, HintsInv PROVE HintsBehindRows
    OBVIOUS
  <2>1. \A h \in Hints : Behind(h) => committed[h.row].seq # Invalid /\ h.seq <= committed[h.row].seq
    BY PublishedFacts DEF Hints, Behind, TableInv, Shapes
  <2>. QED BY <2>1, QueuedHints DEF HintsInv, HintsBehindRows
<1>. QED BY <1>1, TableInvariant, ReaderInvariant, HintsInvariant, PTL DEF Spec

-----------------------------------------------------------------------------
\* No publication is forgotten.

\* Hinting a row keeps every hint for the publication a row now holds.
LEMMA HintedKeeps ==
    ASSUME TableInv, ReaderInv, HintsInv, NEW h \in Pendings, Behind(h), pending' = Hinted(pending, h)
    PROVE  /\ \A g \in Pendings : word[g.row] = g.seq /\ IsPending(g) => IsPending(g)'
           /\ word[h.row] = h.seq => IsPending(h)'
<1>1. pending \in Seq(Pendings) /\ \A i \in 1 .. Len(pending) : pending[i] \in Pendings /\ Behind(pending[i])
  BY QueuedHints DEF ReaderInv, Queues, HintsInv
<1>2. /\ Len(pending') >= Len(pending) /\ Len(pending) \in Nat /\ Len(pending') \in Nat
      /\ \A i \in 1 .. Len(pending) :
            \/ pending'[i] = pending[i]
            \/ pending[i].row = h.row /\ pending[i].seq < h.seq /\ pending'[i] = h
      /\ \A i \in 1 .. Len(pending') :
            pending'[i] = h \/ (i \in 1 .. Len(pending) /\ pending'[i] = pending[i])
      /\ \E i \in 1 .. Len(pending') : pending'[i].row = h.row /\ pending'[i].seq >= h.seq
  BY <1>1, HintedFacts, LenProperties
<1>3. \A g \in Pendings : Behind(g) /\ word[g.row] # Invalid =>
         g.seq \in Nat /\ word[g.row] \in Nat /\ g.seq <= word[g.row]
  BY ValidWord, Counting, TableAssumptions DEF Pendings, Versions, Behind
<1>4. \A g \in Pendings : g.seq \in Versions /\ g.seq # Invalid
  BY TableAssumptions DEF Pendings, Versions, Invalid
<1>5. ASSUME NEW g \in Pendings, word[g.row] = g.seq, IsPending(g)
      PROVE  IsPending(g)'
  <2>1. PICK i \in 1 .. Len(pending) : pending[i] = g
    BY <1>5 DEF IsPending
  <2>2. ~(g.row = h.row /\ g.seq < h.seq)
    BY <1>3, <1>4, <1>5
  <2>3. pending'[i] = g /\ i \in 1 .. Len(pending')
    BY <1>2, <2>1, <2>2
  <2>. QED BY <2>3 DEF IsPending
<1>6. ASSUME word[h.row] = h.seq
      PROVE  IsPending(h)'
  <2>1. PICK i \in 1 .. Len(pending') : pending'[i].row = h.row /\ pending'[i].seq >= h.seq
    BY <1>2
  <2>2. pending'[i] \in Pendings /\ Behind(pending'[i])
    BY <1>1, <1>2
  <2>3. pending'[i].seq <= h.seq /\ pending'[i].seq \in Nat /\ h.seq \in Nat
    BY <1>3, <1>4, <1>6, <2>1, <2>2
  <2>4. pending'[i] = h
    BY <2>1, <2>2, <2>3 DEF Pendings
  <2>. QED BY <2>4 DEF IsPending
<1>. QED BY <1>5, <1>6

\* What the Reader has seen of a row is not ahead of it.
LEMMA SeenBehind ==
    ASSUME TableInv, NEW r \in RegisteredRows, seen[r] # Invalid
    PROVE  seen[r] \in Versions /\ committed[r] # Unseen /\ seen[r] <= committed[r].seq
<1>1. seen[r] = Captured(r).seq /\ Captured(r) # Unseen
  BY PublishedFacts DEF TableInv, Observed
<1>2. Captured(r) \in Published
  BY <1>1 DEF TableInv, Shapes, Captured
<1>. QED BY <1>1, <1>2, PublishedFacts DEF TableInv, Observed, Versions

\* A publication: the row is announced from its commit until its hint is in the
\* ring or the overflow flag is up, and older hints of the row no longer matter.
LEMMA CoverOfWorker ==
    ASSUME TableInv, ReaderInv, HintsInv, CoverInv, NEW w \in WorkerIds, WorkerStep(w)
    PROVE  CoverInv'
<1>1. UNCHANGED <<seen, pending, rpc, phase, at, look, cursor, offset, count, left, flagged, rescan, scanning, scan>>
  BY DEF WorkerStep, StoreInvalid, StoreField, Commit, CheckRoom, PushHint, RaiseOverflow,
         ExchangeDoor, RingDoorbell, drainVars, hintVars, budgetVars, captureVars
<1>2. /\ word \in [Rows -> 0 .. SeqSpace] /\ wpc \in [WorkerIds -> WorkerPoints] /\ wrow \in [WorkerIds -> Rows]
      /\ overflow \in [WorkerIds -> BOOLEAN] /\ ring \in [WorkerIds -> Seq(Hints)]
      /\ \A r \in RegisteredRows : r \in Rows /\ Owner[r] \in WorkerIds
  BY PublishedFacts DEF TableInv, Shapes, ReaderInv, Flags, Queues
<1>3. /\ CurrentRing' = CurrentRing /\ CurrentRing \in WorkerIds /\ \A h : IsPending(h)' <=> IsPending(h)
      /\ rpc = "copy" => left \in Nat /\ left <= Len(ring[CurrentRing])
  BY <1>1, CurrentRingFacts DEF CurrentRing, IsPending, ReaderInv, Draining, Queues
<1>4. CASE StoreInvalid(w)
  <2>1. PICK r0 \in Rows : word' = [word EXCEPT ![r0] = Invalid]
    BY <1>4 DEF StoreInvalid
  <2>2. /\ UNCHANGED <<ring, overflow>> /\ ~Announcing(w)
        /\ \A v \in WorkerIds : v # w => wrow'[v] = wrow[v] /\ wpc'[v] = wpc[v]
    BY <1>2, <1>4 DEF StoreInvalid, ringVars, Announcing
  <2>3. \A r \in RegisteredRows : word'[r] # Invalid => word'[r] = word[r]
    BY <1>2, <2>1
  <2>4. Copied'
    <3>1. \A h : h.row \in RegisteredRows /\ word'[h.row] = h.seq /\ h.seq # Invalid => word[h.row] = h.seq
      BY <2>3
    <3>2. rpc = "copy" => \A i \in 1 .. left : ring[CurrentRing][i].seq # Invalid
      BY <1>3, CurrentRingFacts, TableAssumptions DEF Hints, Versions, Invalid
    <3>. QED BY <1>1, <1>3, <2>2, <3>1, <3>2 DEF CoverInv, Copied
  <2>5. ASSUME NEW r \in RegisteredRows, Owed(r)'
        PROVE  Safe(r)'
    <3>1. word'[r] = word[r] /\ Owed(r)
      BY <1>1, <2>3, <2>5 DEF Owed
    <3>2. Safe(r)
      BY <3>1 DEF CoverInv
    <3>. QED BY <1>1, <1>2, <1>3, <2>2, <3>1, <3>2 DEF Safe, Announcing, IsQueued, Latest, BeingScanned, Capturing
  <2>. QED BY <2>4, <2>5 DEF CoverInv
<1>5. CASE Commit(w)
  <2>1. /\ UNCHANGED <<ring, overflow, wrow>> /\ ~Announcing(w) /\ Announcing(w)'
        /\ word' = [word EXCEPT ![wrow[w]] = wseq[w]]
        /\ wrow[w] \in Rows /\ Owner[wrow[w]] = w /\ wseq[w] = Successor(committed[wrow[w]])
        /\ \A v \in WorkerIds : v # w => wpc'[v] = wpc[v]
    BY <1>2, <1>5 DEF Commit, ringVars, Announcing, TableInv, Writing
  <2>2. word'[wrow[w]] = wseq[w] /\ \A r \in Rows : r # wrow[w] => word'[r] = word[r]
    BY <1>2, <2>1
  <2>3. Copied'
    <3>1. ASSUME NEW h \in Hints, Behind(h), h.row = wrow[w]
          PROVE  h.seq # wseq[w]
      <4>1. committed[wrow[w]] \in Published /\ h.seq <= committed[wrow[w]].seq /\ h.seq \in Nat
        BY <2>1, <3>1, TableAssumptions DEF Behind, TableInv, Shapes, Hints, Versions
      <4>. QED BY <2>1, <3>1, <4>1, PublishedFacts DEF Successor, Behind
    <3>2. rpc = "copy" => \A i \in 1 .. left : ring[CurrentRing][i] \in Hints /\ Behind(ring[CurrentRing][i])
      BY <1>3, CurrentRingFacts DEF HintsInv
    <3>3. rpc = "copy" => \A i \in 1 .. left :
             word'[ring[CurrentRing][i].row] = ring[CurrentRing][i].seq =>
                word[ring[CurrentRing][i].row] = ring[CurrentRing][i].seq
      BY <2>2, <3>1, <3>2 DEF Hints
    <3>. QED BY <1>1, <1>3, <2>1, <3>3 DEF CoverInv, Copied
  <2>4. ASSUME NEW r \in RegisteredRows, Owed(r)'
        PROVE  Safe(r)'
    <3>1. CASE r = wrow[w]
      BY <2>1, <3>1 DEF Safe
    <3>2. CASE r # wrow[w]
      <4>1. word'[r] = word[r] /\ Owed(r)
        BY <1>1, <1>2, <2>2, <2>4, <3>2 DEF Owed
      <4>2. Safe(r)
        BY <4>1 DEF CoverInv
      <4>. QED BY <1>1, <1>2, <1>3, <2>1, <4>1, <4>2 DEF Safe, Announcing, IsQueued, Latest, BeingScanned, Capturing
    <3>. QED BY <3>1, <3>2
  <2>. QED BY <2>3, <2>4 DEF CoverInv
<1>6. CASE PushHint(w)
  <2> DEFINE h == [row |-> wrow[w], seq |-> wseq[w]]
  <2>1. /\ h \in Hints /\ word[wrow[w]] = wseq[w] /\ Owner[wrow[w]] = w
        /\ ring' = [ring EXCEPT ![w] = Append(@, h)]
        /\ UNCHANGED <<word, overflow>>
        /\ \A v \in WorkerIds : v # w => wpc'[v] = wpc[v] /\ wrow'[v] = wrow[v]
    BY <1>2, <1>6, AnnouncedHint DEF PushHint, Forget, Announcing, rowVars
  <2>2. h = Latest(wrow[w])
    BY <2>1 DEF Latest
  <2>. HIDE DEF h
  <2>3. /\ Len(ring[w]) \in Nat /\ ring[w] \in Seq(Hints)
        /\ Len(Append(ring[w], h)) = Len(ring[w]) + 1
        /\ \A i \in 1 .. Len(ring[w]) : Append(ring[w], h)[i] = ring[w][i]
        /\ Append(ring[w], h)[Len(ring[w]) + 1] = h
    BY <1>2, <2>1, AppendProperties, LenProperties
  <2>4. ring'[w] = Append(ring[w], h) /\ \A v \in WorkerIds : v # w => ring'[v] = ring[v]
    BY <1>2, <2>1
  <2>5. \A v \in WorkerIds : \A i \in 1 .. Len(ring[v]) : i \in 1 .. Len(ring'[v]) /\ ring'[v][i] = ring[v][i]
    BY <2>3, <2>4
  <2>6. \A v \in WorkerIds : \A g : IsQueued(v, g) => IsQueued(v, g)'
    BY <2>5 DEF IsQueued
  <2>7. \A g : g = h => IsQueued(w, g)'
    <3>1. Len(ring[w]) + 1 \in 1 .. Len(ring'[w]) /\ ring'[w][Len(ring[w]) + 1] = h
      BY <2>3, <2>4
    <3>. QED BY <3>1 DEF IsQueued
  <2>8. Copied'
    <3>1. rpc = "copy" => \A i \in 1 .. left : ring'[CurrentRing][i] = ring[CurrentRing][i]
      BY <1>3, <2>5, CurrentRingFacts
    <3>. QED BY <1>1, <1>3, <2>1, <3>1 DEF CoverInv, Copied
  <2>9. ASSUME NEW r \in RegisteredRows, Owed(r)'
        PROVE  Safe(r)'
    <3>1. Owed(r) /\ Latest(r)' = Latest(r)
      BY <1>1, <2>1, <2>9 DEF Owed, Latest
    <3>2. Safe(r)
      BY <3>1 DEF CoverInv
    <3>3. CASE Owner[r] = w /\ wrow[w] = r
      <4>1. \A g : g = Latest(r) => IsQueued(w, g)'
        BY <2>2, <2>7, <3>3
      <4>2. IsQueued(w, Latest(r))'
        BY <3>1, <4>1 DEF IsQueued
      <4>. QED BY <3>3, <4>2 DEF Safe
    <3>4. CASE ~(Owner[r] = w /\ wrow[w] = r)
      BY <1>1, <1>2, <1>3, <2>1, <2>6, <3>1, <3>2, <3>4 DEF Safe, Announcing, BeingScanned, Capturing
    <3>. QED BY <3>3, <3>4
  <2>. QED BY <2>8, <2>9 DEF CoverInv
<1>7. CASE RaiseOverflow(w)
  <2>1. /\ UNCHANGED <<word, ring>> /\ overflow'[w]
        /\ \A v \in WorkerIds : v # w => wpc'[v] = wpc[v] /\ wrow'[v] = wrow[v] /\ overflow'[v] = overflow[v]
    BY <1>2, <1>7 DEF RaiseOverflow, Forget, rowVars
  <2>2. Copied'
    BY <1>1, <1>3, <2>1 DEF CoverInv, Copied
  <2>3. ASSUME NEW r \in RegisteredRows, Owed(r)'
        PROVE  Safe(r)'
    <3>1. Owed(r) /\ Latest(r)' = Latest(r)
      BY <1>1, <2>1, <2>3 DEF Owed, Latest
    <3>2. Safe(r)
      BY <3>1 DEF CoverInv
    <3>. QED BY <1>1, <1>2, <1>3, <2>1, <3>1, <3>2 DEF Safe, Announcing, IsQueued, BeingScanned, Capturing
  <2>. QED BY <2>2, <2>3 DEF CoverInv
<1>8. CASE StoreField(w) \/ CheckRoom(w) \/ ExchangeDoor(w) \/ RingDoorbell(w)
  <2>1. /\ UNCHANGED <<word, ring, overflow, wrow>>
        /\ \A v \in WorkerIds : Announcing(v) => Announcing(v)'
    BY <1>2, <1>8 DEF StoreField, CheckRoom, ExchangeDoor, RingDoorbell, Announcing, rowVars, ringVars
  <2>2. Copied'
    BY <1>1, <1>3, <2>1 DEF CoverInv, Copied
  <2>3. ASSUME NEW r \in RegisteredRows, Owed(r)'
        PROVE  Safe(r)'
    <3>1. Owed(r) /\ Latest(r)' = Latest(r)
      BY <1>1, <2>1, <2>3 DEF Owed, Latest
    <3>2. Safe(r)
      BY <3>1 DEF CoverInv
    <3>. QED BY <1>1, <1>2, <1>3, <2>1, <3>1, <3>2 DEF Safe, IsQueued, BeingScanned, Capturing
  <2>. QED BY <2>2, <2>3 DEF CoverInv
<1>. QED BY <1>4, <1>5, <1>6, <1>7, <1>8 DEF WorkerStep

\* The drain: a copied hint is pending before the head that frees its entry is
\* stored, and a consumed overflow flag becomes a scan or a request for one.
LEMMA CoverOfDrain ==
    ASSUME TableInv, ReaderInv, HintsInv, CoverInv,
           Wake \/ ClearDoor \/ TakeOverflow \/ LoadTail \/ CopyHint \/ StoreHead \/ StartRecovery
    PROVE  CoverInv'
<1>1. UNCHANGED <<word, wpc, wrow, seen>> /\ ~Capturing /\ ~Capturing'
  BY DEF Wake, ClearDoor, TakeOverflow, LoadTail, CopyHint, StoreHead, StartRecovery, Capturing,
         rowVars, workerVars, hintVars
<1>2. \A r : /\ Owed(r)' <=> Owed(r)
             /\ Latest(r)' = Latest(r)
             /\ Announcing(Owner[r])' <=> Announcing(Owner[r])
  BY <1>1 DEF Owed, Latest, Announcing
<1>3. Copied /\ \A r \in RegisteredRows : Owed(r) => Safe(r)
  BY DEF CoverInv
<1>4. CASE Wake \/ ClearDoor \/ LoadTail
  <2>1. /\ UNCHANGED <<ring, pending, overflow, flagged, rescan, scanning, scan>>
        /\ rpc' = "copy" => left' = 0
    BY <1>4 DEF Wake, ClearDoor, LoadTail, drainVars, hintVars
  <2>2. \A r \in RegisteredRows : Safe(r) => Safe(r)'
    BY <1>1, <1>2, <2>1 DEF Safe, IsQueued, IsPending, BeingScanned
  <2>. QED BY <1>2, <1>3, <2>1, <2>2 DEF CoverInv, Copied
<1>5. CASE TakeOverflow
  <2>1. /\ UNCHANGED <<ring, pending, rescan, scanning, scan>> /\ rpc' = "load"
        /\ flagged' = (flagged \/ overflow[CurrentRing])
        /\ overflow' = [overflow EXCEPT ![CurrentRing] = FALSE]
    BY <1>5 DEF TakeOverflow, hintVars
  <2>2. \A r \in RegisteredRows : overflow[Owner[r]] => overflow'[Owner[r]] \/ flagged'
    BY <2>1, CurrentRingFacts, PublishedFacts DEF ReaderInv, Flags
  <2>3. \A r \in RegisteredRows : Safe(r) => Safe(r)'
    BY <1>1, <1>2, <2>1, <2>2 DEF Safe, IsQueued, IsPending, BeingScanned
  <2>. QED BY <1>2, <1>3, <2>1, <2>3 DEF CoverInv, Copied
<1>6. CASE CopyHint
  <2> DEFINE h == ring[CurrentRing][left + 1]
  <2>1. /\ rpc = "copy" /\ rpc' = "copy" /\ left' = left + 1 /\ left \in Nat
        /\ UNCHANGED <<ring, cursor, offset, overflow, flagged, rescan, scanning, scan>>
        /\ pending' = IF h.row \in RegisteredRows THEN Hinted(pending, h) ELSE pending
    BY <1>6 DEF CopyHint, ringVars, drainVars, ReaderInv, Draining
  <2>2. left + 1 \in 1 .. Len(ring[CurrentRing])
    BY <1>6, CurrentRingFacts DEF CopyHint, ReaderInv, Draining, Queues
  <2>3. h \in Hints /\ Behind(h)
    BY <2>2, CurrentRingFacts DEF HintsInv
  <2>4. h.row \in RegisteredRows => h \in Pendings
    BY <2>3 DEF Hints, Pendings
  <2>5. \A i \in 1 .. left : ring[CurrentRing][i] \in Hints
    BY <2>1, <2>2, CurrentRingFacts
  <2>6. \A i \in 1 .. left + 1 : i \in 1 .. left \/ i = left + 1
    BY <2>1
  <2>. HIDE DEF h
  <2>7. \A g \in Pendings : word[g.row] = g.seq /\ IsPending(g) => IsPending(g)'
    BY <2>1, <2>3, <2>4, HintedKeeps DEF IsPending
  <2>8. \A g : g = h /\ g.row \in RegisteredRows /\ word[g.row] = g.seq => IsPending(g)'
    <3>1. ASSUME h.row \in RegisteredRows, word[h.row] = h.seq
          PROVE  \E i \in 1 .. Len(pending') : pending'[i] = h
      <4>1. PICK g \in Pendings : g = h
        BY <2>4, <3>1
      <4>2. IsPending(g)'
        BY <2>1, <2>3, <3>1, <4>1, HintedKeeps
      <4>. QED BY <4>1, <4>2 DEF IsPending
    <3>. QED BY <3>1 DEF IsPending
  <2>9. Copied'
    <3>1. CurrentRing' = CurrentRing
      BY <2>1 DEF CurrentRing
    <3>2. ASSUME NEW i \in 1 .. left + 1, NEW g \in Hints, g = ring[CurrentRing][i],
                 g.row \in RegisteredRows, word[g.row] = g.seq
          PROVE  IsPending(g)'
      <4>1. CASE i = left + 1
        BY <2>8, <3>2, <4>1 DEF h
      <4>2. CASE i \in 1 .. left
        <5>1. IsPending(g)
          BY <1>3, <2>1, <3>2, <4>2 DEF Copied
        <5>2. g \in Pendings
          BY <3>2 DEF Hints, Pendings
        <5>. QED BY <2>7, <3>2, <5>1, <5>2
      <4>. QED BY <2>6, <4>1, <4>2
    <3>3. \A i \in 1 .. left + 1 : ring[CurrentRing][i] \in Hints
      BY <2>3, <2>5, <2>6 DEF h
    <3>. QED BY <1>1, <2>1, <3>1, <3>2, <3>3 DEF Copied, IsPending
  <2>10. ASSUME NEW r \in RegisteredRows, Owed(r)
         PROVE  Safe(r)'
    <3>1. Latest(r) \in Pendings /\ Latest(r).row = r /\ Latest(r).seq = word[r]
      BY <2>10, ValidWord, Counting DEF Owed, Latest, Pendings
    <3>2. IsPending(Latest(r)) => IsPending(Latest(r))'
      <4>1. PICK g \in Pendings : g = Latest(r)
        BY <3>1
      <4>. QED BY <1>2, <2>7, <3>1, <4>1 DEF IsPending
    <3>3. Safe(r)
      BY <1>3, <2>10
    <3>. QED BY <1>1, <1>2, <2>1, <3>2, <3>3 DEF Safe, IsQueued, BeingScanned
  <2>. QED BY <1>2, <2>9, <2>10 DEF CoverInv
<1>7. CASE StoreHead
  <2> DEFINE q == ring[CurrentRing]
  <2>1. CurrentRing \in WorkerIds /\ Len(q) \in Nat /\ count \in Nat /\ \A i \in 1 .. Len(q) : q[i] \in Hints
    BY CurrentRingFacts DEF ReaderInv, Draining
  <2>2. /\ rpc = "copy" /\ rpc' # "copy" /\ left = count
        /\ ring' = [ring EXCEPT ![CurrentRing] = SubSeq(q, count + 1, Len(q))]
        /\ UNCHANGED <<pending, overflow, flagged, rescan, scanning, scan>>
    BY <1>7 DEF StoreHead, hintVars
  <2>3. /\ Len(SubSeq(q, count + 1, Len(q))) = IF count + 1 <= Len(q) THEN Len(q) - count ELSE 0
        /\ \A i \in 1 .. Len(q) - count : SubSeq(q, count + 1, Len(q))[i] = q[count + 1 + i - 1]
    BY <2>1, SubSeqProperties
  <2>4. ring'[CurrentRing] = SubSeq(q, count + 1, Len(q)) /\ \A v \in WorkerIds : v # CurrentRing => ring'[v] = ring[v]
    BY <2>1, <2>2 DEF ReaderInv, Queues
  <2>5. ASSUME NEW j \in 1 .. Len(q), j > count
        PROVE  j - count \in 1 .. Len(ring'[CurrentRing]) /\ ring'[CurrentRing][j - count] = q[j]
    <3>1. j - count \in 1 .. Len(q) - count /\ count + 1 + (j - count) - 1 = j /\ count + 1 <= Len(q)
      BY <2>1, <2>5
    <3>. QED BY <2>3, <2>4, <3>1
  <2>6. ASSUME NEW r \in RegisteredRows, IsQueued(Owner[r], Latest(r))
        PROVE  IsQueued(Owner[r], Latest(r))' \/ IsPending(Latest(r))'
    <3>1. CASE Owner[r] # CurrentRing
      BY <1>2, <2>4, <2>6, <3>1, PublishedFacts DEF IsQueued
    <3>2. CASE Owner[r] = CurrentRing
      <4>1. PICK j \in 1 .. Len(q) : q[j] = Latest(r)
        BY <2>6, <3>2 DEF IsQueued
      <4>2. CASE j > count
        BY <1>2, <2>5, <3>2, <4>1, <4>2 DEF IsQueued
      <4>3. CASE ~(j > count)
        <5>1. j \in 1 .. left
          BY <2>1, <2>2, <4>3
        <5>2. q[j].row = r /\ q[j].seq = word[r]
          BY <4>1 DEF Latest
        <5>3. IsPending(Latest(r))
          BY <1>3, <2>2, <4>1, <5>1, <5>2 DEF Copied
        <5>. QED BY <1>2, <2>2, <5>3 DEF IsPending
      <4>. QED BY <4>2, <4>3
    <3>. QED BY <3>1, <3>2
  <2>7. \A r \in RegisteredRows : Safe(r) => Safe(r)'
    BY <1>1, <1>2, <2>2, <2>6 DEF Safe, IsPending, BeingScanned
  <2>. QED BY <1>2, <1>3, <2>2, <2>7 DEF CoverInv, Copied
<1>8. CASE StartRecovery
  <2>1. /\ UNCHANGED <<ring, pending, overflow>> /\ rpc' # "copy"
        /\ \/ scan' = 1 /\ scanning'
           \/ /\ ~(~scanning /\ (rescan \/ flagged))
              /\ UNCHANGED <<scan, scanning>> /\ rescan' = (rescan \/ flagged)
    BY <1>8 DEF StartRecovery, ringVars
  <2>2. \A r \in RegisteredRows : 1 <= r
    BY Counting DEF RegisteredRows
  <2>3. ASSUME NEW r \in RegisteredRows, Safe(r)
        PROVE  Safe(r)'
    <3>1. CASE scan' = 1 /\ scanning'
      BY <1>1, <2>2, <3>1 DEF Safe, BeingScanned
    <3>2. CASE ~(~scanning /\ (rescan \/ flagged)) /\ UNCHANGED <<scan, scanning>> /\ rescan' = (rescan \/ flagged)
      BY <1>1, <1>2, <2>1, <2>3, <3>2 DEF Safe, IsQueued, IsPending, BeingScanned
    <3>. QED BY <2>1, <3>1, <3>2
  <2>. QED BY <1>2, <1>3, <2>1, <2>3 DEF CoverInv, Copied
<1>. QED BY <1>4, <1>5, <1>6, <1>7, <1>8

\* The loops of poll: a hint leaves the queue only for a capture or for a row seen
\* at its sequence, and the scan passes only rows that another part covers.
LEMMA CoverOfLoops ==
    ASSUME TableInv, ReaderInv, HintsInv, CoverInv,
           Priority \/ StartHints \/ TakeHint \/ StartScan \/ ScanRow
    PROVE  CoverInv'
<1>1. /\ UNCHANGED <<word, wpc, wrow, seen, ring, overflow, flagged, rescan>>
      /\ ~Capturing /\ rpc' # "copy"
  BY DEF Priority, StartHints, TakeHint, StartScan, ScanRow, StartCapture, Capturing, rowVars,
         ringVars, drainVars, workerVars, hintVars, captureVars
<1>2. \A r : /\ Owed(r)' <=> Owed(r)
             /\ Latest(r)' = Latest(r)
             /\ Announcing(Owner[r])' <=> Announcing(Owner[r])
             /\ IsQueued(Owner[r], Latest(r))' <=> IsQueued(Owner[r], Latest(r))
             /\ ~BeingScanned(r)
  BY <1>1 DEF Owed, Latest, Announcing, IsQueued, BeingScanned
<1>3. \A r \in RegisteredRows : Owed(r) => Safe(r)
  BY DEF CoverInv
<1>4. Copied'
  BY <1>1 DEF Copied
<1>5. CASE Priority \/ StartHints \/ StartScan
  <2>1. /\ UNCHANGED <<pending, scan, scanning>>
        /\ Capturing' => phase' = "priority"
    BY <1>5 DEF Priority, StartHints, StartScan, StartCapture, Capturing, hintVars, captureVars
  <2>2. \A r : ~BeingScanned(r)' /\ (IsPending(Latest(r))' <=> IsPending(Latest(r)))
    BY <1>2, <2>1 DEF BeingScanned, IsPending
  <2>3. \A r \in RegisteredRows : Safe(r) => Safe(r)'
    BY <1>1, <1>2, <2>1, <2>2 DEF Safe
  <2>. QED BY <1>2, <1>3, <1>4, <2>3 DEF CoverInv
<1>6. CASE TakeHint
  <2> DEFINE h == pending[1]
  <2>1. rpc = "hints" /\ pending \in Seq(Pendings) /\ Len(pending) \in Nat /\ left \in 1 .. Len(pending)
    BY <1>6, LenProperties DEF TakeHint, ReaderInv, Draining, Queues, PollPhase, Capturing
  <2>2. pending # <<>> /\ Head(pending) = h /\ 1 \in 1 .. Len(pending) /\ h \in Pendings /\ Behind(h)
    BY <2>1, EmptySeq, QueuedHints DEF HintsInv
  <2>3. /\ Len(Tail(pending)) = Len(pending) - 1
        /\ \A i \in 1 .. Len(Tail(pending)) : Tail(pending)[i] = pending[i + 1]
    BY <2>1, <2>2, HeadTailProperties
  <2>4. /\ pending' = Tail(pending) /\ UNCHANGED <<scan, scanning>>
        /\ IF seen[h.row] # Invalid /\ ~Newer(h.seq, seen[h.row])
           THEN UNCHANGED <<rpc, captureVars>>
           ELSE StartCapture("hints", h.row, h.seq)
    BY <1>6, <2>2 DEF TakeHint
  <2>. HIDE DEF h
  <2>5. \A r : ~BeingScanned(r)'
    BY <1>1, <2>4 DEF BeingScanned, StartCapture, Capturing, captureVars
  <2>6. ASSUME NEW i \in 1 .. Len(pending), i # 1
        PROVE  \E j \in 1 .. Len(pending') : pending'[j] = pending[i]
    <3>1. i - 1 \in 1 .. Len(pending') /\ (i - 1) + 1 = i
      BY <2>1, <2>3, <2>4, <2>6
    <3>. QED BY <2>3, <2>4, <3>1
  <2>7. ASSUME NEW r \in RegisteredRows, Owed(r), IsPending(Latest(r))
        PROVE  IsPending(Latest(r))' \/ (Capturing' /\ at' = r /\ look' = word[r])
    <3>1. PICK i \in 1 .. Len(pending) : pending[i] = Latest(r)
      BY <2>7 DEF IsPending
    <3>2. CASE i # 1
      BY <1>2, <2>6, <3>1, <3>2 DEF IsPending
    <3>3. CASE i = 1
      <4>1. h = Latest(r) /\ h.row = r /\ h.seq = word[r] /\ h.seq \in Versions
        BY <2>2, <3>1, <3>3 DEF h, Latest, Pendings
      <4>2. ~(seen[r] # Invalid /\ ~Newer(word[r], seen[r]))
        <5>1. SUFFICES ASSUME seen[r] # Invalid PROVE Newer(word[r], seen[r])
          OBVIOUS
        <5>2. seen[r] \in Versions /\ seen[r] <= word[r] /\ seen[r] # word[r] /\ word[r] \in Versions
          BY <2>7, <5>1, SeenBehind, ValidWord, Counting DEF Owed
        <5>3. word[r] > seen[r]
          BY <5>2, TableAssumptions DEF Versions
        <5>. QED BY <5>2, <5>3, NewerIsGreater
      <4>. QED BY <2>4, <4>1, <4>2, CaptureStarts
    <3>. QED BY <3>2, <3>3
  <2>8. ASSUME NEW r \in RegisteredRows, Owed(r)
        PROVE  Safe(r)'
    <3>1. Safe(r)
      BY <1>3, <2>8
    <3>. QED BY <1>1, <1>2, <2>4, <2>5, <2>7, <2>8, <3>1 DEF Safe
  <2>. QED BY <1>2, <1>4, <2>8 DEF CoverInv
<1>7. CASE ScanRow
  <2>1. /\ scanning /\ pending' = pending
        /\ \/ /\ StartCapture("scan", scan, word[scan]) /\ UNCHANGED <<scan, scanning>>
           \/ /\ word[scan] \in {Invalid, seen[scan]}
              /\ AdvanceScan /\ UNCHANGED <<rpc, captureVars>>
    BY <1>7 DEF ScanRow
  <2>2. scan \in RegisteredRows
    BY <2>1, Counting DEF ReaderInv, Recovering, RegisteredRows
  <2>3. \A r : IsPending(Latest(r))' <=> IsPending(Latest(r))
    BY <1>2, <2>1 DEF IsPending
  <2>4. ASSUME NEW r \in RegisteredRows, Owed(r)
        PROVE  Safe(r)'
    <3>1. Safe(r)
      BY <1>3, <2>4
    <3>2. CASE StartCapture("scan", scan, word[scan]) /\ UNCHANGED <<scan, scanning>>
      <4>1. Capturing' /\ at' = scan /\ look' = word[scan]
        BY <3>2, CaptureStarts
      <4>2. CASE r = scan
        BY <1>1, <4>1, <4>2 DEF Safe
      <4>3. CASE r # scan
        BY <1>1, <1>2, <2>3, <3>1, <3>2, <4>1, <4>3 DEF Safe, BeingScanned
      <4>. QED BY <4>2, <4>3
    <3>3. CASE word[scan] \in {Invalid, seen[scan]} /\ AdvanceScan /\ UNCHANGED <<rpc, captureVars>>
      <4>1. r # scan
        BY <2>4, <3>3 DEF Owed
      <4>2. \A x : ~BeingScanned(x)'
        BY <1>1, <3>3 DEF BeingScanned, Capturing
      <4>3. scan <= r => scan' <= r /\ scanning'
        BY <2>1, <2>2, <3>3, <4>1, ScanAdvances, Counting DEF RegisteredRows
      <4>. QED BY <1>1, <1>2, <2>3, <3>1, <4>2, <4>3 DEF Safe
    <3>. QED BY <2>1, <3>2, <3>3
  <2>. QED BY <1>2, <1>4, <2>4 DEF CoverInv
<1>. QED BY <1>5, <1>6, <1>7

\* capture: the row is seen when it returns, or it is hinted again.
LEMMA CoverOfCapture ==
    ASSUME TableInv, ReaderInv, HintsInv, CoverInv, ReadBegin \/ ReadField \/ ReadEnd
    PROVE  CoverInv'
<1>1. /\ UNCHANGED <<word, wpc, wrow, ring, overflow, flagged, rescan>>
      /\ Capturing /\ rpc' # "copy"
  <2>1. rpc' # "copy"
    BY DEF ReadBegin, ReadField, ReadEnd, Retry, Return, TableInv, Shapes, ReaderPhases
  <2>. QED BY <2>1, CaptureSteps DEF rowVars, ringVars, drainVars, workerVars
<1>2. \A r : /\ Latest(r)' = Latest(r)
             /\ Announcing(Owner[r])' <=> Announcing(Owner[r])
             /\ IsQueued(Owner[r], Latest(r))' <=> IsQueued(Owner[r], Latest(r))
  BY <1>1 DEF Latest, Announcing, IsQueued
<1>3. \A r \in RegisteredRows : Owed(r) => Safe(r)
  BY DEF CoverInv
<1>4. Copied' /\ at \in RegisteredRows
  BY <1>1 DEF Copied, ReaderInv, Inspecting
<1>5. CASE rpc' \in {"begin", "read"} /\ UNCHANGED <<phase, at, look, scan, scanning, seen, pending>>
  <2>1. Capturing' /\ (\A r : BeingScanned(r)' <=> BeingScanned(r)) /\ (\A r : Owed(r)' <=> Owed(r))
        /\ \A r : IsPending(Latest(r))' <=> IsPending(Latest(r))
    BY <1>1, <1>2, <1>5 DEF Capturing, BeingScanned, Owed, IsPending
  <2>2. \A r \in RegisteredRows : Safe(r) => Safe(r)'
    BY <1>1, <1>2, <1>5, <2>1 DEF Safe
  <2>. QED BY <1>3, <1>4, <2>1, <2>2 DEF CoverInv
<1>6. CASE Return
  <2>1. \A r : ~BeingScanned(r)'
    BY <1>1, <1>6, CaptureReturns DEF BeingScanned
  <2>2. ASSUME NEW r \in RegisteredRows, r # at \/ phase # "scan", scanning, scan <= r
        PROVE  scanning' /\ scan' <= r
    <3>1. CASE phase = "scan"
      <4>1. scan = at /\ r # at /\ scan' = scan + 1 /\ (scanning' <=> scan < Registered)
        BY <1>1, <1>6, <2>2, <3>1, CaptureReturns
      <4>2. scan \in Nat /\ r \in Nat /\ r <= Registered
        BY <1>4, <4>1, Counting DEF RegisteredRows
      <4>. QED BY <2>2, <4>1, <4>2, Counting
    <3>2. CASE phase # "scan"
      BY <1>1, <1>6, <2>2, <3>2, CaptureReturns
    <3>. QED BY <3>1, <3>2
  <2>3. ASSUME NEW r \in RegisteredRows, Safe(r),
               r # at \/ ~(look = word[r]) \/ IsPriority(r),
               IsPending(Latest(r)) => IsPending(Latest(r))'
        PROVE  Safe(r)'
    <3>1. scanning /\ scan <= r /\ ~BeingScanned(r) => scanning' /\ scan' <= r
      BY <1>1, <2>2 DEF BeingScanned
    <3>. QED BY <1>1, <1>2, <2>1, <2>3, <3>1 DEF Safe
  <2>4. CASE pending' = pending /\ word[at] = first /\ rpc = "read"
             /\ (\/ seen[at] = first /\ seen' = seen
                 \/ seen[at] # first /\ seen' = [seen EXCEPT ![at] = first])
    <3>1. seen'[at] = word[at] /\ \A r \in RegisteredRows : r # at => seen'[r] = seen[r]
      BY <1>4, <2>4 DEF TableInv, Shapes
    <3>2. ASSUME NEW r \in RegisteredRows, Owed(r)'
          PROVE  Safe(r)'
      <4>1. r # at /\ Owed(r)
        BY <1>1, <3>1, <3>2 DEF Owed
      <4>2. IsPending(Latest(r)) => IsPending(Latest(r))'
        BY <1>2, <2>4 DEF IsPending
      <4>. QED BY <1>3, <2>3, <4>1, <4>2
    <3>. QED BY <1>4, <3>2 DEF CoverInv
  <2>5. CASE phase = "priority" /\ UNCHANGED <<pending, seen>>
    <3>1. IsPriority(at)
      BY <1>1, <2>5 DEF ReaderInv, Inspecting
    <3>2. ASSUME NEW r \in RegisteredRows, Owed(r)'
          PROVE  Safe(r)'
      <4>1. Owed(r) /\ (IsPending(Latest(r)) => IsPending(Latest(r))')
        BY <1>1, <1>2, <2>5, <3>2 DEF Owed, IsPending
      <4>. QED BY <1>3, <2>3, <3>1, <4>1
    <3>. QED BY <1>4, <3>2 DEF CoverInv
  <2>6. CASE phase # "priority" /\ seen' = seen /\ pending' = Hinted(pending, [row |-> at, seq |-> look])
    <3> DEFINE h == [row |-> at, seq |-> look]
    <3>1. h \in Pendings /\ Behind(h) /\ h.row = at /\ h.seq = look
      BY <1>1, <2>6, QueuedHints DEF HintsInv
    <3>2. \A g \in Pendings : word[g.row] = g.seq /\ IsPending(g) => IsPending(g)'
      BY <2>6, <3>1, HintedKeeps
    <3>3. look = word[at] => \E i \in 1 .. Len(pending') : pending'[i] = h
      <4>1. PICK g \in Pendings : g = h
        BY <3>1
      <4>2. look = word[at] => IsPending(g)'
        BY <2>6, <3>1, <4>1, HintedKeeps
      <4>. QED BY <4>1, <4>2 DEF IsPending
    <3>4. ASSUME NEW r \in RegisteredRows, Owed(r)'
          PROVE  Safe(r)'
      <4>1. Owed(r)
        BY <1>1, <2>6, <3>4 DEF Owed
      <4>2. CASE r = at /\ look = word[at]
        <5>1. IsPending(Latest(r))'
          BY <1>2, <3>3, <4>2 DEF IsPending, Latest
        <5>. QED BY <5>1 DEF Safe
      <4>3. CASE ~(r = at /\ look = word[at])
        <5>1. Latest(r) \in Pendings /\ Latest(r).row = r /\ Latest(r).seq = word[r]
          BY <4>1, ValidWord, Counting DEF Owed, Latest, Pendings
        <5>2. PICK g \in Pendings : g = Latest(r)
          BY <5>1
        <5>3. IsPending(Latest(r)) => IsPending(Latest(r))'
          BY <1>2, <3>2, <5>1, <5>2 DEF IsPending
        <5>. QED BY <1>3, <2>3, <4>1, <4>3, <5>3
      <4>. QED BY <4>2, <4>3
    <3>. QED BY <1>4, <3>4 DEF CoverInv
  <2>. QED BY <1>5, <2>4, <2>5, <2>6, CaptureSteps
<1>. QED BY <1>5, <1>6, CaptureSteps

\* Between polls nothing is dropped, and the cohort barrier leaves no request row
\* with a publication to see.
LEMMA CoverOfEnds ==
    ASSUME TableInv, ReaderInv, HintsInv, CoverInv, Deliver \/ Reset
    PROVE  CoverInv'
<1>1. CASE Deliver
  <2>1. /\ UNCHANGED <<word, wpc, wrow, seen, ring, overflow, flagged, rescan, pending, scan, scanning>>
        /\ ~Capturing /\ ~Capturing' /\ rpc' = "idle"
    BY <1>1 DEF Deliver, Capturing, rowVars, ringVars, drainVars, workerVars, hintVars
  <2>2. \A r : /\ Owed(r)' <=> Owed(r)
               /\ Safe(r) => Safe(r)'
    BY <2>1 DEF Owed, Safe, Latest, Announcing, IsQueued, IsPending, BeingScanned
  <2>. QED BY <2>1, <2>2 DEF CoverInv, Copied
<1>2. CASE Reset
  <2>1. rpc' = "idle" /\ \A r \in RegisteredRows : ~IsPriority(r) => word'[r] = Invalid
    BY <1>2, PublishedFacts DEF Reset, TableInv, Shapes
  <2>. QED BY <2>1 DEF CoverInv, Copied, Owed, Safe
<1>. QED BY <1>1, <1>2

\* Every step keeps every committed publication covered.
LEMMA CoverStep == ASSUME TableInv, ReaderInv, HintsInv, CoverInv, [Next]_vars PROVE CoverInv'
<1>1. CASE UNCHANGED vars
  BY <1>1 DEF vars, rowVars, ringVars, workerVars, drainVars, hintVars, budgetVars, captureVars, CoverInv,
              Copied, Owed, Safe, Latest, Announcing, IsQueued, IsPending, BeingScanned, Capturing, CurrentRing
<1>. QED BY <1>1, CoverOfWorker, CoverOfDrain, CoverOfLoops, CoverOfCapture, CoverOfEnds
         DEF Next, ReaderStep

\* A row whose publication is still owed to the Engine is covered, in every
\* reachable state.
THEOREM CoverInvariant == Spec => []CoverInv
<1>1. Init => CoverInv
  BY PublishedFacts DEF Init, CoverInv, Copied, Owed
<1>2. TableInv /\ ReaderInv /\ HintsInv /\ CoverInv /\ [Next]_vars => CoverInv'
  BY CoverStep
<1>. QED BY <1>1, <1>2, TableInvariant, ReaderInvariant, HintsInvariant, PTL DEF Spec

\* A committed publication the Reader has not captured is still announced,
\* hinted, ahead of a recovery scan, or being captured: at every step of every
\* worker and of the poll, for every ring capacity and every budget.
THEOREM NothingDropped == Spec => []Covered
<1>1. TableInv /\ CoverInv => Covered
  BY PublishedFacts
     DEF CoverInv, Covered, Owed, Safe, HintOnTheWay, RecoveryAhead, IsQueued, IsPending, Latest, Announcing, Capturing
<1>. QED BY <1>1, TableInvariant, CoverInvariant, PTL

\* A captured snapshot with the sequence of the committed one is that snapshot.
LEMMA AgreementStep == ASSUME TableInv, Agreement, [Next]_vars PROVE Agreement'
<1>1. TableInv' /\ (Silent \/ Atomic!Next)
  BY TableStep
<1>2. CASE Silent
  BY <1>2 DEF Silent, Agreement
<1>3. CASE Atomic!Forget
  <2>1. \A r \in RegisteredRows : /\ committed'[r] = IF IsPriority(r) THEN committed[r] ELSE Unseen
                                  /\ Captured(r)' = IF IsPriority(r) THEN Captured(r) ELSE Unseen
    BY <1>3 DEF Atomic!Forget
  <2>. QED BY <2>1 DEF Agreement
<1>4. ASSUME NEW r \in RegisteredRows, Atomic!Observe(r) PROVE Agreement'
  <2>1. /\ [x \in RegisteredRows |-> Captured(x)'] = [[x \in RegisteredRows |-> Captured(x)] EXCEPT ![r] = committed[r]]
        /\ [x \in RegisteredRows |-> committed'[x]] = [x \in RegisteredRows |-> committed[x]]
    BY <1>4 DEF Atomic!Observe
  <2>2. \A x \in RegisteredRows : Captured(x)' = IF x = r THEN committed[r] ELSE Captured(x)
    <3> DEFINE f == [x \in RegisteredRows |-> Captured(x)']
               g == [[x \in RegisteredRows |-> Captured(x)] EXCEPT ![r] = committed[r]]
    <3>1. \A x \in RegisteredRows : f[x] = g[x]
      BY <2>1
    <3>. QED BY <3>1
  <2>3. \A x \in RegisteredRows : committed'[x] = committed[x]
    <3> DEFINE f == [x \in RegisteredRows |-> committed'[x]]
               g == [x \in RegisteredRows |-> committed[x]]
    <3>1. \A x \in RegisteredRows : f[x] = g[x]
      BY <2>1
    <3>. QED BY <3>1
  <2>. QED BY <2>2, <2>3 DEF Agreement
<1>5. ASSUME NEW r \in RegisteredRows, Atomic!Publish(r) PROVE Agreement'
  <2>1. PICK d \in Payloads :
          [x \in RegisteredRows |-> committed'[x]] =
             [[x \in RegisteredRows |-> committed[x]] EXCEPT ![r] = [seq |-> Successor(committed[r]), data |-> d]]
    BY <1>5 DEF Atomic!Publish, Successor
  <2>2. [x \in RegisteredRows |-> Captured(x)'] = [x \in RegisteredRows |-> Captured(x)]
    BY <1>5 DEF Atomic!Publish
  <2>3. \A x \in RegisteredRows : Captured(x)' = Captured(x)
    <3> DEFINE f == [x \in RegisteredRows |-> Captured(x)']
               g == [x \in RegisteredRows |-> Captured(x)]
    <3>1. \A x \in RegisteredRows : f[x] = g[x]
      BY <2>2
    <3>. QED BY <3>1
  <2>4. \A x \in RegisteredRows :
           committed'[x] = IF x = r THEN [seq |-> Successor(committed[r]), data |-> d] ELSE committed[x]
    <3> DEFINE f == [x \in RegisteredRows |-> committed'[x]]
               g == [[x \in RegisteredRows |-> committed[x]] EXCEPT ![r] = [seq |-> Successor(committed[r]), data |-> d]]
    <3>1. \A x \in RegisteredRows : f[x] = g[x]
      BY <2>1
    <3>. QED BY <3>1
  <2>5. Captured(r).seq # committed'[r].seq
    <3>1. committed'[r].seq = Successor(committed[r]) /\ committed'[r] \in Published \cup {Unseen}
      BY <1>1, <2>4, PublishedFacts DEF TableInv, Shapes
    <3>2. CASE Captured(r) = Unseen
      <4>1. Successor(committed[r]) \in Nat /\ Successor(committed[r]) # Invalid
        BY PublishedFacts DEF Successor, TableInv, Shapes, Invalid
      <4>. QED BY <3>1, <3>2, <4>1, PublishedFacts
    <3>3. CASE Captured(r) # Unseen
      <4>1. Captured(r) \in Published /\ committed[r] \in Published /\ Captured(r).seq <= committed[r].seq
        BY <3>3, PublishedFacts DEF TableInv, Shapes, Observed, Captured
      <4>2. Successor(committed[r]) = committed[r].seq + 1
        BY <4>1, PublishedFacts DEF Successor
      <4>. QED BY <3>1, <4>1, <4>2, PublishedFacts
    <3>. QED BY <3>2, <3>3
  <2>. QED BY <2>3, <2>4, <2>5 DEF Agreement
<1>. QED BY <1>1, <1>2, <1>3, <1>4, <1>5 DEF Atomic!Next

\* When has_pending says no between two polls and no worker is publishing, the
\* Engine holds the last snapshot of every request row.
THEOREM NothingMissing == Spec => []NothingMissed
<1>1. Init => Agreement
  BY PublishedFacts DEF Init, Agreement, Captured
<1>2. TableInv /\ Agreement /\ [Next]_vars => Agreement'
  BY AgreementStep
<1>3. TableInv /\ ReaderInv /\ CoverInv /\ Agreement => NothingMissed
  <2>. SUFFICES ASSUME TableInv, ReaderInv, CoverInv, Agreement,
                       rpc = "idle", ~HasPending, \A w \in WorkerIds : wpc[w] = "idle",
                       NEW r \in RegisteredRows, ~IsPriority(r)
                PROVE  rows[r] = committed[r]
    BY DEF NothingMissed
  <2>1. r \in Rows /\ Owner[r] \in WorkerIds
    BY PublishedFacts
  <2>2. Captured(r) = rows[r]
    BY DEF TableInv, Observed, Captured
  <2>3. pending = <<>> /\ ~scanning /\ ~rescan /\ \A w \in WorkerIds : ring[w] = <<>> /\ ~overflow[w]
    BY DEF HasPending
  <2>4. ~Safe(r)
    <3>1. ~flagged /\ ~Capturing
      BY DEF ReaderInv, Recovering, DrainPoints, Capturing
    <3>2. ~IsQueued(Owner[r], Latest(r)) /\ ~IsPending(Latest(r))
      BY <2>1, <2>3 DEF IsQueued, IsPending
    <3>. QED BY <2>1, <2>3, <3>1, <3>2 DEF Safe, Announcing
  <2>5. CASE word[r] = Invalid
    <3>1. committed[r] = Unseen
      BY <2>1, <2>5 DEF TableInv, Settled
    <3>. QED BY <2>2, <3>1 DEF TableInv, Observed
  <2>6. CASE word[r] # Invalid
    <3>1. seen[r] = word[r] /\ committed[r].seq = word[r]
      BY <2>1, <2>4, <2>6, ValidWord DEF CoverInv, Owed
    <3>. QED BY <2>2, <3>1 DEF TableInv, Observed, Agreement
  <2>. QED BY <2>5, <2>6
<1>. QED BY <1>1, <1>2, <1>3, TableInvariant, ReaderInvariant, CoverInvariant, PTL DEF Spec

-----------------------------------------------------------------------------
\* The budget of a poll.
LEMMA ReportedFinite == IsFiniteSet(Reported) /\ Cardinality(Reported) \in Nat
<1>1. IsFiniteSet(RegisteredRows)
  BY Counting, FS_Interval DEF RegisteredRows
<1>. QED BY <1>1, FS_Subset, FS_CardinalityType DEF Reported

\* One more row reported is at most one more entry of the output.
LEMMA ReportedGrows ==
  ASSUME NEW r, Reported' \subseteq Reported \cup {r}
  PROVE  Cardinality(Reported') \in Nat /\ Cardinality(Reported') <= Cardinality(Reported) + 1
<1>1. /\ IsFiniteSet(Reported \cup {r})
      /\ Cardinality(Reported \cup {r}) = IF r \in Reported THEN Cardinality(Reported) ELSE Cardinality(Reported) + 1
  BY ReportedFinite, FS_AddElement
<1>2. Cardinality(Reported') <= Cardinality(Reported \cup {r}) /\ IsFiniteSet(Reported')
  BY <1>1, FS_Subset
<1>3. Cardinality(Reported') \in Nat
  BY <1>2, FS_CardinalityType
<1>. QED BY ReportedFinite, <1>1, <1>2, <1>3

\* The half of the budget that a scan reserves.
LEMMA Halving == \A b \in Nat : b \div 2 \in 0 .. b
OBVIOUS

\* One more row visited where there was room for one.
LEMMA StillFits == \A a, b, c, d \in Nat : a + b + 1 <= d /\ c <= b + 1 => a + c <= d
OBVIOUS

\* Every reported row has been paid for by a turn of the priority loop, a hint
\* taken or a row scanned.
LEMMA BudgetStep == ASSUME TableInv, ReaderInv, BudgetInv, [Next]_vars PROVE BudgetInv'
<1>1. Entries \in Nat /\ left \in Nat /\ taken \in Nat /\ scanned \in Nat /\ Turns' = Turns
  BY ReportedFinite DEF Entries, ReaderInv, Draining, BudgetInv, Spent, Turns
<1>2. output' = output => Entries' = Entries
  BY DEF Entries, Reported
<1>3. ASSUME UNCHANGED <<rpc, phase, left, taken, scanned, output>> PROVE BudgetInv'
  BY <1>3, <1>2 DEF BudgetInv, Spent, Reserved, Allowance, PollPhase, Capturing, Turns
<1>4. ASSUME Spent', Entries' + Reserved' <= Allowance' PROVE BudgetInv'
  BY <1>4 DEF BudgetInv
<1>5. Spent /\ Entries + Reserved <= Allowance
  BY DEF BudgetInv
<1>6. ASSUME NEW w \in WorkerIds, WorkerStep(w) PROVE BudgetInv'
  <2>1. UNCHANGED <<rpc, phase, left, taken, scanned, output>>
    BY <1>6 DEF WorkerStep, StoreInvalid, StoreField, Commit, CheckRoom, PushHint, RaiseOverflow,
                ExchangeDoor, RingDoorbell, budgetVars, captureVars, engineVars
  <2>. QED BY <1>3, <2>1
<1>7. CASE Wake \/ ClearDoor \/ TakeOverflow \/ LoadTail \/ CopyHint \/ StoreHead
  <2>1. /\ ~Capturing /\ ~Capturing' /\ PollPhase \notin {"priority", "hints", "scan"}
        /\ PollPhase' \notin {"priority", "hints", "scan"}
        /\ UNCHANGED <<taken, scanned, output>>
    BY <1>7 DEF Wake, ClearDoor, TakeOverflow, LoadTail, CopyHint, StoreHead, Capturing, PollPhase,
                budgetVars, engineVars
  <2>2. Spent'
    BY <1>5, <2>1 DEF Spent
  <2>3. Reserved = 0 /\ Reserved' = 0 /\ Allowance = 0 /\ Allowance' = 0
    BY <2>1 DEF Reserved, Allowance
  <2>. QED BY <1>2, <1>4, <1>5, <2>1, <2>2, <2>3
<1>8. CASE StartRecovery
  <2>1. /\ ~Capturing /\ ~Capturing' /\ PollPhase = "recover" /\ PollPhase' = "priority"
        /\ left' = Turns /\ UNCHANGED <<taken, scanned, output>>
    BY <1>8 DEF StartRecovery, Capturing, PollPhase, Turns, engineVars
  <2>2. Spent'
    BY <1>5, <2>1 DEF Spent
  <2>3. Reserved = 0 /\ Reserved' = 0 /\ Allowance = 0 /\ Allowance' = 0
    BY <1>1, <2>1, Counting DEF Reserved, Allowance
  <2>. QED BY <1>2, <1>4, <1>5, <2>1, <2>2, <2>3
<1>9. CASE Priority \/ TakeHint
  <2>1. /\ ~Capturing /\ rpc \in {"priority", "hints"} /\ PollPhase = rpc /\ PollPhase' = rpc
        /\ left' = left - 1 /\ left > 0 /\ UNCHANGED <<taken, scanned, output>>
        /\ Capturing' => phase' = rpc
    BY <1>9 DEF Priority, TakeHint, StartCapture, Capturing, PollPhase, captureVars, engineVars
  <2>2. Spent'
    BY <1>1, <1>5, <2>1 DEF Spent
  <2>3. Reserved = 0 /\ (Reserved' = 0 \/ Reserved' = 1) /\ Allowance' = Allowance + 1 /\ Allowance \in Int
    BY <1>1, <2>1, Counting DEF Reserved, Allowance
  <2>4. Entries' + Reserved' <= Allowance'
    BY <1>1, <1>2, <1>5, <2>1, <2>3
  <2>. QED BY <1>4, <2>2, <2>4
<1>10. CASE StartHints
  <2>1. /\ ~Capturing /\ ~Capturing' /\ PollPhase = "priority" /\ PollPhase' = "hints" /\ left = 0
        /\ taken' = left' /\ UNCHANGED <<scanned, output>>
        /\ taken' = Least(Len(pending), IF scanning THEN Budget \div 2 ELSE Budget)
    BY <1>10 DEF StartHints, Capturing, PollPhase, engineVars
  <2>2. taken' \in 0 .. Budget
    <3>1. Len(pending) \in Nat
      BY LenProperties DEF ReaderInv, Queues
    <3>2. Budget \div 2 \in 0 .. Budget
      BY Counting, Halving
    <3>. QED BY <2>1, <3>1, <3>2, Counting DEF Least
  <2>3. Spent'
    BY <1>5, <2>1, <2>2 DEF Spent
  <2>4. Reserved = 0 /\ Reserved' = 0 /\ Allowance = Turns /\ Allowance' = Turns
    BY <1>1, <2>1, <2>2, Counting DEF Reserved, Allowance
  <2>. QED BY <1>2, <1>4, <1>5, <2>1, <2>3, <2>4
<1>11. CASE StartScan
  <2>1. /\ ~Capturing /\ ~Capturing' /\ PollPhase = "hints" /\ PollPhase' = "scan" /\ left = 0
        /\ UNCHANGED <<taken, scanned, output>>
    BY <1>11 DEF StartScan, Capturing, PollPhase, budgetVars, engineVars
  <2>2. scanned = 0
    BY <1>5, <2>1 DEF Spent
  <2>3. Spent'
    BY <1>5, <2>1, <2>2 DEF Spent
  <2>4. Reserved = 0 /\ Reserved' = 0 /\ Allowance = Turns + taken /\ Allowance' = Turns + taken
    BY <1>1, <2>1, <2>2, Counting DEF Reserved, Allowance
  <2>. QED BY <1>2, <1>4, <1>5, <2>1, <2>3, <2>4
<1>12. CASE ScanRow
  <2>1. /\ ~Capturing /\ PollPhase = "scan" /\ PollPhase' = "scan" /\ UNCHANGED <<taken, output>>
        /\ Capturing' => phase' = "scan" /\ scanned' = scanned
        /\ (scanned' = scanned \/ scanned' = scanned + 1) /\ scanned < Budget - taken
    BY <1>12 DEF ScanRow, StartCapture, AdvanceScan, Capturing, PollPhase, captureVars, engineVars
  <2>2. Spent'
    <3>1. scanned' \in Nat /\ taken' \in Nat /\ taken' = taken /\ taken \in 0 .. Budget /\ taken + scanned < Budget
      BY <1>1, <1>5, <2>1, Counting DEF Spent
    <3>2. taken' + scanned' <= Budget
      <4>1. scanned' <= scanned + 1 /\ taken \in Nat /\ Budget \in Nat
        BY <1>1, <2>1, <3>1, Counting
      <4>2. scanned \in Nat /\ taken + scanned + 1 <= Budget
        BY <1>1, <3>1, <4>1
      <4>3. taken + scanned' <= Budget
        BY <3>1, <4>1, <4>2, StillFits
      <4>. QED BY <3>1, <4>3
    <3>3. Capturing' => taken' + scanned' < Budget
      <4>. SUFFICES ASSUME Capturing' PROVE taken' + scanned' < Budget
        OBVIOUS
      <4>. QED BY <1>1, <2>1, <3>1, Counting
    <3>. QED BY <2>1, <3>1, <3>2, <3>3 DEF Spent
  <2>3. Reserved = 0 /\ Reserved' = 0 /\ Allowance' >= Allowance /\ Allowance' \in Int /\ Allowance \in Int
    BY <1>1, <2>1, Counting DEF Reserved, Allowance
  <2>. QED BY <1>1, <1>2, <1>4, <1>5, <2>1, <2>2, <2>3
<1>13. CASE ReadBegin \/ ReadField \/ ReadEnd
  <2>1. /\ Capturing /\ PollPhase = phase /\ phase \in ReaderPhases /\ UNCHANGED <<left, taken>>
    BY <1>13, CaptureSteps DEF PollPhase, TableInv, Shapes
  <2>2. CASE rpc' \in {"begin", "read"} /\ UNCHANGED <<phase, scanned, output>>
    <3>1. Capturing' /\ PollPhase' = PollPhase
      BY <2>1, <2>2 DEF Capturing, PollPhase
    <3>2. Spent' /\ Reserved' = Reserved /\ Allowance' = Allowance
      BY <1>1, <1>5, <2>1, <2>2, <3>1 DEF Spent, Reserved, Allowance
    <3>. QED BY <1>2, <1>4, <1>5, <2>2, <3>2
  <2>3. CASE Return
    <3>1. ~Capturing' /\ PollPhase' = phase /\ scanned' = IF phase = "scan" THEN scanned + 1 ELSE scanned
      BY <2>1, <2>3, CaptureReturns DEF Return, AdvanceScan
    <3>2. Spent'
      BY <1>1, <1>5, <2>1, <3>1, Counting DEF Spent
    <3>3. Entries' \in Nat /\ Entries' <= Entries + 1
      <4>1. Reported' \subseteq Reported \cup {at}
        <5>1. output' = output \/ output' = [output EXCEPT ![at] = Snapshot(first, scratch)]
          BY <1>13, CaptureSteps
        <5>. QED BY <5>1 DEF Reported, TableInv, Shapes
      <4>. QED BY <4>1, ReportedGrows DEF Entries
    <3>4. Reserved' = 0 /\ Allowance' = Allowance + (1 - Reserved) /\ (Reserved = 0 \/ Reserved = 1) /\ Allowance \in Int
      BY <1>1, <2>1, <3>1, Counting DEF Reserved, Allowance, ReaderPhases
    <3>5. Entries' + Reserved' <= Allowance'
      BY <1>1, <1>5, <3>3, <3>4
    <3>. QED BY <1>4, <3>2, <3>5
  <2>. QED BY <1>13, <2>2, <2>3, CaptureSteps
<1>14. CASE Deliver
  <2>1. /\ ~Capturing' /\ PollPhase' = "idle" /\ taken' = 0 /\ scanned' = 0
        /\ output' = [r \in RegisteredRows |-> Unseen]
    BY <1>14 DEF Deliver, Capturing, PollPhase
  <2>2. Reported' = {} /\ Entries' = 0
    BY <2>1, FS_EmptySet DEF Reported, Entries
  <2>3. Spent'
    BY <2>1, Counting DEF Spent
  <2>4. Reserved' = 0 /\ Allowance' = 0
    BY <2>1 DEF Reserved, Allowance
  <2>. QED BY <1>4, <2>2, <2>3, <2>4
<1>15. CASE Reset \/ UNCHANGED vars
  <2>1. rpc' = rpc /\ UNCHANGED <<phase, left, taken, scanned, output>>
    BY <1>15 DEF Reset, vars, budgetVars, captureVars, engineVars
  <2>. QED BY <1>3, <2>1
<1>. QED BY <1>6, <1>7, <1>8, <1>9, <1>10, <1>11, <1>12, <1>13, <1>14, <1>15 DEF Next, ReaderStep

\* One poll reports no more rows than its output array has entries, for every
\* budget and every number of priority rows.
THEOREM OutputBounded == Spec => []OutputFits
<1>1. Init => BudgetInv
  <2>. SUFFICES ASSUME Init PROVE BudgetInv
    OBVIOUS
  <2>1. ~Capturing /\ PollPhase = "idle" /\ taken = 0 /\ scanned = 0
    BY DEF Init, Capturing, PollPhase
  <2>2. Entries = 0
    BY FS_EmptySet DEF Init, Reported, Entries
  <2>3. Spent
    BY <2>1, Counting DEF Spent
  <2>4. Reserved = 0 /\ Allowance = 0
    BY <2>1 DEF Reserved, Allowance
  <2>. QED BY <2>2, <2>3, <2>4 DEF BudgetInv
<1>2. TableInv /\ ReaderInv /\ BudgetInv /\ [Next]_vars => BudgetInv'
  BY BudgetStep
<1>3. ReaderInv /\ BudgetInv => OutputFits
  <2>. SUFFICES ASSUME ReaderInv, BudgetInv PROVE Entries <= Budget + Turns
    BY DEF OutputFits, Reported, Turns, Entries
  <2>1. Entries \in Nat /\ (Reserved = 0 \/ Reserved = 1) /\ left \in Nat /\ taken \in 0 .. Budget /\ scanned \in Nat
    BY ReportedFinite DEF Entries, Reserved, ReaderInv, Draining, BudgetInv, Spent
  <2>2. Allowance <= Budget + Turns /\ Allowance \in Int
    <3>1. CASE PollPhase = "priority"
      BY <2>1, <3>1, Counting DEF Allowance
    <3>2. CASE PollPhase = "hints"
      BY <2>1, <3>2, Counting DEF Allowance
    <3>3. CASE PollPhase = "scan"
      BY <2>1, <3>3, Counting DEF Allowance, BudgetInv, Spent
    <3>4. CASE PollPhase \notin {"priority", "hints", "scan"}
      <4>1. Allowance = 0
        BY <3>4 DEF Allowance
      <4>. QED BY <4>1, Counting
    <3>. QED BY <3>1, <3>2, <3>3, <3>4
  <2>. QED BY <2>1, <2>2, Counting DEF BudgetInv
<1>. QED BY <1>1, <1>2, <1>3, TableInvariant, ReaderInvariant, PTL DEF Spec

=============================================================================
