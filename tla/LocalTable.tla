----------------------------- MODULE LocalTable -----------------------------
(***************************************************************************)
(* The scheduling table inside one process (table/storage.py, reader.py,   *)
(* ipc/state_change_ring.py): publishers are threads, the rows are a       *)
(* bytearray, the notification ring has a lock, and the reader is          *)
(* IncrementalTableReader, in its two modes:                               *)
(*                                                                         *)
(*   unbounded  (max_entries None) a poll takes every hint and, after an   *)
(*              overflow, compares the sequences of all the rows;          *)
(*   bounded    a poll takes and reads a budget of hints, and spreads the  *)
(*              recovery scan over as many polls as it needs.              *)
(*                                                                         *)
(* A row's value is the sequence it was written with.  Sequences only grow *)
(* here; their wrap is SharedTable's subject.                              *)
(***************************************************************************)
EXTENDS Integers, Sequences, FiniteSets
LOCAL INSTANCE SequencesExt

CONSTANTS
    TableRows,     \* the number of rows, from 1
    IgnoredRows,   \* rows of ignored_kinds
    FirstRows,     \* priority_rows, in order
    HintRings,     \* the number of notification rings
    RingOf,        \* RingOf[r]: the ring of row r's publisher
    HintCapacity,  \* entries of a ring
    ReadBudgets,   \* values of max_entries; 0 is None
    ReadRetries,   \* max_retries
    MaxVersions,   \* MaxVersions[r]: bound on the publications of row r between barriers
    MaxBarriers    \* bound on cohort barriers

VARIABLES
    cell,      \* the bytes of every row: [word, value]
    author,    \* every row's publisher: [at, seq]
    hints,     \* every ring: [entries, lost]
    poll,      \* the reader's poll in progress
    cache,     \* what the reader keeps: [pending, seen, views, cursor, scan, rescan]
    barriers

localVars == <<cell, author, hints, poll, cache, barriers>>

NoWord == -1
Observed == (1 .. TableRows) \ IgnoredRows
Sticky == {FirstRows[i] : i \in DOMAIN FirstRows}
EmptyCell == [word |-> NoWord, value |-> NoWord]
Hint(r, s) == [row |-> r, seq |-> s]

\* IncrementalTableReader.__init__.
NewCache ==
    [pending |-> <<>>, seen |-> [r \in Observed |-> NoWord],
     views |-> [r \in Observed |-> EmptyCell], cursor |-> 0, scan |-> 0, rescan |-> FALSE]
NoPoll(b) ==
    [at |-> "idle", budget |-> b, ring |-> 0, left |-> b, lost |-> FALSE, merged |-> <<>>,
     todo |-> <<>>, keys |-> 0, scanned |-> 0, row |-> 0, back |-> "none", want |-> NoWord,
     first |-> NoWord, copy |-> NoWord, tries |-> 0, changed |-> [r \in Observed |-> EmptyCell]]

InitLocal ==
    /\ cell = [r \in 1 .. TableRows |-> EmptyCell]
    /\ author = [r \in 1 .. TableRows |-> [at |-> "idle", seq |-> 0]]
    /\ hints = [i \in 0 .. HintRings - 1 |-> [entries |-> <<>>, lost |-> FALSE]]
    /\ cache = NewCache
    /\ \E b \in ReadBudgets : poll = NoPoll(b)
    /\ barriers = 0

-----------------------------------------------------------------------------
\* TablePartition._publish: the sequence must be newer than the row's own.
NewerSeq(a, b) == a > b
MayPublishRow(r, s) == cell[r].word # NoWord => NewerSeq(s, cell[r].word)

\* _publish_encoded, first store.
HideRowNot(r) == cell
HideRow(r) == [cell EXCEPT ![r].word = NoWord]
BeginPublish(r) ==
    \E s \in {cell[r].word + 1} :
        /\ author[r].at = "idle"
        /\ s < MaxVersions[r]
        /\ MayPublishRow(r, s)
        /\ cell' = HideRow(r)
        /\ author' = [author EXCEPT ![r] = [at |-> "store", seq |-> s]]
        /\ UNCHANGED <<hints, poll, cache, barriers>>

\* _publish_encoded and _publish_packed: the fields, then the sequence.
StoreRow(r) ==
    /\ author[r].at = "store"
    /\ cell' = [cell EXCEPT ![r].value = author[r].seq]
    /\ author' = [author EXCEPT ![r].at = "commit"]
    /\ UNCHANGED <<hints, poll, cache, barriers>>
CommitRow(r) ==
    /\ author[r].at = "commit"
    /\ cell' = [cell EXCEPT ![r].word = author[r].seq]
    /\ author' = [author EXCEPT ![r].at = "push"]
    /\ UNCHANGED <<hints, poll, cache, barriers>>

\* StateChangeRing.push, under its lock: a full ring only raises the flag.
Pushed(ring, h) ==
    IF Len(ring.entries) = HintCapacity THEN [ring EXCEPT !.lost = TRUE]
    ELSE [ring EXCEPT !.entries = Append(@, h)]
PushRow(r) ==
    /\ author[r].at = "push"
    /\ hints' = [hints EXCEPT ![RingOf[r]] = Pushed(@, Hint(r, author[r].seq))]
    /\ author' = [author EXCEPT ![r] = [at |-> "idle", seq |-> 0]]
    /\ UNCHANGED <<cell, poll, cache, barriers>>

-----------------------------------------------------------------------------
\* StateChangeRing.drain, under its lock: at most n entries, and the flag.
Taken(ring, n) == SubSeq(ring.entries, 1, IF n < Len(ring.entries) THEN n ELSE Len(ring.entries))
Drained(ring, n) ==
    [entries |-> SubSeq(ring.entries, Len(Taken(ring, n)) + 1, Len(ring.entries)), lost |-> FALSE]

\* Insertion-ordered dictionaries of hints, one per row.
Holds(q, r) == \E i \in DOMAIN q : q[i].row = r
Put(q, h) ==
    IF Holds(q, h.row) THEN [i \in DOMAIN q |-> IF q[i].row = h.row THEN h ELSE q[i]]
    ELSE Append(q, h)
Without(q, r) == SelectSeq(q, LAMBDA h : h.row # r)
\* The newest hint of a row replaces an older one; ignored kinds are dropped.
Merge(q, h) ==
    IF h.row \in IgnoredRows THEN q
    ELSE IF \E i \in DOMAIN q : q[i].row = h.row /\ ~ NewerSeq(h.seq, q[i].seq) THEN q
    ELSE Put(q, h)

Bounded == poll.budget > 0

StartPoll ==
    /\ poll.at = "idle"
    /\ poll' = [NoPoll(poll.budget) EXCEPT !.at = "drain",
                                           !.merged = IF Bounded THEN <<>> ELSE cache.pending]
    /\ cache' = IF Bounded THEN cache ELSE [cache EXCEPT !.pending = <<>>]
    /\ UNCHANGED <<cell, author, hints, barriers>>

\* One ring: all its hints, or its share of the budget, from the rotating cursor.
DrainRing ==
    LET n == poll.ring
        i == IF Bounded THEN (cache.cursor + n) % HintRings ELSE n
        share == IF Bounded THEN poll.left \div (HintRings - n) ELSE HintCapacity
        taken == Taken(hints[i], share)
    IN  /\ poll.at = "drain" /\ n < HintRings
        /\ hints' = [hints EXCEPT ![i] = Drained(@, share)]
        /\ poll' = [poll EXCEPT !.ring = n + 1, !.left = @ - (IF Bounded THEN Len(taken) ELSE 0),
                      !.lost = @ \/ hints[i].lost,
                      !.merged = IF Bounded THEN @ ELSE FoldLeft(Merge, @, taken)]
        /\ cache' = [cache EXCEPT !.pending = IF Bounded THEN FoldLeft(Merge, @, taken) ELSE @]
        /\ UNCHANGED <<cell, author, barriers>>

\* poll, unbounded: after an overflow the sequences of all rows are compared.
PlanPoll ==
    /\ poll.at = "drain" /\ poll.ring = HintRings /\ ~ Bounded
    /\ poll' = [poll EXCEPT !.at = IF poll.lost THEN "sequences" ELSE "take", !.row = 1,
                            !.todo = IF poll.lost THEN <<>> ELSE poll.merged]
    /\ UNCHANGED <<cell, author, hints, cache, barriers>>

\* The scan behind row r, over the rows that are not ignored.
ScanFrom(r) ==
    LET rest == {n \in Observed : n >= r}
    IN  IF rest = {} THEN 0 ELSE CHOOSE n \in rest : \A k \in rest : n <= k

\* _poll_bounded: an overflow asks for a scan behind the one under way.
Recovery(scan, rescan, lost) ==
    IF scan = 0 /\ (rescan \/ lost) THEN [scan |-> ScanFrom(1), rescan |-> FALSE]
    ELSE [scan |-> scan, rescan |-> rescan \/ lost]
PlanBounded ==
    /\ poll.at = "drain" /\ poll.ring = HintRings /\ Bounded
    /\ \E next \in {Recovery(cache.scan, cache.rescan, poll.lost)} :
         cache' = [cache EXCEPT !.cursor = (@ + 1) % HintRings, !.scan = next.scan,
                                !.rescan = next.rescan]
    /\ poll' = [poll EXCEPT !.at = "first", !.todo = [i \in DOMAIN FirstRows |-> Hint(FirstRows[i], 0)]]
    /\ UNCHANGED <<cell, author, hints, barriers>>

\* publish_sequences and _scan_changed: one row's sequence.
CompareSequence ==
    LET r == poll.row
        changed == /\ r \in Observed /\ cell[r].word # NoWord
                   /\ cell[r].word # cache.seen[r]
    IN  /\ poll.at = "sequences"
        /\ poll' = [poll EXCEPT !.row = @ + 1, !.at = IF r = TableRows THEN "take" ELSE @,
                                !.todo = IF changed THEN Append(@, Hint(r, cell[r].word)) ELSE @]
        /\ UNCHANGED <<cell, author, hints, cache, barriers>>

\* The poll goes on to capture row r, and comes back to where it was.
Capturing(p, r, s) == [p EXCEPT !.at = "load", !.back = p.at, !.row = r, !.want = s, !.tries = 0]

\* _read_entry: a hint that is not newer than what was seen needs no read.
NeedsRead(h) == cache.seen[h.row] = NoWord \/ NewerSeq(h.seq, cache.seen[h.row])

\* poll, unbounded: the next hint or changed row.
TakeNext ==
    /\ poll.at = "take" /\ poll.todo # <<>>
    /\ LET h == Head(poll.todo)
           rest == [poll EXCEPT !.todo = Tail(@)]
       IN  poll' = IF poll.lost \/ NeedsRead(h) THEN Capturing(rest, h.row, h.seq) ELSE rest
    /\ UNCHANGED <<cell, author, hints, cache, barriers>>

\* _poll_bounded: a priority row is read when its sequence changed.
TakeFirst ==
    LET r == Head(poll.todo).row
        rest == [poll EXCEPT !.todo = Tail(@)]
    IN  /\ poll.at = "first" /\ poll.todo # <<>>
        /\ poll' = IF cell[r].word = NoWord \/ cell[r].word = cache.seen[r] THEN rest
                   ELSE Capturing(rest, r, cell[r].word)
        /\ UNCHANGED <<cell, author, hints, cache, barriers>>

\* Half of the budget is kept for a scan under way.
StartHintsLocal ==
    LET b == IF cache.scan = 0 THEN poll.budget ELSE poll.budget \div 2
        keys == SubSeq(cache.pending, 1, IF b < Len(cache.pending) THEN b ELSE Len(cache.pending))
    IN  /\ poll.at = "first" /\ poll.todo = <<>>
        /\ poll' = [poll EXCEPT !.at = "hint", !.todo = keys, !.keys = Len(keys)]
        /\ UNCHANGED <<cell, author, hints, cache, barriers>>

TakeHintLocal ==
    LET h == Head(poll.todo)
        rest == [poll EXCEPT !.todo = Tail(@)]
    IN  /\ poll.at = "hint" /\ poll.todo # <<>>
        /\ cache' = [cache EXCEPT !.pending = Without(@, h.row)]
        /\ poll' = IF NeedsRead(h) THEN Capturing(rest, h.row, h.seq) ELSE rest
        /\ UNCHANGED <<cell, author, hints, barriers>>

StartScanLocal ==
    /\ poll.at = "hint" /\ poll.todo = <<>>
    /\ poll' = [poll EXCEPT !.at = "scan"]
    /\ UNCHANGED <<cell, author, hints, cache, barriers>>

\* One row of the recovery scan.
MayScanBelowBudget == cache.scan # 0 /\ poll.scanned + 1 < poll.budget - poll.keys
MayScan == cache.scan # 0 /\ poll.scanned < poll.budget - poll.keys
ScanNext ==
    LET r == cache.scan
        rest == [poll EXCEPT !.scanned = @ + 1]
    IN  /\ poll.at = "scan" /\ MayScan
        /\ cache' = [cache EXCEPT !.scan = ScanFrom(r + 1)]
        /\ poll' = IF cell[r].word = NoWord \/ cell[r].word = cache.seen[r] THEN rest
                   ELSE Capturing(rest, r, cell[r].word)
        /\ UNCHANGED <<cell, author, hints, barriers>>

\* read_stable: word, payload, word again.
LoadWord ==
    /\ poll.at = "load" /\ cell[poll.row].word # NoWord
    /\ poll' = [poll EXCEPT !.at = "copy", !.first = cell[poll.row].word]
    /\ UNCHANGED <<cell, author, hints, cache, barriers>>
CopyRow ==
    /\ poll.at = "copy"
    /\ poll' = [poll EXCEPT !.at = "check", !.copy = cell[poll.row].value]
    /\ UNCHANGED <<cell, author, hints, cache, barriers>>

\* The end of a capture, successful or not.
Resumed == [poll EXCEPT !.at = poll.back, !.back = "none", !.row = 0, !.want = NoWord,
                        !.first = NoWord, !.copy = NoWord, !.tries = 0]

\* The unbounded poll collects its views; the bounded one retains them at once.
Capture ==
    LET view == [word |-> poll.first, value |-> poll.copy]
        r == poll.row
    IN  /\ poll.at = "check" /\ cell[r].word = poll.first
        /\ poll' = IF Bounded THEN Resumed ELSE [Resumed EXCEPT !.changed[r] = view]
        /\ cache' = IF Bounded THEN [cache EXCEPT !.seen[r] = view.word, !.views[r] = view] ELSE cache
        /\ UNCHANGED <<cell, author, hints, barriers>>

\* A row in publication, or changed during the copy: again, and after
\* max_retries the hint is kept (for a priority row the next poll looks again).
Conflict ==
    LET failed == \/ poll.at = "load" /\ cell[poll.row].word = NoWord
                  \/ poll.at = "check" /\ cell[poll.row].word # poll.first
    IN  /\ failed
        /\ IF poll.tries + 1 < ReadRetries
           THEN /\ poll' = [poll EXCEPT !.at = "load", !.tries = @ + 1, !.first = NoWord, !.copy = NoWord]
                /\ UNCHANGED cache
           ELSE /\ poll' = Resumed
                /\ cache' = IF poll.back = "first" THEN cache
                            ELSE [cache EXCEPT !.pending = Put(@, Hint(poll.row, poll.want))]
        /\ UNCHANGED <<cell, author, hints, barriers>>

\* The unbounded poll reports what changed; after an overflow it keeps the hints
\* whose rows it did not read.
Kept(q, h) == IF poll.changed[h.row] # EmptyCell \/ Holds(q, h.row) THEN q ELSE Append(q, h)
ReportPoll ==
    LET changed == {r \in Observed : /\ poll.changed[r] # EmptyCell
                                     /\ poll.changed[r].word # cache.seen[r]}
    IN  /\ poll.at = "take" /\ poll.todo = <<>>
        /\ poll' = NoPoll(poll.budget)
        /\ cache' = [cache EXCEPT
               !.seen = [r \in Observed |-> IF r \in changed THEN poll.changed[r].word ELSE @[r]],
               !.views = [r \in Observed |-> IF r \in changed THEN poll.changed[r] ELSE @[r]],
               !.pending = IF poll.lost THEN FoldLeft(Kept, @, poll.merged) ELSE @]
        /\ UNCHANGED <<cell, author, hints, barriers>>
ReportBounded ==
    /\ poll.at = "scan" /\ ~ MayScan
    /\ poll' = NoPoll(poll.budget)
    /\ UNCHANGED <<cell, author, hints, cache, barriers>>

\* reset_requests and reset_pending at the cohort barrier: publishers are
\* stopped, request rows are empty again, worker rows keep their facts.  Only
\* the Engine's reader meets it, and that one is bounded.
KeptRows(f, empty) == [r \in DOMAIN f |-> IF r \in Sticky THEN f[r] ELSE empty]
DrainedAtBarrier == [i \in DOMAIN hints |-> Drained(hints[i], HintCapacity)]
ResetReader ==
    [NewCache EXCEPT !.seen = KeptRows(cache.seen, NoWord),
                     !.views = KeptRows(cache.views, EmptyCell), !.cursor = cache.cursor]
Barrier ==
    /\ barriers < MaxBarriers /\ Bounded
    /\ poll.at = "idle" /\ \A r \in DOMAIN author : author[r].at = "idle"
    /\ cell' = KeptRows(cell, EmptyCell)
    /\ hints' = DrainedAtBarrier
    /\ cache' = ResetReader
    /\ barriers' = barriers + 1
    /\ UNCHANGED <<author, poll>>

FinishRow(r) == StoreRow(r) \/ CommitRow(r) \/ PushRow(r)
PollStep ==
    \/ StartPoll \/ DrainRing \/ PlanPoll \/ PlanBounded \/ CompareSequence
    \/ TakeNext \/ TakeFirst \/ StartHintsLocal \/ TakeHintLocal \/ StartScanLocal \/ ScanNext
    \/ LoadWord \/ CopyRow \/ Capture \/ Conflict \/ ReportPoll \/ ReportBounded

LocalNext == (\E r \in 1 .. TableRows : BeginPublish(r) \/ FinishRow(r)) \/ PollStep \/ Barrier

-----------------------------------------------------------------------------
\* IncrementalTableReader.has_pending.
HasPendingLocal ==
    \/ cache.pending # <<>> \/ cache.scan # 0 \/ cache.rescan
    \/ \E i \in DOMAIN hints : hints[i].entries # <<>> \/ hints[i].lost

\* When has_pending answers no between two polls and no thread publishes, the
\* reader holds the latest publication of every row it observes, whatever hints
\* were lost, merged or retried; a priority row has no need of hints and is
\* read at the next poll.
NoRowMissed ==
    (poll.at = "idle" /\ ~ HasPendingLocal /\ \A r \in DOMAIN author : author[r].at = "idle") =>
        \A r \in Observed \ Sticky : cache.views[r] = cell[r]

\* A view is one publication of its row, and the sequence the reader has seen is
\* the view's.
ViewsAreWhole ==
    \A r \in Observed : /\ cache.views[r].value = cache.views[r].word
                        /\ cache.seen[r] = cache.views[r].word

\* Once the threads stop publishing, the reader comes to hold every row it
\* observes, with a budget too small for one poll and conflicts that use up the
\* retries.
LocalReaderCatchesUp == <>[](\A r \in Observed : cache.views[r] = cell[r])

\* Every hint names a publication of a row that is there, or that its publisher is
\* just replacing: a hint of a barrier's other side would be retried for ever.
HintsNameRows ==
    LET known(h) == cell[h.row].word # NoWord \/ author[h.row].at # "idle"
    IN  /\ \A i \in DOMAIN cache.pending : known(cache.pending[i])
        /\ \A n \in DOMAIN hints : \A i \in DOMAIN hints[n].entries : known(hints[n].entries[i])

\* What the reader holds and what it is told both come from publications.
LocalReaderSound == ViewsAreWhole /\ HintsNameRows
=============================================================================
