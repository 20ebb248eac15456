----------------------------- MODULE HostCopies -----------------------------
(***************************************************************************)
(* HostKV shared by the workers: a request's extent, the pin word that     *)
(* every process takes with a load and a compare-and-swap                  *)
(* (kv/shared_pins.py), the facts checked under the pin                    *)
(* (kv/host_facts.py) and the copies block by block (kv/arena.py).         *)
(*                                                                         *)
(* A version of a request's KV is its length: Target KV only grows, and a  *)
(* block's content is the number of its positions that are filled.         *)
(* A request epoch has one allocation, so the slot generation and the      *)
(* writer lease of an extent are those of its epoch: the completion fence  *)
(* of HostKVFacts._ready compares epochs, and its other fields with them.  *)
(***************************************************************************)
EXTENDS HostKVAllocator, FiniteSetsExt

CONSTANTS HostSlots,      \* request slots with an allocation now and then
          CopiedSlots,    \* those of them whose KV is copied
          Copiers,        \* the workers that export and import
          ArenaBlocks,    \* blocks of the arena
          BlockTokens,    \* positions of a block
          ExtentSizes,    \* capacities requests ask for
          MaxLength,      \* bound on the KV of a request
          MaxAllocations  \* bound on the allocations of a slot

VARIABLES arena,    \* the allocator
          epoch,    \* request epoch of every slot
          pin,      \* pin word of every slot: readers, or Writing
          newest,       \* length of the newest version a Target computed
          ready,    \* the D2H row: [epoch, status, length, blocks]
          memory,   \* the arena's blocks
          gpu,      \* what a worker's GPU holds: [length, persisted, blocks]
          job,      \* the copy a worker has in hand
          refused   \* copies the checks refused as wrong

copyVars == <<arena, epoch, pin, newest, ready, memory, gpu, job, refused>>

Writing == -1                       \* WRITE, the top bit of the word
NoJob == [at |-> "idle"]
Absent == [length |-> 0, persisted |-> 0, blocks |-> <<>>]
NoFact == [epoch |-> 0, status |-> "none", length |-> 0, blocks |-> 0]
EmptyBlock == [slot |-> 0, epoch |-> 0, fill |-> 0]

BlocksOf(length) == (length + BlockTokens - 1) \div BlockTokens
\* The positions of block b (from 0) that a KV of this length fills.
Fill(length, b) == Max({0, Min({BlockTokens, length - b * BlockTokens})})
Image(s, length) ==
    [b \in 1 .. BlocksOf(length) |-> [slot |-> s, epoch |-> epoch[s], fill |-> Fill(length, b - 1)]]

InitCopies ==
    /\ arena = NewAllocator(HostSlots, ArenaBlocks)
    /\ epoch = [s \in HostSlots |-> 0]
    /\ pin = [s \in HostSlots |-> 0]
    /\ newest = [s \in HostSlots |-> 0]
    /\ ready = [s \in HostSlots |-> NoFact]
    /\ memory = [b \in 0 .. ArenaBlocks - 1 |-> EmptyBlock]
    /\ gpu = [w \in Copiers |-> [s \in HostSlots |-> Absent]]
    /\ job = [w \in Copiers |-> NoJob]
    /\ refused = {}

\* Admission: an extent, published as the slot's allocation row.
AllocateExtent(s, n) ==
    /\ epoch[s] < MaxAllocations
    /\ CanTakeExtent(arena, s, n)
    /\ arena' = TakeExtent(arena, s, epoch[s] + 1, n)
    /\ epoch' = [epoch EXCEPT ![s] = @ + 1]
    /\ UNCHANGED <<pin, newest, ready, memory, gpu, job, refused>>

\* The slot whose KV the copy of a worker moves.
Slot(w) == job[w].extent.slot

\* Recycling, behind the all-owner barrier: nobody has a copy of the request in
\* hand, and its pin word is clear.
RecycleExtent(s) ==
    /\ HoldsExtent(arena, s, epoch[s])
    /\ \A w \in Copiers : job[w].at # "idle" => Slot(w) # s
    /\ pin[s] = 0
    /\ arena' = GiveBack(arena, s)
    /\ newest' = [newest EXCEPT ![s] = 0]
    /\ gpu' = [w \in Copiers |-> [gpu[w] EXCEPT ![s] = Absent]]
    /\ UNCHANGED <<epoch, pin, ready, memory, job, refused>>

\* A Target round on the GPU of a worker that holds the newest version.
Compute(w, s) ==
    /\ job[w] = NoJob
    /\ HoldsExtent(arena, s, epoch[s])
    /\ gpu[w][s].length = newest[s]
    /\ \E n \in newest[s] + 1 .. Min({MaxLength, arena.extents[s].capacity * BlockTokens}) :
         /\ newest' = [newest EXCEPT ![s] = n]
         /\ gpu' = [gpu EXCEPT ![w][s] = [@ EXCEPT !.length = n, !.blocks = Image(s, n)]]
    /\ UNCHANGED <<arena, epoch, pin, ready, memory, job, refused>>

\* HostKVFacts.allocation: the extent of the request's row, of its own epoch.
HasAllocation(s) == HoldsExtent(arena, s, epoch[s])
Allocation(s) == arena.extents[s]

\* An export begins at the tail block of what is persisted, filled up or not.
DirtyFrom(committed) == Max({0, committed - 1})

\* The GPU session exports from the tail block of what it last persisted.
StartExport(w, s) ==
    /\ job[w] = NoJob
    /\ gpu[w][s].length > 0 /\ gpu[w][s].persisted < gpu[w][s].length
    /\ gpu[w][s].length = newest[s]
    /\ job' = [job EXCEPT ![w] =
           [at |-> "pin", write |-> TRUE, extent |-> Allocation(s), seen |-> 0,
            length |-> gpu[w][s].length, result |-> "none", blocks |-> <<>>,
            next |-> DirtyFrom(BlocksOf(gpu[w][s].persisted))]]
    /\ UNCHANGED <<arena, epoch, pin, newest, ready, memory, gpu, refused>>

\* HostKVFacts.prepare_source: the import names the completed Target version.
StartImport(w, s) ==
    /\ job[w] = NoJob
    /\ HasAllocation(s)
    /\ newest[s] > 0 /\ gpu[w][s].length # newest[s]
    /\ job' = [job EXCEPT ![w] =
           [at |-> "pin", write |-> FALSE, extent |-> Allocation(s), seen |-> 0,
            length |-> newest[s], result |-> "none", blocks |-> <<>>, next |-> 0]]
    /\ UNCHANGED <<arena, epoch, pin, newest, ready, memory, gpu, refused>>

\* SharedHostKVAllocator._address: the extent is still the slot's allocation.
CurrentExtent(e) == arena.extents[e.slot] = e

\* The word a conflicting copy holds: pin returns False, to be tried again.
Conflicts(word, write) == word = Writing \/ (write /\ word # 0)
\* The word after a pin, after a release.
Pinned(word, write) == IF write THEN Writing ELSE word + 1
Released(word, write) == IF write THEN 0 ELSE word - 1

\* pin_prepared: load the word; while a conflicting copy holds it, later again.
LoadPin(w) ==
    /\ job[w].at = "pin"
    /\ CurrentExtent(job[w].extent)
    /\ ~ Conflicts(pin[Slot(w)], job[w].write)
    /\ job' = [job EXCEPT ![w].seen = pin[Slot(w)], ![w].at = "swap"]
    /\ UNCHANGED <<arena, epoch, pin, newest, ready, memory, gpu, refused>>

\* sd_cas: the word is taken if it is still the one that was loaded.
SwapBlindly(word, seen) == TRUE
CanSwap(word, seen) == word = seen
SwapPin(w) ==
    /\ job[w].at = "swap"
    /\ IF CanSwap(pin[Slot(w)], job[w].seen)
       THEN /\ pin' = [pin EXCEPT ![Slot(w)] = Pinned(job[w].seen, job[w].write)]
            /\ job' = [job EXCEPT ![w].at = "check"]
       ELSE job' = [job EXCEPT ![w].at = "pin"] /\ UNCHANGED pin
    /\ UNCHANGED <<arena, epoch, newest, ready, memory, gpu, refused>>

\* HostKVFacts._ready: the D2H row, if it speaks of this allocation.
ReadyFact(e) ==
    IF ready[e.slot].epoch = e.epoch /\ ready[e.slot].status = "ready" THEN ready[e.slot] ELSE NoFact

\* HostKVWriteLease.for_extent: the lease of a dirty range.
WriteLease(e, begin, end) ==
    [slot |-> e.slot, epoch |-> e.epoch, lease |-> e.lease, begin |-> begin, count |-> end - begin]
\* _validate_write_lease: the lease is of this extent, leaves no hole before its
\* range and stays inside the extent.
ValidateWriteLease(e, committed, l) ==
    /\ ValidateExtent(arena, e)
    /\ l.slot = e.slot /\ l.epoch = e.epoch /\ l.lease = e.lease
    /\ l.count >= 0 /\ l.begin <= committed /\ l.begin + l.count <= e.capacity

\* HostKVFacts.write_extent: the version advances, and the range runs from the
\* tail of the committed prefix to the end of the new one.
WriteExtentOK(j) ==
    LET fact == ReadyFact(j.extent)
    IN  /\ fact # NoFact => j.length > fact.length
        /\ j.next = DirtyFrom(fact.blocks)
        /\ ValidateWriteLease(j.extent, fact.blocks, WriteLease(j.extent, j.next, BlocksOf(j.length)))

\* HostKVFacts.source_ready: not there yet, overwritten, or the version asked for.
SourceReadyLoosely(j) == IF ReadyFact(j.extent).length < j.length THEN "later" ELSE "ready"
SourceReady(j) ==
    LET fact == ReadyFact(j.extent)
    IN  IF fact = NoFact \/ fact.length < j.length THEN "later"
        ELSE IF fact.length > j.length THEN "overwritten"
        ELSE IF fact.blocks # BlocksOf(j.length) THEN "mismatch"
        ELSE "ready"

\* Under the pin: an export publishes IN_D2H and starts, an import starts only
\* when the version it names is there.
CheckFacts(w) ==
    LET j == job[w]
        outcome == IF ~ j.write THEN SourceReady(j) ELSE IF WriteExtentOK(j) THEN "ready" ELSE "mismatch"
    IN  /\ j.at = "check"
        /\ job' = [job EXCEPT ![w].result = outcome,
                              ![w].at = IF outcome = "ready" THEN "copy" ELSE "release"]
        /\ ready' = IF outcome = "ready" /\ j.write
                    THEN [ready EXCEPT ![j.extent.slot] =
                            [@ EXCEPT !.epoch = j.extent.epoch, !.status = "copying"]]
                    ELSE ready
        /\ refused' = IF outcome = "mismatch" THEN refused \cup {[write |-> j.write]} ELSE refused
        /\ UNCHANGED <<arena, epoch, pin, newest, memory, gpu>>

\* SharedHostKVArena._slot_view: a block of an extent in the arena.
BlockAt(e, b) == e.offset + b

\* write_kv: one block of the dirty range at a time.
WriteBlock(w) ==
    LET j == job[w]
    IN  /\ j.at = "copy" /\ j.write /\ j.next < BlocksOf(j.length)
        /\ memory' = [memory EXCEPT ![BlockAt(j.extent, j.next)] =
                        gpu[w][j.extent.slot].blocks[j.next + 1]]
        /\ job' = [job EXCEPT ![w].next = @ + 1]
        /\ UNCHANGED <<arena, epoch, pin, newest, ready, gpu, refused>>

\* read_kv: one block of the prefix at a time.
ReadBlock(w) ==
    LET j == job[w]
    IN  /\ j.at = "copy" /\ ~ j.write /\ j.next < BlocksOf(j.length)
        /\ job' = [job EXCEPT ![w].next = @ + 1,
                              ![w].blocks = Append(@, memory[BlockAt(j.extent, j.next)])]
        /\ UNCHANGED <<arena, epoch, pin, newest, ready, memory, gpu, refused>>

\* The copy has completed: HOST_READY of the new version, or the KV on the GPU.
PublishCopy(w) ==
    LET j == job[w]
        s == j.extent.slot
    IN  /\ j.at = "copy" /\ j.next = BlocksOf(j.length)
        /\ job' = [job EXCEPT ![w].at = "release"]
        /\ IF j.write
           THEN /\ ready' = [ready EXCEPT ![s] = [epoch |-> j.extent.epoch, status |-> "ready",
                                                  length |-> j.length, blocks |-> BlocksOf(j.length)]]
                /\ gpu' = [gpu EXCEPT ![w][s].persisted = j.length]
           ELSE /\ gpu' = [gpu EXCEPT ![w][s] = [length |-> j.length, persisted |-> j.length,
                                                 blocks |-> j.blocks]]
                /\ UNCHANGED ready
        /\ UNCHANGED <<arena, epoch, pin, newest, memory, refused>>

\* release_pinned: load and compare-and-swap; a word that this copy does not
\* hold is an error.
LoadRelease(w) ==
    LET word == pin[Slot(w)]
        held == IF job[w].write THEN word = Writing ELSE word > 0
    IN  /\ job[w].at = "release"
        /\ job' = [job EXCEPT ![w].seen = word, ![w].at = IF held THEN "swapback" ELSE "lost"]
        /\ refused' = IF held THEN refused ELSE refused \cup {[write |-> job[w].write]}
        /\ UNCHANGED <<arena, epoch, pin, newest, ready, memory, gpu>>

SwapRelease(w) ==
    LET j == job[w]
        again == [j EXCEPT !.at = "pin", !.result = "none", !.seen = 0]
    IN  /\ j.at = "swapback"
        /\ IF CanSwap(pin[Slot(w)], j.seen)
           THEN /\ pin' = [pin EXCEPT ![Slot(w)] = Released(j.seen, j.write)]
                /\ job' = [job EXCEPT ![w] = IF j.result = "later" THEN again ELSE NoJob]
           ELSE job' = [job EXCEPT ![w].at = "release"] /\ UNCHANGED pin
        /\ UNCHANGED <<arena, epoch, newest, ready, memory, gpu, refused>>

CopyStep(w) ==
    \/ LoadPin(w) \/ SwapPin(w) \/ CheckFacts(w) \/ WriteBlock(w) \/ ReadBlock(w) \/ PublishCopy(w)
    \/ LoadRelease(w) \/ SwapRelease(w)

CopiesNext ==
    \/ \E s \in HostSlots : RecycleExtent(s) \/ \E n \in ExtentSizes : AllocateExtent(s, n)
    \/ \E w \in Copiers, s \in CopiedSlots : Compute(w, s) \/ StartExport(w, s) \/ StartImport(w, s)
    \/ \E w \in Copiers : CopyStep(w)

-----------------------------------------------------------------------------
\* The free ranges and the extents in use cover every block of the arena exactly
\* once, and no two free ranges touch (HostKVAllocator).
ArenaPartitioned ==
    LET free == {[lo |-> arena.free[i][1], hi |-> arena.free[i][1] + arena.free[i][2]] :
                   i \in DOMAIN arena.free}
        used == {[lo |-> e.offset, hi |-> e.offset + e.capacity] :
                   e \in {arena.extents[s] : s \in HostSlots} \ {NoExtent}}
    IN  /\ \A b \in 0 .. ArenaBlocks - 1 :
             Cardinality({r \in free : r.lo <= b /\ b < r.hi})
               + Cardinality({r \in used : r.lo <= b /\ b < r.hi}) = 1
        /\ \A r, q \in free : r.hi # q.lo

\* Between its two halves a copy holds the pin.
Holding(w) == job[w].at \in {"check", "copy", "release", "swapback"}

\* The pin word counts the copies that hold it: one writer alone, or readers only,
\* whatever the order of the loads and swaps (pin_prepared, release_pinned).
PinsCountHolders ==
    \A s \in HostSlots :
        LET on == {w \in Copiers : Holding(w) /\ Slot(w) = s}
            writers == {w \in on : job[w].write}
        IN  IF writers # {} THEN on = writers /\ Cardinality(on) = 1 /\ pin[s] = Writing
            ELSE pin[s] = Cardinality(on)

\* HOST_READY means that the whole prefix of the version it names is in HostKV,
\* the old tail block included, while nobody writes (HostKVFacts.write_extent).
HostReadyIsComplete ==
    \A s \in CopiedSlots :
        (HoldsExtent(arena, s, epoch[s]) /\ ReadyFact(arena.extents[s]) # NoFact) =>
            LET e == arena.extents[s]
            IN  \A b \in 0 .. ready[s].blocks - 1 :
                  memory[e.offset + b] = Image(s, ready[s].length)[b + 1]

\* Whatever a GPU holds is the KV of one version, block by block: an import that
\* races the next export gets the version it asked for or none.
GPUHoldsOneVersion ==
    \A w \in Copiers, s \in CopiedSlots :
        gpu[w][s].blocks = Image(s, gpu[w][s].length)

\* No export is refused for its range or version, no import for its length, and no
\* pin is found lost when it is released.
CopiesNotRefused == refused = {}

\* The node's HostKV is given out exactly once, and the pin word of an extent
\* tells who is inside it.
ExtentsOwned == ArenaPartitioned /\ PinsCountHolders

\* Exports and imports that interleave block by block, in several generations of
\* an extent, neither tear a version nor get in each other's way.
CopiesIntact == HostReadyIsComplete /\ GPUHoldsOneVersion /\ CopiesNotRefused
=============================================================================
