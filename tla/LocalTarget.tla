------------------------------ MODULE LocalTarget ------------------------------
(***************************************************************************)
(* The process-local target facade of SwiftLLM                             *)
(* (server/starsd_process_local_facade.py), its copy support               *)
(* (server/starsd_copy_support.py) and the compact verification            *)
(* (server/starsd_compact_target.py), on top of TargetWorker.  There is no *)
(* registry here: the caller is the single owner of the metadata, keeps a  *)
(* lease for every range it was given and names the exact bank, epoch,     *)
(* row, length and KV version in every call; the facade rejects a call     *)
(* whose fence is stale.  The caller launches the copies itself and        *)
(* releases a lease only after its copies have joined.                     *)
(* A compact verification that raises has no action: nothing catches it    *)
(* (workers/isolated.py), so the process ends, and everything modelled     *)
(* here with it.                                                           *)
(***************************************************************************)
EXTENDS TargetWorker

VARIABLES reserved,  \* SwiftLLMCopySupport._reserved: session key |-> row
          lease,     \* the caller's lease of each request
          store,     \* request |-> what its host blocks hold
          saved,     \* request |-> [len, ver] of the host copy
          trips,     \* leases taken so far
          seq        \* next batch of the caller

localVars == <<reserved, lease, store, saved, trips, seq>>

NoLease == [state |-> "none"]
StoreBlocks == 0..(Capacity - 1)

InitLocal ==
    /\ reserved = << >>
    /\ lease = [r \in Requests |-> NoLease]
    /\ store = [r \in Requests |-> [k \in StoreBlocks |-> Nothing]]
    /\ saved = [r \in Requests |-> [len |-> 0, ver |-> 0]]
    /\ trips = 0
    /\ seq = 1

LocalKey(r) == <<"local", r>>
In(states) == {r \in Requests : lease[r].state \in states}
LeaseOf(state, mm, b, row, len, ver) ==
    [state |-> state, fence |-> Fence(mm, b, row), len |-> len, ver |-> ver]
WithState(rs, state) ==
    [r \in Requests |-> IF r \in rs THEN [lease[r] EXCEPT !.state = state] ELSE lease[r]]

(***************************************************************************)
(* prefill_batch_direct with a plan: exact ranges in the active bank, then *)
(* the worker's prefill; the returned locations are checked against the    *)
(* plan, which the reservation has already enforced.                       *)
(***************************************************************************)
PrefillPlan == [bank |-> m.active, epoch |-> m.bank[m.active].epoch, batch |-> seq,
                start |-> m.bank[m.active].ptr, blocks |-> Capacity]

LocalTasks(order) == [i \in DOMAIN order |-> Task(LocalKey(order[i]), order[i])]

PrefillBatchDirect(order, rows) ==
    /\ \A r \in Range(order) : lease[r] = NoLease /\ saved[r].len = 0
    /\ seq <= MaxBatches /\ trips + Len(order) <= MaxRounds
    /\ DOMAIN m.bank[m.active].ranges = {}
    /\ CanReservePlan(LocalTasks(order), rows, PrefillPlan)
    /\ PrefillStart(LocalTasks(order), rows, ReservePlan(LocalTasks(order), rows, PrefillPlan))
    /\ seq' = seq + 1 /\ trips' = trips + Len(order)
    /\ lease' = WithState(Range(order), "prefilling")
    /\ UNCHANGED <<reserved, store, saved>>

PrefillReturned ==
    /\ run.phase = "finish" /\ run.kind = "prefill"
    /\ sessions' = PrefillDone
    /\ lease' = [r \in Requests |->
           IF lease[r].state = "prefilling"
           THEN LeaseOf("live", m, m.active, PrefillDone[LocalKey(r)].row, PromptLen, 0)
           ELSE lease[r]]
    /\ run' = NoRun
    /\ UNCHANGED <<m, avail, kv, reserved, store, saved, trips, seq>>

\* A failed planned prefill leaves its session and range in place; the caller
\* knows both from its plan and retires them.
PrefillRefused ==
    /\ run.phase = "failed" /\ run.kind = "prefill"
    /\ lease' = [r \in Requests |->
           IF lease[r].state = "prefilling"
           THEN LeaseOf("refused", m, m.active, sessions[LocalKey(r)].row, PromptLen, 0)
           ELSE lease[r]]
    /\ run' = NoRun
    /\ UNCHANGED <<m, avail, sessions, kv, reserved, store, saved, trips, seq>>

(***************************************************************************)
(* An import: reserve_rows, prepare_standby_batch, the copy, activation.   *)
(***************************************************************************)
ReserveRows(order, rows) ==
    LET keys == {LocalKey(r) : r \in Range(order)}
    IN /\ \A r \in Range(order) : lease[r] = NoLease /\ saved[r].len > 0
       /\ trips + Len(order) <= MaxRounds
       /\ keys \cap (DOMAIN reserved \cup DOMAIN sessions) = {}
       /\ reserved' = PutAll(reserved, [k \in keys |->
              rows[CHOOSE i \in DOMAIN order : LocalKey(order[i]) = k]])
       /\ avail' = avail \ Range(rows)
       /\ lease' = WithState(Range(order), "rows")
       /\ trips' = trips + Len(order)
       /\ UNCHANGED <<m, sessions, kv, run, store, saved, seq>>

PrepareItems(order) ==
    [i \in DOMAIN order |-> [row |-> reserved[LocalKey(order[i])], blocks |-> Capacity,
                             len |-> saved[order[i]].len, ver |-> saved[order[i]].ver]]

\* The facade resets whatever the standby bank holds; the caller prepares a
\* bank only after it has released every lease in it.
PrepareStandbyBatch(order) ==
    LET b == Standby(m)
        items == PrepareItems(order)
    IN /\ Range(order) \subseteq In({"rows"})
       /\ DOMAIN m.bank[b].ranges = {}
       /\ m.bank[b].role \in {"STANDBY", "FREE"}
       /\ seq <= MaxBatches
       /\ CanReserveBatch(m, b, items, TRUE)
       /\ m' = MarkPrepared(ReserveBatch(m, b, items, seq, TRUE), b, seq)
       /\ lease' = [r \in Requests |->
              IF r \in Range(order)
              THEN LeaseOf("importing", m', b, reserved[LocalKey(r)], saved[r].len, saved[r].ver)
              ELSE lease[r]]
       /\ seq' = seq + 1
       /\ UNCHANGED <<avail, sessions, kv, run, reserved, store, saved, trips>>

\* The imports of a bank complete together.
ImportDone ==
    /\ In({"importing"}) # {}
    /\ kv' = [p \in PhysicalBlocks |->
           LET offset(r) == p - (Base(lease[r].fence.bank) + lease[r].fence.start)
               hit == {r \in In({"importing"}) : offset(r) \in 0..(Blocks(lease[r].len) - 1)}
           IN IF hit = {} THEN kv[p]
              ELSE LET r == CHOOSE r \in hit : TRUE IN store[r][offset(r)]]
    /\ lease' = WithState(In({"importing"}), "imported")
    /\ UNCHANGED <<m, avail, sessions, run, reserved, store, saved, trips, seq>>

\* The caller switches banks between compute batches.
ActivateOrSwitchBank ==
    LET mine == In({"imported"})
        b == Standby(m)
    IN /\ run = NoRun
       /\ mine # {}
       /\ \A r \in mine : /\ lease[r].fence.bank = b /\ lease[r].fence.epoch = m.bank[b].epoch
                          /\ lease[r].fence.batch = m.bank[b].batch
       /\ m.bank[b].role = "PREPARED"
       /\ m' = SwapActiveStandby(m)
       /\ lease' = WithState(mine, "live")
       /\ UNCHANGED <<avail, sessions, kv, run, reserved, store, saved, trips, seq>>

(***************************************************************************)
(* verify_compact: checked on the caller's thread; forward, acceptance,    *)
(* crop and the new KV version are one call on the model executor.         *)
(***************************************************************************)
CompactFence(r) ==
    LET f == lease[r].fence
    IN /\ f.bank = m.active /\ f.epoch = m.bank[m.active].epoch /\ f.batch = m.bank[m.active].batch
       /\ HasRange(m, f.bank, f.row)
       /\ Loc(m, f.bank, f.row).len = lease[r].len /\ Loc(m, f.bank, f.row).ver = lease[r].ver
       /\ lease[r].len + 1 + MaxDraft <= Loc(m, f.bank, f.row).cap * BlockSize

VerifyCompact(rs) ==
    /\ run = NoRun
    /\ rs # {} /\ \A r \in rs : lease[r].state = "live" /\ CompactFence(r)
    /\ run' = [phase |-> "forward", kind |-> "compact", bank |-> m.active,
               items |-> {[req |-> r, row |-> lease[r].fence.row, len |-> lease[r].len] : r \in rs}]
    /\ lease' = WithState(rs, "computing")
    /\ UNCHANGED <<m, avail, sessions, kv, reserved, store, saved, trips, seq>>

CompactForward(accepted) ==
    LET grown == SetToSeq({[row |-> i.row, len |-> i.len + 1 + MaxDraft] : i \in run.items})
        kept == SetToSeq({[row |-> i.row, len |-> i.len + accepted[i.req]] : i \in run.items})
    IN /\ run.phase = "forward" /\ run.kind = "compact"
       /\ \A i \in run.items : accepted[i.req] \in AcceptedCounts(MaxDraft)
       /\ CanAllocate(m, grown)
       /\ LET wide == Allocate(m, grown)
          IN /\ kv' = Written(wide, kv, {[row |-> i.row, req |-> i.req, from |-> i.len,
                                          to |-> i.len + 1 + MaxDraft] : i \in run.items})
             /\ CanCrop(wide, kept)
             /\ m' = AttachMetadata(Crop(wide, kept), run.items, run.bank)
       /\ run' = [run EXCEPT !.phase = "finish"]
       /\ UNCHANGED <<avail, sessions, reserved, lease, store, saved, trips, seq>>

\* Mutant: the version is derived from the input, not from the cropped range.
CompactReturnedInputVersion ==
    /\ run.phase = "finish" /\ run.kind = "compact"
    /\ lease' = [r \in Requests |->
           IF \E i \in run.items : i.req = r
           THEN LeaseOf("live", m, run.bank, lease[r].fence.row,
                        Loc(m, run.bank, lease[r].fence.row).len, lease[r].ver + 1)
           ELSE lease[r]]
    /\ run' = NoRun
    /\ UNCHANGED <<m, avail, sessions, kv, reserved, store, saved, trips, seq>>

\* The caller takes length and version from the result.
CompactReturned ==
    /\ run.phase = "finish" /\ run.kind = "compact"
    /\ lease' = [r \in Requests |->
           IF \E i \in run.items : i.req = r
           THEN LeaseOf("live", m, run.bank, lease[r].fence.row,
                        Loc(m, run.bank, lease[r].fence.row).len, Loc(m, run.bank, lease[r].fence.row).ver)
           ELSE lease[r]]
    /\ run' = NoRun
    /\ UNCHANGED <<m, avail, sessions, kv, reserved, store, saved, trips, seq>>

(***************************************************************************)
(* An export and the release after it has joined.                          *)
(***************************************************************************)
ExportStart(r) ==
    /\ lease[r].state = "live" /\ lease[r].len # saved[r].len
    /\ lease' = WithState({r}, "exporting")
    /\ UNCHANGED <<workerVars, reserved, store, saved, trips, seq>>

ExportDone(r) ==
    /\ lease[r].state = "exporting"
    /\ store' = [store EXCEPT ![r] = [k \in StoreBlocks |->
           IF k < Blocks(lease[r].len)
           THEN kv[Base(lease[r].fence.bank) + lease[r].fence.start + k] ELSE @[k]]]
    /\ saved' = [saved EXCEPT ![r] = [len |-> lease[r].len, ver |-> lease[r].ver]]
    /\ lease' = WithState({r}, "drained")
    /\ UNCHANGED <<workerVars, reserved, trips, seq>>

\* The row of a key: the session's if it has one, else the reserved row.
RowOfKey(key) == IF key \in DOMAIN sessions THEN sessions[key].row ELSE reserved[key]

ReleaseDrained(rs) ==
    LET keys == {LocalKey(r) : r \in rs}
        fences == {lease[r].fence : r \in rs}
    IN /\ rs # {} /\ rs \subseteq In({"drained", "imported", "refused"})
       /\ \A r \in rs : /\ RowOfKey(LocalKey(r)) = lease[r].fence.row
                        /\ lease[r].fence.row \notin avail
       /\ CanReleaseExact(m, fences)
       /\ m' = ReleaseExact(m, fences)
       /\ sessions' = Drop(sessions, keys)
       /\ reserved' = Drop(reserved, keys)
       /\ avail' = avail \cup {lease[r].fence.row : r \in rs}
       /\ lease' = [r \in Requests |-> IF r \in rs THEN NoLease ELSE lease[r]]
       /\ UNCHANGED <<kv, run, store, saved, trips, seq>>

DiscardEmptyPrepared ==
    LET b == Standby(m)
    IN /\ CanDiscardPrepared(m, b, m.bank[b].epoch, m.bank[b].batch)
       /\ m' = DiscardPrepared(m, b)
       /\ UNCHANGED <<avail, sessions, kv, run, localVars>>

\* The caller owns the compute lane, so no batch is running.
ResetDrainedPrefill ==
    LET b == m.active
    IN /\ run = NoRun
       /\ DOMAIN m.bank[b].ranges = {} /\ m.bank[b].ptr > 0
       /\ m' = ResetBank(m, b)
       /\ UNCHANGED <<avail, sessions, kv, run, localVars>>

\* Whole-worker retirement, after compute and copies have joined.
Close ==
    /\ run = NoRun /\ In({"importing", "exporting"}) = {}
    /\ \E r \in Requests : lease[r] # NoLease
    /\ LET all == UNION {{Fence(m, b, row) : row \in DOMAIN m.bank[b].ranges} : b \in BankIds}
       IN m' = ReleaseExact(m, all)
    /\ sessions' = << >> /\ reserved' = << >>
    /\ avail' = Rows
    /\ lease' = [r \in Requests |-> NoLease]
    /\ trips' = MaxRounds \* nothing follows but the client's next process
    /\ UNCHANGED <<kv, run, store, saved, seq>>

LocalNext ==
    \/ \E order \in Orders : \/ \E rows \in RowLists(Len(order)) :
                                        PrefillBatchDirect(order, rows) \/ ReserveRows(order, rows)
                                  \/ PrepareStandbyBatch(order)
    \/ PrefillForward /\ UNCHANGED localVars
    \/ PrefillReturned
    \/ PrefillRefused
    \/ ImportDone
    \/ ActivateOrSwitchBank
    \/ \E rs \in SUBSET Requests : VerifyCompact(rs) \/ ReleaseDrained(rs)
    \/ \E accepted \in [{i.req : i \in run.items} -> 1..(MaxDraft + 1)] : CompactForward(accepted)
    \/ CompactReturned
    \/ \E r \in Requests : ExportStart(r) \/ ExportDone(r)
    \/ DiscardEmptyPrepared
    \/ ResetDrainedPrefill
    \/ Close

LocalSpec == InitWorker /\ InitLocal /\ [][LocalNext]_<<workerVars, localVars>>

(***************************************************************************)
(* Properties                                                              *)
(***************************************************************************)
Leased == In({"importing", "imported", "live", "exporting", "drained", "refused"})

\* A caller that only follows its own leases is never refused as stale: each
\* lease names a live range by its bank, epoch, start, capacity and batch,
\* and the length and version it remembers are the range's.
LeasesCurrent ==
    \A r \in Leased :
        LET f == lease[r].fence
        IN /\ HasRange(m, f.bank, f.row) /\ f = Fence(m, f.bank, f.row)
           /\ Loc(m, f.bank, f.row).len = lease[r].len
           /\ Loc(m, f.bank, f.row).ver = lease[r].ver

\* A live lease's blocks hold the request's KV, and so does the host copy.
LeasedKVIntact ==
    /\ \A r \in In({"imported", "live", "exporting", "drained"}) :
         Holds(m, kv, lease[r].fence.row, r, Blocks(lease[r].len))
    /\ \A r \in Requests : \A k \in 0..(Blocks(saved[r].len) - 1) : store[r][k] = <<r, k>>

\* A row is available, held by one session or reserved by one key.
LocalRowsOwned ==
    /\ {sessions[k].row : k \in DOMAIN sessions} \cap {reserved[k] : k \in DOMAIN reserved} = {}
    /\ Cardinality({sessions[k].row : k \in DOMAIN sessions}) = Cardinality(DOMAIN sessions)
    /\ Cardinality({reserved[k] : k \in DOMAIN reserved}) = Cardinality(DOMAIN reserved)
    /\ avail = Rows \ ({sessions[k].row : k \in DOMAIN sessions} \cup {reserved[k] : k \in DOMAIN reserved})
=============================================================================
