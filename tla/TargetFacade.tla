----------------------------- MODULE TargetFacade -----------------------------
(***************************************************************************)
(* The StarSD facade of a SwiftLLM target process                          *)
(* (server/starsd_target_facade.py) with its registry of asynchronous      *)
(* copies (server/starsd_async_operations.py), on top of TargetWorker.     *)
(* A request is prefilled in the active bank and written to the host; a    *)
(* batch of requests is then reserved in the standby bank, copied in from  *)
(* the host, activated, verified for some rounds, exported and released.   *)
(* Every call is one atomic step of the process's event loop except the    *)
(* ones that await the executor.  A call the facade rejects changes        *)
(* nothing, so only accepted calls are actions.                            *)
(*                                                                         *)
(* The client is external: it makes any call at any time, except that      *)
(*  - it reserves a bank range for a request only after it has released    *)
(*    the request's prefill session, and not while an export of the        *)
(*    request is in flight,                                                *)
(*  - it releases a range only after the request's copies from the host    *)
(*    have ended, and a range it protects only after it began the export,  *)
(*  - it protects a bank epoch before it exports,                          *)
(*  - while a verification runs or waits for the lock it activates no      *)
(*    batch, and neither exports nor releases a range that is verified.    *)
(* The facade itself checks none of these.  A repeated call that is        *)
(* answered from what is remembered of the first one (_released and the    *)
(* like) changes nothing and is left out.                                  *)
(***************************************************************************)
EXTENDS TargetWorker

CONSTANTS MaxExports,   \* bound on the exports of the client
          MaxAborts     \* bound on its aborts

VARIABLES resv,     \* _resource_rows: reservation key |-> reservation
          batches,  \* _reserve_batches: batch id |-> [state, keys]
          ops,      \* the registry: operation id |-> operation
          prot,     \* _protection_index: protection id |-> <<bank, epoch>>
          dropping, \* prefill sessions whose ranges are released, rows not yet
          host,     \* request |-> what its host blocks hold
          hlen,     \* request |-> tokens the client knows to be on the host
          hver,     \* request |-> KV version of the host copy
          round,    \* request |-> round the client is in
          nextBatch \* next batch id of the client

facadeVars == <<resv, batches, ops, prot, dropping, host, hlen, hver, round, nextBatch>>

HostBlocks == 0..(BankBlocks - 1)

InitFacade ==
    /\ resv = << >> /\ batches = << >> /\ ops = << >> /\ prot = << >>
    /\ dropping = {}
    /\ host = [r \in Requests |-> [k \in HostBlocks |-> Nothing]]
    /\ hlen = [r \in Requests |-> 0] /\ hver = [r \in Requests |-> 0]
    /\ round = [r \in Requests |-> 0]
    /\ nextBatch = 1

PrefillKey(r) == <<"prefill", r>>
ReservationId(batch, bank, epoch, row) == [batch |-> batch, bank |-> bank, epoch |-> epoch, row |-> row]
ReserveKey(r, rnd, id) == [req |-> r, round |-> rnd, id |-> id]
AdapterKey(key) == <<"bank", key.req, key.id>>

Rounds == FoldSet(LAMBDA r, n : n + round[r], 0, Requests)
KeysOf(r) == {key \in DOMAIN resv : key.req = r}
Unprotected(b) == \A p \in DOMAIN prot : prot[p] # <<b, m.bank[b].epoch>>
\* An item's range is live under the very fence it was reserved with.
LiveUnderFence(key) == /\ m.bank[resv[key].bank].epoch = resv[key].epoch
                       /\ HasRange(m, resv[key].bank, resv[key].row)
                       /\ Loc(m, resv[key].bank, resv[key].row).start = resv[key].start
                       /\ Loc(m, resv[key].bank, resv[key].row).cap = resv[key].cap
FenceOf(key) == [bank |-> resv[key].bank, epoch |-> resv[key].epoch, row |-> resv[key].row,
                 start |-> resv[key].start, cap |-> resv[key].cap, batch |-> key.id.batch]

(***************************************************************************)
(* The copy registry.  An operation is active (PENDING, READY or           *)
(* ABORT_REQUESTED) or a tombstone that only remembers how it ended        *)
(* (RESULT_READY, ABORTED; an ACTIVATED one only answers repeated calls,   *)
(* which its batch's state refuses as well, and is left out).  The copies  *)
(* of one stage share an event; they take effect at some time before a     *)
(* progress call sees the event,                                           *)
(* and the latest such time, the progress call itself, is the one that     *)
(* exposes a range given away too early.                                   *)
(***************************************************************************)
OpId(dir, key) == [dir |-> dir, key |-> key]
Tombstone(status) == [status |-> status]
Active(op) == ops[op].status \in {"PENDING", "READY", "ABORT_REQUESTED"}
Moving(op) == ops[op].status \in {"PENDING", "ABORT_REQUESTED"}
OpsOf(r) == {op \in DOMAIN ops : op.key.req = r}
InFlight(r, dir) == \E op \in OpsOf(r) : op.dir = dir /\ Moving(op)
StageOf(batch) == {op \in DOMAIN ops : op.dir = "H2D" /\ op.key.id.batch = batch}

\* reserve_batch admits ids it has not seen; commit_batch makes them PENDING.
CanAdmit(dir, keys) == \A key \in keys : OpId(dir, key) \notin DOMAIN ops
NewOps(dir, keys, copies) ==
    [op \in {OpId(dir, key) : key \in keys} |-> [status |-> "PENDING", copy |-> copies[op.key]]]

\* progress: the event has passed, so the operation becomes READY or the
\* abort that was requested meanwhile takes effect.
Progressed(op) == CASE ops[op].status = "PENDING" -> [ops[op] EXCEPT !.status = "READY"]
                    [] ops[op].status = "ABORT_REQUESTED" -> Tombstone("ABORTED")
                    [] OTHER -> ops[op]

Aborted(op) == IF Moving(op) THEN [ops[op] EXCEPT !.status = "ABORT_REQUESTED"]
               ELSE Tombstone("ABORTED")

\* finalize_batch takes a whole batch whose copies have all arrived.
\* Mutant: any active batch may be finalized.
CanFinalizeActive(stage) == stage # {} /\ \A op \in stage : Active(op)
CanFinalize(stage) == stage # {} /\ \A op \in stage : ops[op].status = "READY"

\* The effect of the copies of the operations in stage, all moving.
CopiedToBank(stage) ==
    [b \in PhysicalBlocks |->
        LET hit == {o \in stage : b - ops[o].copy.first \in 0..(ops[o].copy.count - 1)}
        IN IF hit = {} THEN kv[b]
           ELSE LET o == CHOOSE o \in hit : TRUE IN host[o.key.req][b - ops[o].copy.first]]

CopiedToHost(op) ==
    [host EXCEPT ![op.key.req] = [k \in HostBlocks |->
        IF k - ops[op].copy.begin \in 0..(ops[op].copy.count - 1)
        THEN kv[ops[op].copy.first + k] ELSE @[k]]]

(***************************************************************************)
(* prefill_to_host                                                         *)
(***************************************************************************)
SubmitPrefill(tasks, rows) ==
    /\ \A r \in Requests : PrefillKey(r) \in TaskKeys(tasks) => hlen[r] = 0 /\ round[r] = 0
    /\ PrefillStart(tasks, rows, m)
    /\ UNCHANGED facadeVars

\* The results are validated against sessions and live ranges: each result has
\* an ordinary session with a range of the prompt's length.
PrefillResultsValid ==
    \A t \in Range(run.tasks) :
        LET s == PrefillDone[t.key]
        IN /\ ~s.adapter /\ s.fence # NoFence
           /\ s.fence.row = s.row
           /\ HasRange(m, s.fence.bank, s.row)
           /\ Loc(m, s.fence.bank, s.row).len = PromptLen

PrefillToHost ==
    /\ run.phase = "finish" /\ run.kind = "prefill"
    /\ sessions' = PrefillDone
    /\ PrefillResultsValid
    /\ host' = [r \in Requests |->
           IF \E t \in Range(run.tasks) : t.req = r
           THEN [k \in HostBlocks |-> IF k < Blocks(PromptLen)
                   THEN kv[m.first[RowOf(Task(PrefillKey(r), r))] + k] ELSE host[r][k]]
           ELSE host[r]]
    /\ hlen' = [r \in Requests |-> IF \E t \in Range(run.tasks) : t.req = r THEN PromptLen ELSE hlen[r]]
    /\ run' = NoRun
    /\ UNCHANGED <<m, avail, kv, resv, batches, ops, prot, dropping, hver, round, nextBatch>>

\* A failed forward answers every caller; the release that follows refuses
\* sessions that were never given a range, so they stay.
PrefillFailed ==
    /\ run.phase = "failed" /\ run.kind = "prefill"
    /\ run' = NoRun
    /\ UNCHANGED <<m, avail, sessions, kv>> /\ UNCHANGED facadeVars

ReleasePrefillRanges(rs) ==
    LET keys == {PrefillKey(r) : r \in rs}
    IN /\ \A r \in rs : hlen[r] > 0
       /\ CanReleaseSessions(keys) /\ keys \cap dropping = {}
       /\ ReleaseSessionRanges(keys)
       /\ dropping' = dropping \cup keys
       /\ UNCHANGED <<avail, sessions, kv, run, resv, batches, ops, prot, host, hlen, hver, round, nextBatch>>

ReleasePrefillRows(keys) ==
    /\ keys # {} /\ keys \subseteq dropping
    /\ DropSessions(keys)
    /\ dropping' = dropping \ keys
    /\ UNCHANGED <<m, kv, run, resv, batches, ops, prot, host, hlen, hver, round, nextBatch>>

(***************************************************************************)
(* reserve_standby_batch: the whole batch or nothing, in a standby bank    *)
(* that holds no ranges and that no export protects.                       *)
(***************************************************************************)
ReserveItems(order, rows) ==
    [i \in DOMAIN order |-> [row |-> rows[i], blocks |-> Capacity, len |-> 0, ver |-> 0]]

CanReserveStandby(order, rows) ==
    LET b == Standby(m)
    IN /\ DOMAIN m.bank[b].ranges = {}
       /\ Unprotected(b)
       /\ CanReserveBatch(m, b, ReserveItems(order, rows), TRUE)

ReserveStandby(order, rows) ==
    LET b == Standby(m)
        after == ReserveBatch(m, b, ReserveItems(order, rows), nextBatch, TRUE)
        id(i) == ReservationId(nextBatch, b, after.bank[b].epoch, rows[i])
        key(i) == ReserveKey(order[i], round[order[i]] + 1, id(i))
        keys == {key(i) : i \in DOMAIN order}
    IN /\ nextBatch <= MaxBatches
       /\ Rounds + Len(order) <= MaxRounds
       /\ \A r \in Range(order) : /\ hlen[r] > 0 /\ PrefillKey(r) \notin DOMAIN sessions
                                  /\ KeysOf(r) = {} /\ ~InFlight(r, "D2H")
       /\ CanReserveStandby(order, rows)
       /\ m' = after
       /\ avail' = avail \ Range(rows)
       /\ resv' = PutAll(resv, [k \in keys |->
              LET loc == Loc(after, b, k.id.row)
              IN [bank |-> b, epoch |-> k.id.epoch, row |-> k.id.row, start |-> loc.start, cap |-> loc.cap]])
       /\ batches' = Put(batches, nextBatch, [state |-> "RESERVED", keys |-> keys])
       /\ round' = [r \in Requests |-> IF r \in Range(order) THEN round[r] + 1 ELSE round[r]]
       /\ nextBatch' = nextBatch + 1
       /\ UNCHANGED <<sessions, kv, run, ops, prot, dropping, host, hlen, hver>>

(***************************************************************************)
(* From the host into the reserved ranges: synchronously                   *)
(* (prepare_bank_from_host) or staged, with progress, abort and activation.*)
(***************************************************************************)
Prefillable(batch) == /\ batch \in DOMAIN batches /\ batches[batch].state = "RESERVED"
                      /\ \A key \in batches[batch].keys : Blocks(hlen[key.req]) <= resv[key].cap

\* Preflight: both the bank to be replaced and the bank to be filled are
\* unprotected, and each item's range is live under its fence.
PreflightHostToBank(batch) ==
    /\ Prefillable(batch)
    /\ Unprotected(m.active)
    /\ \A key \in batches[batch].keys : Unprotected(resv[key].bank) /\ LiveUnderFence(key)

\* The metadata of a staged range: its KV version and its valid blocks.
Staged(batch) ==
    FoldSet(LAMBDA key, acc :
        SetValidBlocks(SetKVVersion(acc, resv[key].bank, resv[key].row, hver[key.req]),
                       resv[key].bank, resv[key].row, Blocks(hlen[key.req])),
        m, batches[batch].keys)

\* Replace the active bank by the filled standby bank.
Activated(mm, b, batch) == SwapActiveStandby(MarkPrepared(mm, b, batch))
SetState(batch, state) == [batches EXCEPT ![batch].state = state]

VerifyIdle == run.kind # "verify"

PrepareFromHost(batch) ==
    /\ VerifyIdle
    /\ PreflightHostToBank(batch)
    /\ LET b == Standby(m) filled == Staged(batch)
       IN /\ m' = Activated(filled, b, batch)
          /\ kv' = [p \in PhysicalBlocks |->
                LET hit == {key \in batches[batch].keys :
                               p - filled.first[resv[key].row] \in 0..(filled.count[resv[key].row] - 1)}
                IN IF hit = {} THEN kv[p]
                   ELSE LET key == CHOOSE key \in hit : TRUE
                        IN host[key.req][p - filled.first[resv[key].row]]]
    /\ batches' = SetState(batch, "ACTIVATED")
    /\ UNCHANGED <<avail, sessions, run, resv, ops, prot, dropping, host, hlen, hver, round, nextBatch>>

StageH2D(batch) ==
    /\ PreflightHostToBank(batch)
    /\ CanAdmit("H2D", batches[batch].keys)
    /\ m' = Staged(batch)
    /\ ops' = PutAll(ops, NewOps("H2D", batches[batch].keys,
           [key \in batches[batch].keys |-> [first |-> m'.first[resv[key].row], begin |-> 0,
                                             count |-> Blocks(hlen[key.req])]]))
    /\ batches' = SetState(batch, "STAGING")
    /\ UNCHANGED <<avail, sessions, kv, run, resv, prot, dropping, host, hlen, hver, round, nextBatch>>

Progress(batch) ==
    LET moving == {op \in StageOf(batch) : Moving(op)}
    IN /\ moving # {}
       /\ kv' = CopiedToBank(moving)
       /\ ops' = [op \in DOMAIN ops |-> IF op \in moving THEN Progressed(op) ELSE ops[op]]
       /\ batches' = IF (\A op \in StageOf(batch) : ops'[op].status = "READY")
                        /\ batch \in DOMAIN batches /\ batches[batch].state = "STAGING"
                     THEN SetState(batch, "EVENT_READY") ELSE batches
       /\ UNCHANGED <<m, avail, sessions, run, resv, prot, dropping, host, hlen, hver, round, nextBatch>>

\* Activation wants the whole stage READY, every reservation and range of
\* it live, and the bank it replaces unprotected.
ActivateH2D(batch) ==
    LET mine == StageOf(batch)
    IN /\ VerifyIdle
       /\ batch \in DOMAIN batches /\ batches[batch].state \in {"STAGING", "EVENT_READY"}
       /\ CanFinalize(mine)
       /\ \A op \in mine : op.key \in DOMAIN resv /\ LiveUnderFence(op.key)
       /\ Unprotected(m.active)
       /\ m' = Activated(m, (CHOOSE op \in mine : TRUE).key.id.bank, batch)
       /\ ops' = Drop(ops, mine)
       /\ batches' = SetState(batch, "ACTIVATED")
       /\ UNCHANGED <<avail, sessions, kv, run, resv, prot, dropping, host, hlen, hver, round, nextBatch>>

AbortRequest(r) ==
    LET mine == {op \in OpsOf(r) : Active(op) /\ op.key.round = round[r]}
    IN /\ \E op \in mine : Aborted(op) # ops[op]
       /\ Cardinality({op \in DOMAIN ops : ops[op].status \in {"ABORTED", "ABORT_REQUESTED"}}) < MaxAborts
       /\ ops' = [op \in DOMAIN ops |-> IF op \in mine THEN Aborted(op) ELSE ops[op]]
       /\ UNCHANGED <<m, avail, sessions, kv, run, resv, batches, prot, dropping, host, hlen, hver, round, nextBatch>>

(***************************************************************************)
(* verify_bank_batch and reuse_resident_batch                              *)
(***************************************************************************)
ActiveKeys == {key \in DOMAIN resv : /\ resv[key].bank = m.active
                                     /\ m.bank[m.active].batch = key.id.batch
                                     /\ key.id.batch \in DOMAIN batches
                                     /\ batches[key.id.batch].state = "ACTIVATED"}

\* The client knows a request's length from the session or from the host.
VerifyItem(key, draft) ==
    [key |-> AdapterKey(key), req |-> key.req, row |-> resv[key].row,
     prompt |-> hlen[key.req], outs |-> 1, draft |-> draft]

SubmitVerify(keys, draft) ==
    /\ keys # {} /\ keys \subseteq ActiveKeys
    /\ VerifyStart({VerifyItem(key, draft) : key \in keys})
    /\ UNCHANGED facadeVars

\* The part of a verification before the lock, for one of its requests.
AdaptVerify(key, draft) ==
    /\ key \in ActiveKeys
    /\ AdaptRow(VerifyItem(key, draft))
    /\ UNCHANGED facadeVars

VerifyAccepted(accepted) == VerifyAccept(accepted) /\ UNCHANGED facadeVars
VerifyBankBatch == (VerifyCrop \/ VerifyFinish) /\ UNCHANGED facadeVars

VerifyFailed ==
    /\ run.phase = "failed" /\ run.kind = "verify"
    /\ run' = NoRun
    /\ UNCHANGED <<m, avail, sessions, kv>> /\ UNCHANGED facadeVars

\* A resident range is carried into the next round under the same fence.
CanReuse(key) ==
    /\ key \in ActiveKeys /\ LiveUnderFence(key)
    /\ AdapterKey(key) \in DOMAIN sessions
    /\ sessions[AdapterKey(key)].adapter /\ sessions[AdapterKey(key)].row = resv[key].row
    /\ m.count[resv[key].row] \in 1..resv[key].cap

NextRound(key) == [key EXCEPT !.round = @ + 1]
ReplaceBatchKey(key) ==
    [b \in DOMAIN batches |->
        [batches[b] EXCEPT !.keys = {IF k = key THEN NextRound(k) ELSE k : k \in @}]]

ReuseResident(key) ==
    /\ CanReuse(key) /\ Rounds < MaxRounds
    /\ resv' = Put(Drop(resv, {key}), NextRound(key), resv[key])
    /\ batches' = ReplaceBatchKey(key)
    /\ round' = [round EXCEPT ![key.req] = @ + 1]
    /\ UNCHANGED <<workerVars, ops, prot, dropping, host, hlen, hver, nextBatch>>

(***************************************************************************)
(* Exporting dirty blocks                                                  *)
(***************************************************************************)
Protect(key) ==
    /\ Cardinality({op \in DOMAIN ops : op.dir = "D2H"} \cup DOMAIN prot) < MaxExports
    /\ OpId("D2H", key) \notin DOMAIN prot /\ OpId("D2H", key) \notin DOMAIN ops
    /\ AdapterKey(key) \in DOMAIN sessions
    /\ LogicalLen(sessions[AdapterKey(key)]) > hlen[key.req]
    /\ m.bank[resv[key].bank].epoch = resv[key].epoch
    /\ prot' = Put(prot, OpId("D2H", key), <<resv[key].bank, resv[key].epoch>>)
    /\ UNCHANGED <<workerVars, resv, batches, ops, dropping, host, hlen, hver, round, nextBatch>>

CanExport(key, begin, count) ==
    /\ LiveUnderFence(key)
    /\ count > 0 /\ begin + count <= Loc(m, resv[key].bank, resv[key].row).cap

StageDirty(key) ==
    LET op == OpId("D2H", key)
        len == LogicalLen(sessions[AdapterKey(key)])
        begin == hlen[key.req] \div BlockSize
    IN /\ op \in DOMAIN prot /\ CanAdmit("D2H", {key})
       /\ AdapterKey(key) \in DOMAIN sessions
       /\ run.kind = "verify" => AdapterKey(key) \notin {i.key : i \in run.items}
       /\ CanExport(key, begin, Blocks(len) - begin)
       /\ ops' = PutAll(ops, NewOps("D2H", {key}, [k \in {key} |->
              [first |-> FirstPhysical(m, resv[key].bank, resv[key].row), begin |-> begin,
               count |-> Blocks(len) - begin, len |-> len,
               ver |-> Loc(m, resv[key].bank, resv[key].row).ver]]))
       /\ UNCHANGED <<workerVars, resv, batches, prot, dropping, host, hlen, hver, round, nextBatch>>

ProgressDirty(op) ==
    /\ op.dir = "D2H" /\ Moving(op)
    /\ host' = CopiedToHost(op)
    /\ ops' = [ops EXCEPT ![op] = Progressed(op)]
    /\ UNCHANGED <<workerVars, resv, batches, prot, dropping, hlen, hver, round, nextBatch>>

\* The finished export is what the client then takes the host to hold.
FinishDirty(op) ==
    /\ op.dir = "D2H" /\ CanFinalize({op})
    /\ ops' = [ops EXCEPT ![op] = Tombstone("RESULT_READY")]
    /\ hlen' = [hlen EXCEPT ![op.key.req] = ops[op].copy.len]
    /\ hver' = [hver EXCEPT ![op.key.req] = ops[op].copy.ver]
    /\ UNCHANGED <<workerVars, resv, batches, prot, dropping, host, round, nextBatch>>

Unprotect(op) ==
    /\ IF op \in DOMAIN ops THEN ~Active(op) ELSE op.key \notin DOMAIN resv
    /\ prot' = Drop(prot, {op})
    /\ UNCHANGED <<workerVars, resv, batches, ops, dropping, host, hlen, hver, round, nextBatch>>

(***************************************************************************)
(* release of reservations: validate every range, drop the adapter         *)
(* sessions with their rows, release the ranges, free the rows that no     *)
(* session held, and forget the keys.  The client names no tombstone of a  *)
(* released key again, so the model forgets those too.                     *)
(***************************************************************************)
RemoveFromBatches(keys) ==
    LET kept == [b \in DOMAIN batches |-> [batches[b] EXCEPT !.keys = @ \ keys]]
    IN Drop(kept, {b \in DOMAIN batches : kept[b].keys = {}})

\* Mutant: the row of a released adapter session is not given back.
ReleaseKeepsSessionRows(keys) ==
    LET fences == {FenceOf(key) : key \in keys}
        held == AdaptersAmong({AdapterKey(key) : key \in keys})
    IN /\ keys # {} /\ keys \subseteq DOMAIN resv
       /\ \A key \in keys : /\ ~InFlight(key.req, "H2D")
                            /\ OpId("D2H", key) \in DOMAIN prot => OpId("D2H", key) \in DOMAIN ops
                            /\ run.kind = "verify" => AdapterKey(key) \notin {i.key : i \in run.items}
       /\ CanReleaseExact(m, fences)
       /\ sessions' = Drop(sessions, held)
       /\ avail' = avail \cup {resv[key].row : key \in {k \in keys : AdapterKey(k) \notin held}}
       /\ m' = ReleaseExact(m, fences)
       /\ resv' = Drop(resv, keys)
       /\ batches' = RemoveFromBatches(keys)
       /\ ops' = Drop(ops, {op \in DOMAIN ops : op.key \in keys /\ ~Active(op)})
       /\ UNCHANGED <<kv, run, prot, dropping, host, hlen, hver, round, nextBatch>>

Release(keys) ==
    LET fences == {FenceOf(key) : key \in keys}
        held == AdaptersAmong({AdapterKey(key) : key \in keys})
    IN /\ keys # {} /\ keys \subseteq DOMAIN resv
       /\ \A key \in keys : /\ ~InFlight(key.req, "H2D")
                            /\ OpId("D2H", key) \in DOMAIN prot => OpId("D2H", key) \in DOMAIN ops
                            /\ run.kind = "verify" => AdapterKey(key) \notin {i.key : i \in run.items}
       /\ CanReleaseExact(m, fences)
       /\ sessions' = Drop(sessions, held)
       /\ avail' = avail \cup {resv[key].row : key \in keys}
       /\ m' = ReleaseExact(m, fences)
       /\ resv' = Drop(resv, keys)
       /\ batches' = RemoveFromBatches(keys)
       /\ ops' = Drop(ops, {op \in DOMAIN ops : op.key \in keys /\ ~Active(op)})
       /\ UNCHANGED <<kv, run, prot, dropping, host, hlen, hver, round, nextBatch>>

FacadeNext ==
    \/ \E order \in Orders : \E rows \in RowLists(Len(order)) :
          \/ SubmitPrefill([i \in DOMAIN order |-> Task(PrefillKey(order[i]), order[i])], rows)
          \/ ReserveStandby(order, rows)
    \/ PrefillForward /\ UNCHANGED facadeVars
    \/ PrefillToHost
    \/ PrefillFailed
    \/ \E rs \in SUBSET Requests \ {{}} : ReleasePrefillRanges(rs)
    \/ \E keys \in SUBSET dropping : ReleasePrefillRows(keys)
    \/ \E batch \in DOMAIN batches : \/ PrepareFromHost(batch)
                                     \/ StageH2D(batch)
                                     \/ Progress(batch)
                                     \/ ActivateH2D(batch)
    \/ \E r \in Requests : AbortRequest(r)
    \/ \E keys \in SUBSET ActiveKeys : SubmitVerify(keys, MaxDraft)
    \/ VerifyForward /\ UNCHANGED facadeVars
    \/ \E accepted \in [{i.req : i \in run.items} -> 1..(MaxDraft + 1)] : VerifyAccepted(accepted)
    \/ VerifyBankBatch
    \/ VerifyFailed
    \/ \E key \in DOMAIN resv : \/ AdaptVerify(key, MaxDraft)
                                \/ ReuseResident(key)
                                \/ Protect(key) \/ StageDirty(key)
    \/ \E op \in DOMAIN ops : ProgressDirty(op) \/ FinishDirty(op)
    \/ \E op \in DOMAIN prot : Unprotect(op)
    \/ \E keys \in SUBSET DOMAIN resv : Release(keys)

FacadeSpec == InitWorker /\ InitFacade /\ [][FacadeNext]_<<workerVars, facadeVars>>

(***************************************************************************)
(* Properties                                                              *)
(***************************************************************************)
\* Rows are neither lost nor shared: a row is available or has exactly one
\* owner, a session or a reservation, or both of the same verified request.
FacadeRowsOwned ==
    /\ \A k \in DOMAIN sessions : sessions[k].row \notin avail
    /\ \A key \in DOMAIN resv : resv[key].row \notin avail
    /\ \A k, l \in DOMAIN sessions : sessions[k].row = sessions[l].row => k = l
    /\ \A key, other \in DOMAIN resv : resv[key].row = resv[other].row => key = other
    /\ \A k \in DOMAIN sessions, key \in DOMAIN resv :
         sessions[k].row = resv[key].row => k = AdapterKey(key)
    /\ \A row \in Rows \ avail : \/ \E k \in DOMAIN sessions : sessions[k].row = row
                                 \/ \E key \in DOMAIN resv : resv[key].row = row

\* The ranges and the block table stay consistent whatever the order of
\* reservations, forward passes, crops, swaps and releases.
BanksConsistent == BanksSound(m)

\* A batch that is verified reads its own KV: the valid blocks of every
\* activated range hold the request's own positions, in order.
KVIntact ==
    \A key \in ActiveKeys :
        Holds(m, kv, resv[key].row, key.req,
              Blocks(IF AdapterKey(key) \in DOMAIN sessions
                     THEN LogicalLen(sessions[AdapterKey(key)]) ELSE hlen[key.req]))

\* What the client believes to be on the host is there: no export reads a
\* range after the bank was given to somebody else.
HostIntact == \A r \in Requests : \A k \in 0..(Blocks(hlen[r]) - 1) : host[r][k] = <<r, k>>
=============================================================================
