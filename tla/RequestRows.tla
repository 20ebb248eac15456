------------------------------ MODULE RequestRows ------------------------------
(***************************************************************************)
(* The scheduling row of one request slot and the fences its writers apply *)
(* (table/layout.py, writers.py, copy_writers.py, draft_writers.py,        *)
(* draft_fences.py, draft_copy_transitions.py, core/draft_contracts.py).   *)
(* A row has one partition per kind of writer.  A slot is reused by later  *)
(* requests, told apart by request_epoch, and nothing erases a row then:   *)
(* every writer compares its operation with the other partitions first and *)
(* publishes the fields of its own.                                        *)
(*                                                                         *)
(* Abstracted: a bank's id, epoch and batch sequence are one batch number; *)
(* the generations of workers, which never restart here; lengths, block    *)
(* counts, timings and payload handles, which follow the identities.       *)
(***************************************************************************)
EXTENDS Naturals, FiniteSets, Sequences, TLC

CONSTANTS None   \* no worker, no command

EngineBlock == [request_epoch |-> 0, active |-> FALSE]
HostKVAllocationBlock == [request_epoch |-> 0, writer_lease |-> 0]
DispatchBlock ==
    [request_epoch |-> 0, draft_issue_seq |-> 0, draft_round_id |-> 0,
     draft_worker_id |-> None, target_prepare_seq |-> 0, target_run_seq |-> 0,
     target_round_id |-> 0, planned_target_id |-> None, planned_bank |-> 0]
DispatchFields ==
    [draft_owner_epoch |-> 0, draft_source_snapshot_version |-> 0, draft_run_batch |-> 0,
     draft_prepare_seq |-> 0, planned_draft_id |-> None, draft_prepared_batch |-> 0,
     draft_next_owner_epoch |-> 0]
DraftWorkerBlock ==
    [request_epoch |-> 0, round_id |-> 0, observed_issue_seq |-> 0, worker_id |-> None,
     status |-> "NONE"]
ComputeFields == [owner_epoch |-> 0, snapshot_version |-> 0, batch |-> 0]
TargetComputeBlock ==
    [request_epoch |-> 0, round_id |-> 0, observed_run_seq |-> 0, target_id |-> None,
     bank |-> 0, status |-> "NONE"]
D2HBlock == [request_epoch |-> 0, round_id |-> 0, d2h_op_seq |-> 0, target_id |-> None,
             writer_version |-> 0, ready_version |-> 0, status |-> "NONE"]
H2DBlock == [request_epoch |-> 0, round_id |-> 0, observed_prepare_seq |-> 0,
             target_id |-> None, source_host_version |-> 0, status |-> "NONE"]
DraftD2HBlock ==
    [request_epoch |-> 0, snapshot_version |-> 0, source_worker_id |-> None,
     source_op_seq |-> 0, owner_epoch |-> 0, source_batch |-> 0, ready_version |-> 0,
     allocation |-> 0, status |-> "NONE"]
DraftH2DBlock ==
    [request_epoch |-> 0, snapshot_version |-> 0, next_round_id |-> 0,
     observed_prepare_seq |-> 0, destination_worker_id |-> None, next_owner_epoch |-> 0,
     prepared_batch |-> 0, gpu_ready_version |-> 0, allocation |-> 0, status |-> "NONE"]

\* The fields of a block under those that are given: the latter win.
Over(values, block) ==
    [f \in DOMAIN values \cup DOMAIN block |-> IF f \in DOMAIN values THEN values[f] ELSE block[f]]

\* The partitions of a request row before any publication.
EmptyRow ==
    [engine |-> EngineBlock, dispatch |-> Over(DispatchFields, DispatchBlock),
     draft |-> Over(ComputeFields, DraftWorkerBlock), target |-> TargetComputeBlock,
     d2h |-> D2HBlock, h2d |-> H2DBlock, hostkv |-> HostKVAllocationBlock,
     draft_hostkv |-> [request_epoch |-> 0, allocation |-> 0],
     draft_d2h |-> DraftD2HBlock, draft_h2d |-> DraftH2DBlock]

\* A publication stores the given fields and keeps the others.
Publish(r, part, values) == [r EXCEPT ![part] = Over(values, @)]

\* A row shows the expected values.
Expect(block, values) == \A f \in DOMAIN values : block[f] = values[f]

(***************************************************************************)
(* Engine and allocators.                                                  *)
(***************************************************************************)
PublishActive(r) ==
    Publish(r, "engine", [request_epoch |-> r.engine.request_epoch + 1, active |-> TRUE])

PublishLifecycle(r) == Publish(r, "engine", [active |-> FALSE])

PublishAllocation(r) ==
    Publish(r, "hostkv", [request_epoch |-> r.engine.request_epoch,
                          writer_lease |-> r.hostkv.writer_lease + 1])

PublishDraftAllocation(r) ==
    Publish(r, "draft_hostkv", [request_epoch |-> r.engine.request_epoch,
                                allocation |-> r.draft_hostkv.allocation + 1])

(***************************************************************************)
(* Dispatcher.  The first publication after the slot was reused clears the *)
(* fields it does not set, so that no field of the previous lifetime is    *)
(* labelled with the new epoch.                                            *)
(***************************************************************************)
\* Mutant: the old lifetime's fields stay.
KeepDispatchFields(r, values) == values

ResetDispatchFieldsForEpoch(r, values) ==
    IF r.dispatch.request_epoch = values.request_epoch
    THEN values ELSE Over(values, EmptyRow.dispatch)

PublishDispatch(r, values) == Publish(r, "dispatch", ResetDispatchFieldsForEpoch(r, values))

PublishDraftCommandSent(r, worker, batch, q) ==
    PublishDispatch(r, Over(
        [request_epoch |-> q.request_epoch, draft_issue_seq |-> q.op_seq,
         draft_round_id |-> q.round_id, draft_worker_id |-> worker],
        IF batch = 0 THEN << >>
        ELSE [draft_owner_epoch |-> 0, draft_source_snapshot_version |-> 0,
              draft_run_batch |-> batch]))

PublishPrepareCommandSent(r, worker, batch, q) ==
    PublishDispatch(r,
        [request_epoch |-> q.request_epoch, target_prepare_seq |-> q.op_seq,
         planned_target_id |-> worker, planned_bank |-> batch])

PublishRunCommandSent(r, worker, batch, q) ==
    PublishDispatch(r,
        [request_epoch |-> q.request_epoch, target_run_seq |-> q.op_seq,
         target_round_id |-> q.round_id, planned_target_id |-> worker,
         planned_bank |-> batch])

\* Target prefill may publish the partition first: its Draft fields are zero.
HasDraftDispatch(block) ==
    block.draft_issue_seq # 0 \/ block.draft_round_id # 0 \/ block.draft_run_batch # 0

(***************************************************************************)
(* The identity of a Draft snapshot, and the joins that check it.          *)
(***************************************************************************)
SnapshotIdentity(worker, owner, version, allocation, q) ==
    [request_epoch |-> q.request_epoch, round_id |-> q.round_id, op_seq |-> q.op_seq,
     worker_id |-> worker, owner_epoch |-> owner, snapshot_version |-> version,
     allocation |-> allocation]

ValidateAllocation(r, identity) ==
    /\ r.engine.request_epoch = identity.request_epoch
    /\ Expect(r.draft_hostkv, [request_epoch |-> identity.request_epoch,
                               allocation |-> identity.allocation])

ValidateSource(r, identity) ==
    /\ ValidateAllocation(r, identity)
    /\ Expect(r.draft,
        [request_epoch |-> identity.request_epoch, round_id |-> identity.round_id,
         observed_issue_seq |-> identity.op_seq, worker_id |-> identity.worker_id,
         owner_epoch |-> identity.owner_epoch,
         snapshot_version |-> identity.snapshot_version, status |-> "READY_TARGET"])

\* What a frozen prepare of request q writes to the dispatch partition.
PrepareValues(worker, batch, q) ==
    [request_epoch |-> q.request_epoch, draft_prepare_seq |-> q.op_seq,
     planned_draft_id |-> worker, draft_prepared_batch |-> batch,
     draft_source_snapshot_version |-> q.source.snapshot_version,
     draft_next_owner_epoch |-> q.owner_epoch]

ValidatePrepareDispatch(r, worker, batch, q) ==
    Expect(r.dispatch,
        Over(PrepareValues(worker, batch, q),
             [draft_owner_epoch |-> q.source.owner_epoch,
              draft_worker_id |-> q.source.worker_id]))

ValidateHostReadySource(r, identity) ==
    Expect(r.draft_d2h,
        [request_epoch |-> identity.request_epoch,
         snapshot_version |-> identity.snapshot_version,
         ready_version |-> identity.snapshot_version,
         source_worker_id |-> identity.worker_id, owner_epoch |-> identity.owner_epoch,
         source_op_seq |-> identity.op_seq, allocation |-> identity.allocation,
         status |-> "HOST_READY"])

\* Mutant: a copy does not wait for the host.
PrepareWithoutHost(r, worker, batch, q, hostReady) ==
    ValidateAllocation(r, q.source) /\ ValidatePrepareDispatch(r, worker, batch, q)

ValidatePrepare(r, worker, batch, q, hostReady) ==
    /\ ValidateAllocation(r, q.source)
    /\ ValidatePrepareDispatch(r, worker, batch, q)
    /\ hostReady => ValidateHostReadySource(r, q.source)

ValidateHostReady(r, identity) ==
    ValidateAllocation(r, identity) /\ ValidateHostReadySource(r, identity)

H2DValues(worker, batch, q) ==
    [request_epoch |-> q.request_epoch, snapshot_version |-> q.source.snapshot_version,
     next_round_id |-> q.round_id, observed_prepare_seq |-> q.op_seq,
     destination_worker_id |-> worker, next_owner_epoch |-> q.owner_epoch,
     prepared_batch |-> batch, allocation |-> q.source.allocation]

ValidateRunDispatch(r, worker, batch, q) ==
    /\ r.engine.request_epoch = q.request_epoch
    /\ Expect(r.dispatch,
        [request_epoch |-> q.request_epoch, draft_issue_seq |-> q.op_seq,
         draft_round_id |-> q.round_id, draft_worker_id |-> worker,
         draft_owner_epoch |-> q.owner_epoch, draft_run_batch |-> batch,
         draft_source_snapshot_version |-> q.snapshot_version])

ValidateInitialDispatch(r, worker, batch, q) ==
    /\ r.engine.request_epoch = q.request_epoch
    /\ Expect(r.dispatch,
        [request_epoch |-> q.request_epoch, draft_issue_seq |-> q.op_seq,
         draft_round_id |-> q.round_id, draft_worker_id |-> worker,
         draft_owner_epoch |-> 0, draft_source_snapshot_version |-> 0,
         draft_run_batch |-> batch])

(***************************************************************************)
(* Copy facts only move forward within one operation.  An older operation  *)
(* is stale, a newer one starts over, a repeated fact is refused.          *)
(***************************************************************************)
Version(direction) ==
    IF direction = "D2H" THEN "snapshot_version" ELSE "observed_prepare_seq"

NewOperation(old, values, direction) ==
    \/ values.request_epoch > old.request_epoch
    \/ /\ values.request_epoch = old.request_epoch
       /\ values[Version(direction)] > old[Version(direction)]

Mutable == {"status", "ready_version", "gpu_ready_version"}

Follows(old, new) == <<old, new>> \in
    {<<"IN_D2H", "HOST_READY">>, <<"WAIT_HOST", "IN_H2D">>, <<"WAIT_HOST", "GPU_READY">>,
     <<"IN_H2D", "GPU_READY">>}

ValidateCopyTransition(old, values, direction) ==
    \/ NewOperation(old, values, direction)
    \/ /\ \A f \in DOMAIN values \ Mutable : old[f] = values[f]
       /\ Follows(old.status, values.status)

(***************************************************************************)
(* Draft compute and copy facts.                                           *)
(***************************************************************************)
InitialRunning(worker, batch, q) ==
    [request_epoch |-> q.request_epoch, round_id |-> q.round_id,
     observed_issue_seq |-> q.op_seq, worker_id |-> worker, owner_epoch |-> 0,
     snapshot_version |-> 1, batch |-> batch, status |-> "IN_DRAFT"]

Running(worker, batch, q) ==
    [request_epoch |-> q.request_epoch, round_id |-> q.round_id,
     observed_issue_seq |-> q.op_seq, worker_id |-> worker,
     owner_epoch |-> q.owner_epoch, snapshot_version |-> q.snapshot_version + 1,
     batch |-> batch, status |-> "IN_DRAFT"]

\* publish_ready: the snapshot's version is the one after the dispatched source.
ReadyOK(r, identity, batch) ==
    /\ ValidateAllocation(r, identity)
    /\ Expect(r.dispatch,
        [request_epoch |-> identity.request_epoch, draft_issue_seq |-> identity.op_seq,
         draft_round_id |-> identity.round_id, draft_worker_id |-> identity.worker_id,
         draft_owner_epoch |-> identity.owner_epoch, draft_run_batch |-> batch])
    /\ identity.snapshot_version = r.dispatch.draft_source_snapshot_version + 1

Ready(identity, batch) ==
    [request_epoch |-> identity.request_epoch, round_id |-> identity.round_id,
     observed_issue_seq |-> identity.op_seq, worker_id |-> identity.worker_id,
     owner_epoch |-> identity.owner_epoch,
     snapshot_version |-> identity.snapshot_version, batch |-> batch,
     status |-> "READY_TARGET"]

\* The legacy writer of requests that never migrate.
LegacyDraftValues(worker, q, status) ==
    [request_epoch |-> q.request_epoch, round_id |-> q.round_id,
     observed_issue_seq |-> q.op_seq, worker_id |-> worker, status |-> status]

LegacyDraftFence(r, worker, q) ==
    /\ r.engine.request_epoch = q.request_epoch
    /\ Expect(r.dispatch, [draft_owner_epoch |-> 0, draft_round_id |-> q.round_id,
                           draft_issue_seq |-> q.op_seq, draft_worker_id |-> worker])

D2HValues(identity, batch, status) ==
    [request_epoch |-> identity.request_epoch,
     snapshot_version |-> identity.snapshot_version,
     source_worker_id |-> identity.worker_id, source_op_seq |-> identity.op_seq,
     owner_epoch |-> identity.owner_epoch, source_batch |-> batch,
     ready_version |-> IF status = "HOST_READY" THEN identity.snapshot_version ELSE 0,
     allocation |-> identity.allocation, status |-> status]

PublishD2HOK(r, identity, batch, status) ==
    /\ ValidateSource(r, identity) /\ r.draft.batch = batch
    /\ ValidateCopyTransition(r.draft_d2h, D2HValues(identity, batch, status), "D2H")

PublishH2DValues(worker, batch, q, status) ==
    Over([status |-> status,
          gpu_ready_version |-> IF status = "GPU_READY" THEN q.source.snapshot_version ELSE 0],
         H2DValues(worker, batch, q))

PublishH2DOK(r, worker, batch, q, status) ==
    /\ ValidatePrepare(r, worker, batch, q, status # "WAIT_HOST")
    /\ ValidateCopyTransition(r.draft_h2d, PublishH2DValues(worker, batch, q, status), "H2D")

\* WAIT of a whole batch: it cannot follow any state of the same operation.
ValidateWaitBatch(r, worker, batch, q) ==
    /\ ValidatePrepareDispatch(r, worker, batch, q)
    /\ NewOperation(r.draft_h2d, H2DValues(worker, batch, q), "H2D")

(***************************************************************************)
(* Target compute and copy facts.                                          *)
(***************************************************************************)
TargetFence(r, worker, batch, q) ==
    /\ r.engine.request_epoch = q.request_epoch
    /\ Expect(r.dispatch, [target_round_id |-> q.round_id, target_run_seq |-> q.op_seq,
                           planned_target_id |-> worker, planned_bank |-> batch])

ReadyDraft(worker, batch, q) ==
    [request_epoch |-> q.request_epoch, round_id |-> q.round_id,
     observed_run_seq |-> q.op_seq, target_id |-> worker, bank |-> batch,
     status |-> "READY_DRAFT"]

ValidateCompletedTarget(r, worker, batch, q) ==
    /\ r.engine.request_epoch = q.request_epoch
    /\ Expect(r.target,
        [request_epoch |-> q.request_epoch, round_id |-> q.round_id,
         observed_run_seq |-> q.op_seq, target_id |-> worker, bank |-> batch])

D2HStarted(worker, q) ==
    [request_epoch |-> q.request_epoch, round_id |-> q.round_id, d2h_op_seq |-> q.op_seq,
     target_id |-> worker, writer_version |-> q.writer_lease, status |-> "IN_D2H"]

HostReadyOK(r, worker, batch, q) ==
    /\ ValidateCompletedTarget(r, worker, batch, q)
    /\ Expect(r.hostkv, [request_epoch |-> q.request_epoch, writer_lease |-> q.writer_lease])

HostReady(worker, q) ==
    Over([status |-> "HOST_READY", ready_version |-> q.round_id], D2HStarted(worker, q))

ValidatePrepareFence(r, worker, batch, q) ==
    Expect(r.dispatch, [target_prepare_seq |-> q.op_seq, planned_target_id |-> worker,
                        planned_bank |-> batch])

H2DWait(worker, q, status) ==
    [request_epoch |-> q.request_epoch, round_id |-> q.round_id,
     observed_prepare_seq |-> q.op_seq, target_id |-> worker,
     source_host_version |-> q.source_host_version, status |-> status]

GPUReadyOK(r, worker, batch, q) ==
    /\ ValidatePrepareFence(r, worker, batch, q)
    /\ r.engine.request_epoch = q.request_epoch
    /\ Expect(r.d2h, [request_epoch |-> q.request_epoch, status |-> "HOST_READY",
                      ready_version |-> q.source_host_version])
    /\ r.hostkv.request_epoch = q.request_epoch
    /\ r.d2h.writer_version = r.hostkv.writer_lease
=============================================================================
