---------------------------- MODULE CopyStreams ----------------------------
(***************************************************************************)
(* The copy executors of the two banks of a GPU: one thread and one CUDA   *)
(* stream each (kv/transfer.py, bank_transfer.py, cuda_transfer.py), over  *)
(* host memory registered once for both (kv/registration_pool.py).         *)
(*                                                                         *)
(* A launch only enqueues: the copies happen later, in stream order, when  *)
(* the GPU gets to them.  A plan is a direction, regions and whether it    *)
(* waits for an event of its producer.  Any CUDA call may fail.            *)
(***************************************************************************)
EXTENDS Integers, Sequences, FiniteSets, SequencesExt

CONSTANTS CopyPlans,     \* plans submitted: [direction, sizes, waits]
          ChunkBytes,    \* byte budget of an H2D chunk, 0 for none
          GroupSize,     \* H2D chunks launched before waiting
          MaxPlans,      \* bound on the plans of a bank
          MaxFaults      \* bound on failing calls

VARIABLES executor, \* of a bank: the executor, its future and its thread
          stream,  \* of a bank: operations enqueued on the GPU, oldest first
          copied,  \* of a bank: regions of its current plan that were moved
          event,   \* of a bank: the producer's event of its current plan
          pool,    \* [count, registered] of the host memory
          owner,   \* the owner's thread: running, closing, closed or failed
          faults   \* failing calls so far

streamVars == <<executor, stream, copied, event, pool, owner, faults>>

Lanes == {0, 1}
NoPlan == [direction |-> "none", sizes |-> <<>>, waits |-> FALSE]

\* _region_bytes, in blocks: both the K and the V plane.
RegionBytes(size) == 2 * size

\* _plan_chunks.flush: the regions so far become a chunk; only the first chunk
\* carries the dependencies of the plan.
FlushWaitsLast(acc) ==
    IF acc.regions = <<>> THEN acc
    ELSE [chunks |-> Append(acc.chunks, [regions |-> acc.regions,
                                         waits |-> acc.waits /\ acc.chunks # <<>>]),
          regions |-> <<>>, total |-> 0, waits |-> acc.waits]
Flush(acc) ==
    IF acc.regions = <<>> THEN acc
    ELSE [chunks |-> Append(acc.chunks, [regions |-> acc.regions, waits |-> acc.waits]),
          regions |-> <<>>, total |-> 0, waits |-> FALSE]

\* One region more: a chunk is closed before it would exceed the budget, and a
\* region larger than the budget is a chunk of its own.
AddRegion(acc, r) ==
    LET size == RegionBytes(r.size)
        open == IF acc.total + size > ChunkBytes THEN Flush(acc) ELSE acc
        with == [open EXCEPT !.regions = Append(@, r), !.total = @ + size]
    IN  IF size > ChunkBytes THEN Flush(with) ELSE with

Regions(plan) == [i \in DOMAIN plan.sizes |-> [id |-> i, size |-> plan.sizes[i]]]
NonEmpty(plan) == {i \in DOMAIN plan.sizes : plan.sizes[i] > 0}

\* _plan_chunks: only H2D is cut, and only with a budget.
PlanChunks(plan) ==
    IF plan.direction # "H2D" \/ ChunkBytes = 0
    THEN << [regions |-> Regions(plan), waits |-> plan.waits] >>
    ELSE Flush(FoldLeft(AddRegion, [chunks |-> <<>>, regions |-> <<>>, total |-> 0,
                                    waits |-> plan.waits], Regions(plan))).chunks

\* A fresh executor: no future, an idle thread, a backend without stream and record.
NewLane == [plan |-> NoPlan, future |-> "none", thread |-> "idle", todo |-> <<>>, fence |-> 0,
            tickets |-> 0, seen |-> 0, plans |-> 0, closed |-> FALSE, cleanup |-> "none",
            handle |-> FALSE, record |-> FALSE]

InitStreams ==
    /\ executor = [b \in Lanes |-> NewLane]
    /\ stream = [b \in Lanes |-> <<>>]
    /\ copied = [b \in Lanes |-> {}]
    /\ event = [b \in Lanes |-> TRUE]
    /\ pool = [count |-> 0, registered |-> FALSE]
    /\ owner = "running"
    /\ faults = 0

\* A call of the CUDA runtime fails.
Fault == faults < MaxFaults /\ faults' = faults + 1
Works == UNCHANGED faults

\* BankCopyExecutor.check_health: a failure of either bank forbids new work.
Healthy == \A b \in Lanes : executor[b].future # "failed"

\* BankCopyExecutor.submit_batch and CopyExecutor.submit: one plan outstanding.
SubmitPlan(b, plan) ==
    /\ owner = "running"
    /\ Healthy
    /\ ~ executor[b].closed /\ executor[b].future # "pending"
    /\ executor[b].plans < MaxPlans
    /\ executor' = [executor EXCEPT ![b] = [executor[b] EXCEPT !.plan = plan, !.future = "pending",
                   !.thread = "launch", !.todo = PlanChunks(plan), !.plans = @ + 1]]
    /\ copied' = [copied EXCEPT ![b] = {}]
    /\ event' = [event EXCEPT ![b] = ~ plan.waits]
    /\ UNCHANGED <<stream, pool, owner, faults>>

\* HostRegistrationPool.acquire under its lock: registered once for all.
Acquired(p) == [count |-> p.count + 1, registered |-> TRUE]

\* _run raises: the future fails, and what was enqueued stays enqueued.
JobFailed(l) == [l EXCEPT !.future = "failed", !.thread = "idle", !.todo = <<>>]

\* CudaCopyBackend.initialize, when the backend has no stream yet.  It may fail
\* before there is a handle; a handle is kept when what follows fails.
Initialize(b) ==
    /\ executor[b].thread = "launch" /\ ~ executor[b].handle
    /\ \/ /\ Works
          /\ executor' = [executor EXCEPT ![b].handle = TRUE, ![b].record = TRUE]
          /\ pool' = Acquired(pool)
       \/ /\ Fault
          /\ \E kept \in BOOLEAN :
                executor' = [executor EXCEPT ![b] = [JobFailed(@) EXCEPT !.handle = kept]]
          /\ UNCHANGED pool
    /\ UNCHANGED <<stream, copied, event, owner>>

\* CudaCopyBackend.launch of a chunk: waits, the copies of its regions that are
\* not empty, and the event of the ticket.
Enqueued(chunk, ticket) ==
    (IF chunk.waits THEN << [op |-> "wait"] >> ELSE <<>>)
      \o FoldLeft(LAMBDA s, r : IF r.size > 0 THEN Append(s, [op |-> "copy", id |-> r.id]) ELSE s,
                  <<>>, chunk.regions)
      \o << [op |-> "done", ticket |-> ticket] >>

\* The chunks launched before the thread waits.
GroupOf(l) == IF l.plan.direction = "H2D" THEN GroupSize ELSE 1
\* _run: the ticket the thread waits for fences the whole group.
GroupFence(l) == l.tickets + 1

\* _run: one launch of the group; a failure may leave part of it enqueued,
\* without the event of its ticket.
Launch(b) ==
    LET l == executor[b]
        ops == Enqueued(Head(l.todo), l.tickets + 1)
        full == Len(l.todo) = 1 \/ l.tickets + 1 - l.seen = GroupOf(l)
    IN  /\ l.thread = "launch" /\ l.handle
        /\ \/ /\ Works
              /\ stream' = [stream EXCEPT ![b] = @ \o ops]
              /\ executor' = [executor EXCEPT ![b] = [l EXCEPT !.fence = GroupFence(l),
                             !.tickets = @ + 1, !.todo = Tail(@),
                             !.thread = IF full THEN "wait" ELSE "launch"]]
           \/ /\ Fault
              /\ \E n \in 0 .. Len(ops) - 1 :
                    stream' = [stream EXCEPT ![b] = @ \o SubSeq(ops, 1, n)]
              /\ executor' = [executor EXCEPT ![b] = JobFailed(@)]
        /\ UNCHANGED <<copied, event, pool, owner>>

\* Tickets whose event the GPU has reached.
Reached(b) == executor[b].tickets - Cardinality({i \in DOMAIN stream[b] : stream[b][i].op = "done"})

\* _run: synchronize, or query until it answers; then the next group, or the
\* receipt that completes the future.
Observe(b) ==
    LET l == executor[b]
    IN  /\ l.thread = "wait"
        /\ \/ /\ Works
              /\ Reached(b) >= l.fence
              /\ executor' = [executor EXCEPT ![b] = [l EXCEPT !.seen = l.tickets, !.fence = 0,
                             !.thread = IF l.todo = <<>> THEN "idle" ELSE "launch",
                             !.future = IF l.todo = <<>> THEN "done" ELSE @]]
           \/ /\ Fault
              /\ executor' = [executor EXCEPT ![b] = JobFailed(@)]
        /\ UNCHANGED <<stream, copied, event, pool, owner>>

\* The GPU takes the next operation of a stream; a wait holds everything behind it.
GPUStep(b) ==
    /\ stream[b] # <<>>
    /\ Head(stream[b]).op = "wait" => event[b]
    /\ stream' = [stream EXCEPT ![b] = Tail(@)]
    /\ copied' = IF Head(stream[b]).op = "copy"
                 THEN [copied EXCEPT ![b] = @ \cup {Head(stream[b]).id}] ELSE copied
    /\ UNCHANGED <<executor, event, pool, owner, faults>>

\* The producer of a plan's KV completes.
Produce(b) ==
    /\ ~ event[b]
    /\ event' = [event EXCEPT ![b] = TRUE]
    /\ UNCHANGED <<executor, stream, copied, pool, owner, faults>>

\* BankCopyExecutor.close goes through both executors, whatever the first says.
BeginClose ==
    /\ owner = "running"
    /\ owner' = "closing"
    /\ UNCHANGED <<executor, stream, copied, event, pool, faults>>

\* CopyExecutor.close: the cleanup is queued behind the last job.
CloseExecutor(b) ==
    /\ owner = "closing" /\ ~ executor[b].closed
    /\ b = 1 => executor[0].cleanup \in {"ok", "error"}
    /\ executor' = [executor EXCEPT ![b].closed = TRUE, ![b].cleanup = "queued"]
    /\ UNCHANGED <<stream, copied, event, pool, owner, faults>>

\* CudaCopyBackend.close, first half: physical completion of the stream.
Synchronize(b) ==
    /\ executor[b].cleanup = "queued" /\ executor[b].thread = "idle"
    /\ \/ /\ Works
          /\ executor[b].handle => stream[b] = <<>>
          /\ executor' = [executor EXCEPT ![b].cleanup = "release"]
       \/ /\ Fault /\ executor[b].handle
          /\ executor' = [executor EXCEPT ![b].cleanup = "error"]
    /\ UNCHANGED <<stream, copied, event, pool, owner>>

\* HostRegistrationPool.release: the last user unregisters.
ReleasedOnce(p) == [count |-> p.count - 1, registered |-> p.count > 1]

\* CudaCopyBackend.close, second half: the registration, then the stream; either
\* may fail, and a stream that cannot be destroyed keeps its handle.
ReleaseRecord(b) ==
    /\ executor[b].cleanup = "release"
    /\ \/ /\ Works
          /\ pool' = IF executor[b].record THEN ReleasedOnce(pool) ELSE pool
          /\ executor' = [executor EXCEPT ![b] = [@ EXCEPT !.record = FALSE, !.handle = FALSE,
                                                   !.cleanup = "ok"]]
       \/ /\ Fault /\ executor[b].record /\ pool.count = 1
          /\ executor' = [executor EXCEPT ![b].cleanup = "error"]
          /\ UNCHANGED pool
       \/ /\ Fault /\ executor[b].handle
          /\ pool' = IF executor[b].record THEN ReleasedOnce(pool) ELSE pool
          /\ executor' = [executor EXCEPT ![b] = [@ EXCEPT !.record = FALSE, !.cleanup = "error"]]
    /\ UNCHANGED <<stream, copied, event, owner>>

\* The end of BankCopyExecutor.close: both were joined, and the error of a
\* cleanup or of a failed job is raised.
JoinedUntilError(cleanup) == cleanup[0] = "error" \/ \A b \in Lanes : cleanup[b] \in {"ok", "error"}
JoinedBoth(cleanup) == \A b \in Lanes : cleanup[b] \in {"ok", "error"}
EndClose ==
    /\ owner = "closing"
    /\ JoinedBoth([b \in Lanes |-> executor[b].cleanup])
    /\ owner' = IF \A b \in Lanes : executor[b].cleanup = "ok" /\ executor[b].future # "failed"
                THEN "closed" ELSE "failed"
    /\ UNCHANGED <<executor, stream, copied, event, pool, faults>>

StreamsNext ==
    \/ \E b \in Lanes : \/ \E plan \in CopyPlans : SubmitPlan(b, plan)
                        \/ Initialize(b) \/ Launch(b) \/ Observe(b)
                        \/ GPUStep(b) \/ Produce(b)
                        \/ CloseExecutor(b) \/ Synchronize(b) \/ ReleaseRecord(b)
    \/ BeginClose \/ EndClose

-----------------------------------------------------------------------------
\* A completed future means that every region of the plan was moved, whatever
\* the chunks and groups it was launched in (CopyExecutor._run).
DoneMeansCopied ==
    \A b \in Lanes : executor[b].future = "done" => NonEmpty(executor[b].plan) \subseteq copied[b]

\* Nothing is moved before the producer of the plan has completed, though only
\* the first chunk of the plan waits for it.
CopiedAfterProducer == \A b \in Lanes : copied[b] # {} => event[b]

\* Host memory stays registered while a stream may still copy from or to it:
\* failed launches, cleanups and the other bank included (CudaCopyBackend.close,
\* HostRegistrationPool).
RegisteredWhileCopying ==
    \A b \in Lanes : (\E i \in DOMAIN stream[b] : stream[b][i].op = "copy") => pool.registered

\* When close returns, neither bank has a job or a copy in flight, unless its own
\* cleanup failed; a close without error leaves no registration behind.
CloseJoinsBoth ==
    /\ owner \in {"closed", "failed"} =>
         \A b \in Lanes : /\ executor[b].thread = "idle"
                          /\ stream[b] = <<>> \/ executor[b].cleanup = "error"
    /\ owner = "closed" => pool = [count |-> 0, registered |-> FALSE]

\* The chunks of a plan are the plan: its regions in order, none above the budget
\* unless it is a single region.
ChunksCoverPlan ==
    \A b \in Lanes : executor[b].plan # NoPlan =>
        LET chunks == PlanChunks(executor[b].plan)
            total(c) == FoldLeft(LAMBDA n, r : n + RegionBytes(r.size), 0, c.regions)
        IN  /\ FlattenSeq([i \in DOMAIN chunks |-> chunks[i].regions]) = Regions(executor[b].plan)
            /\ (executor[b].plan.direction = "H2D" /\ ChunkBytes > 0) =>
                 \A i \in DOMAIN chunks :
                     total(chunks[i]) <= ChunkBytes \/ Len(chunks[i].regions) = 1

\* A plan is moved whole and after its producer, in whatever pieces.
CopiedInFull == DoneMeansCopied /\ CopiedAfterProducer /\ ChunksCoverPlan

\* Closing the executors of a GPU, after any failing CUDA call, leaves nothing
\* that still uses the host memory.
CloseIsClean == RegisteredWhileCopying /\ CloseJoinsBoth
=============================================================================
