# A TLA+ development for NebulaSD

NebulaSD serves speculative decoding with *Draft* and *Target* workers that
stream the KV cache of thousands of requests between host memory and two GPU
*Banks* per worker. This directory models the parts of it whose correctness
depends on the order in which several processes act, checks them with TLC and
proves the main facts about them with TLAPS. Paths below are relative to
`src/nebulasd/src/nebulasd/` unless they start with `src/`.

## The system

| Part | State | Operations | Talks to |
| --- | --- | --- | --- |
| Engine (`engine/core.py`, `work_progress.py`, `work_ledger.py`, `local_state.py`, `output_manager.py`) | request ledger, authorisations (WORK records), cached shared rows | apply facts, find eligible requests, build and send WORKs, retire them, deliver output | writes the WORK ring of control and the import pipes of the DMA lanes; reads shared rows and completion records |
| Worker control (`workers/runtime.py`, `isolated.py`, `target/control.py`) | up to four WORK records, two Banks, the free rows, the compute slot | accept, capture dependencies, lay out, compile, dispatch, export, release, publish, retire, drain, shutdown | execution by a command/result ring, DMA by pipes, Engine by rows and completions |
| Execution (`workers/isolated.py`, backends) | the running model job, the compute clock | compute, shut down | control |
| DMA (`workers/dma_process.py`, `direct_import.py`) | per Bank: whether the Bank is held, the import queue, one completion slot | import, export, release, metadata | Engine (imports), control (exports) |
| Dependencies and publication (`workers/dependencies.py`, `target/publication.py`, `draft/publication.py`) | watches on peer rows, published request rows | capture, publish result / host / completion rows | other workers through the shared tables |
| Shared tables and rings (`table/`, `ipc/state_change_ring.py`, `src/nebulasd/csrc/control_plane`) | seqlock rows, bounded change ring, reader cursors | publish, stable read, poll, overflow scan | everyone |
| Cohorts (`engine/admission.py`, `recycling.py`, `client.py`) | session budget, generation, epoch | admit, close, recycle, restart | Engine, supervisor |
| Host KV (`kv/`) | extents and free ranges, pin words, D2H rows, streams and registration | allocate, export, import, copy in chunks, recycle | Engine, DMA |
| Payload arenas (`data/`, `workers/completion.py`) | published extent and generation of each arena | append, read by handle, recycle | Engine, Draft workers |
| Commands and facts (`scheduler/commands.py`, `ipc/`, `table/*writers.py`, `table/draft_*.py`) | command rings and payload arenas, worker caches, the partitions of a request row | dispatch, consume behind the fences, publish checked facts | Engine, workers |
| Schedulers (`scheduler/`, `src/nebulasd/csrc/scheduler`) | estimates | choose batches and placement | Engine |
| SwiftLLM target (`src/swiftLLM/swiftllm/server`, `worker/block_manager.py`) | two Banks of KV blocks, rows, sessions, reservations, copies | prefill, reserve, import, activate, verify, export, release, abort | execution, or a remote client |

What is hard here: the Engine decides from rows it reads late; imports bypass
control and run while the previous WORK of the same Bank still computes;
shutdown can meet a WORK at any stage; facts about one request come from two
workers in any order; change hints may be lost; a cold restart keeps some facts
and resets others; copies run beside the model on memory that other processes
recycle; a command is in its ring before the facts it names are in the tables.
`PROJECT.json` lists these hazards line by line.

What makes each part correct:

* worker group: rows and Banks are owned by exactly one WORK, copies and model
  jobs never touch the same Bank, published completions are final, every WORK
  ends, every stop ends clean;
* ledger: what it infers from stale rows is true, what it authorises fits;
* request pipeline: every fact the Engine applies belongs to the authorisation
  it is matched with, output only grows, no dependency is overwritten before it
  was captured;
* tables: no torn row is accepted and every row is eventually seen;
* cohorts: no fact, lease or payload crosses a generation, and what admission
  accepted never fails later for lack of memory;
* host KV: a ready copy is complete and of one version, whoever copies at the
  same time, and memory outlives the copies that use it;
* commands: what the dispatcher let into a ring is accepted, runs on the KV it
  names, and publishes facts of its own lifetime only;
* target process: rows and ranges have one owner, and a verification reads the
  KV of its own request.

## Modules

| Module | Part | Run |
| --- | --- | --- |
| `WorkerRuntime`, `MCWorkerRuntime`; `WorkerRuntimeProofs`, `WorkerRuntimeStepProofs`, `WorkerRuntimeGroupProofs` | worker group (control, execution, DMA) and the ledger that feeds it | `worker_*` |
| `RequestPipeline`, `SequentialDecoding`, `MCRequestPipeline`; `RequestPipelineProofs` | Draft and Target rounds over the Engine's ledger, wake-ups, dependencies and publication; the sequential loop they implement | `pipeline_*` |
| `SharedTable`, `AtomicTable`, `MCSharedTable`; `SharedTableProofs` | seqlock rows, change rings, doorbell, incremental reader in shared memory; the atomic table they implement | `table_reads`, `table_liveness` |
| `LocalTable` | the same table inside one process, with its bounded and unbounded reader | `table_liveness` |
| `RequestRows`, `DispatchPlane`; `DispatchPlaneProofs` | the partitions of a request row with their writers' fences; dispatch, fenced consumption and execution of commands over them | `dispatch_plane` |
| `CommandTransport`; `NodeProofs` | command arenas and rings, in one process and between two | `node_services` |
| `HostKVAllocator`, `HostCopies` | extents of host KV; exports and imports through pins and D2H rows | `worker_direct` |
| `CopyStreams`; `NodeProofs` | the copy executors of the two Banks, CUDA streams and registration | `worker_direct` |
| `SessionMemory`, `MCSessionMemory`; `SessionProofs` | budget, admission, payload arenas and their recycling | `node_services`, `session_recycle` |
| `KVBanks`, `TargetWorker`, `TargetFacade`, `LocalTarget`, `TargetProcess` | the SwiftLLM target process: block manager, worker, the two facades, and the process behind one of them | `node_services` |
| `WorkerNode`, `NodeServices`, `Tables` | parts of one node side by side for one run: a behaviour is one of the parts, the others stand still | |

How they fit together. `WorkerRuntime` lets dependency facts arrive in any order
and shows what a worker group promises (the WORKs of a Bank take turns, a WORK
computes once, its completion is last, what the ledger infers from worker rows is
true). `SharedTable` shows that a row is read and written as one atomic,
versioned register and that every publication is seen in the end.
`RequestPipeline` uses exactly these promises for many workers at once, and its
bound on the WORKs of a request (`WorkBudget`) is what `SessionMemory` assumes of
a request. `DispatchPlane` uses atomic rows too; `CommandTransport` shows that
its rings deliver every command once, in order and with its own payload.
`HostCopies` takes a copy's blocks one at a time, `CopyStreams` shows that a
completed copy moved them all.

`RequestPipeline` and `WorkerRuntime` follow the production WORK path. Some of
the code belongs to the library under it and is driven by the repository's
contract tests only: the dispatch plane with `WorkerCommandCache` and
`DispatchFencedConsumer`, the command rings, `HostKVFacts` with the pins, and
`BankCopyExecutor`. `DispatchPlane`, `CommandTransport`, `HostCopies` and
`CopyStreams` therefore model what these classes promise to any caller that keeps
to the tests' order of calls.

Still open: theorems for the other properties of `DispatchPlane` and for the
host KV copies and the target process, and the planning algorithms (batch fitting, the stage planner's assignment) against reference
definitions.

## WorkerRuntime

`WorkerRuntime.tla` models one worker group with its four processes.

| Variable | Code |
| --- | --- |
| `rt` | `Runtime`: `records` (`State` per WORK), `banks` (`Bank`), `free_rows`, `compute`; plus the RPC outstanding per lane (`exchange`), what control last put on execution's ring (`command`), and whether `Runtime.step` recorded an exception (`failed`) |
| `incoming` | the Engine's ring to control |
| `import` | the Engine's import pipe of each Bank (direct mode) |
| `lane`, `slot` | `direct_import.serve`: the WORK whose import occupies the Bank; the shared completion slot |
| `exec` | the execution process and the clock of its last ended job |
| `completions` | the completion arena |
| `eng` | `WorkLedger`: records, next sequence, epochs, and the Bank and clock rows it has cached |

The Runtime's methods are operators on the record `rt` (`Accept`, `Advance`
with its paragraphs `TakeReceipt`, `FinishSkipped`, `LayOut`, `Compile`,
`JoinImport`; `DispatchCompute`, `Handle`/`Apply`, `Receive`, `Stop`, `Retire`),
so that an exception anywhere becomes `failed` and nothing after it runs. The
actions are the turns of the loops of the four processes. Any dependency fact
may arrive at any time (`ReceiveInput`) and any classified decision may be
FINISHED, which stands for every behaviour of the peer workers. The Engine may
submit any batch the ledger's `capacity` admits, may see each published row
arbitrarily late, and may stop the worker at any time.

Abstractions: a row's payload, the copied bytes, timing and profiling are left
out; inline jobs (`InlineJobs`) complete in the step that submits them, as in
the code; the metadata thread's fence and its handling are one step because
nothing else reads the thread's state; the rings are FIFO queues whose capacity
the window of `MAX_OUTSTANDING` records already bounds.

`BankExclusive` has three parts, for the three ways a Bank's memory and its
receipts can be confused: `ComputeOwnsBank` (no copy touches the Bank the model
runs on), `ImportAfterExport` (a lane imports a successor only when its
predecessors have left) and `ReceiptNotLost` (an import's completion waits for
the WORK it belongs to). `EveryWorkEnds` is `WorkRetired` and `StopCompletes`.

### Runs

| Run | Instance | Shows |
| --- | --- | --- |
| `worker_direct` | 1 row, 3 WORKs, Target operations, drain and shutdown; 1.28 million states with the two copy modules below | two WORKs queue on one Bank and the third on the other: lane, control, execution and the stale ledger never collide, no exception is reachable, completions are final, stops are clean; `ComputeDoneSound` with one generation |
| `worker_indirect` | 3 rows, batches of 1-2, 3 Draft WORKs, control submits the host-to-device copies, shutdown at any time | rows never leak or are shared, the ledger's reservation always suffices, no exception is reachable without the lane either; types |
| `worker_liveness` | 2 rows, 2 WORKs with shutdown, fair | every authorised WORK is retired, every stop joins |
| `worker_recycle` | 2 generations | a disagreement, below |

Bounds. `MaxWorks = 3` is what it takes to have a current, a pending and a
successor WORK on one Bank, and to reuse a Bank whose completion the Engine saw
late; one or two physical rows are enough for the Banks to compete. Without
direct imports a Bank never has a pending WORK, so two WORKs cover both Banks.
The liveness run uses `DRAFT_INITIAL`, which has the two dependencies that can
skip a WORK and no source. `CHECK_DEADLOCK FALSE` is set there only because a
worker nobody sends anything to may rest; the other runs check for deadlock.

Fairness. Each of the four processes is a loop that polls its inputs on every
turn or wakes by a bounded wait, so each is weakly fair as a whole. That
includes the arrival of dependency facts: the peers publish them eventually. The
Engine is only assumed to keep reading rows and completions, not to submit or to
stop.

### A disagreement

`WorkLedger.refresh` (`engine/work_ledger.py:176`) takes the cached worker row
whose batch sequence equals a WORK's as proof that the WORK was computed,
without comparing generations. `CohortRecycler` keeps those rows across a
restart and gives the new ledger sequences from 1, so the first WORK of the new
generation is taken for computed at once. `docs/current/PROTOCOL.md:18` says "A
slot, sequence or Bank id without its generation is not a durable key." The run
`worker_recycle` shows it; in a single generation `ComputeDoneSound` holds
(`worker_direct`).

## SharedTable

`SharedTable.tla` models a worker's partition of the shared tables with its
change ring, and the Engine's `NativeReader`, one memory access per step
(`src/nebulasd/csrc/control_plane/native.cpp`, `reader.cpp`, `table/`, `ipc/`).

A publication is: mark the row's sequence word invalid, patch some of the
fields, store the next sequence, push a hint (or raise the overflow flag when
the ring is full), ring the doorbell word. A poll of the reader is: clear the
door, take the overflow flag and the tail of each ring, drain hints up to the
budget, begin a recovery scan after an overflow, then read the priority rows, the
hinted rows and the next rows of the scan, each by word, fields and word again
with a bounded number of retries. The
Engine then takes the batch and sleeps on the doorbell; between cohorts it resets
the reader and the tables (`Reset`).

Abstractions: a field is one memory access and its value a publication number;
rows the reader is not registered for only fill the ring. Versions are compared
modulo the sequence space as in the code, and the publications of a row between
two barriers are bounded by `MaxPublications`, assumed to be less than half of
that space. The pure Python
twins are `LocalTable`, below.

`AtomicTable.tla` is the promise: a publication changes a row at once and an
observation returns the current row and never an older one than before.

| Run | Instance | Shows |
| --- | --- | --- |
| `table_reads` | 1 row of 2 fields, any subset patched, a priority row, 1 row the reader ignores, a barrier; 3.67 million states | the lock-free row implements `AtomicTable`; `has_pending`, the doorbell and the hints stay truthful across the barrier |
| `table_liveness` | 2 rows, ring of 1, budget of 1, a barrier, fair; with `LocalTable`, 395,918 states | with overflows and scans that span polls no committed publication is forgotten at any step (`NothingForgotten`), a poll never exceeds its array, and both readers come to hold the last publication of every row (`ReadersCatchUp`) |

Bounds. A ring of one entry with a budget of one is the smallest instance in
which an overflow, a scan cut off by the budget and a second overflow during
that scan all happen; two publications of each row are enough for a read to
span a whole publication, and one barrier for hints, seen versions and scans of
the old cohort to meet the new one.

Fairness (`FairTables`). The Engine's loop is weakly fair, because the doorbell
wait always ends after a millisecond, and a writer that has begun a publication
ends it. Nobody has to begin one.

An observation: the code pushes a row back as a hint when its retries are
exhausted. Completeness does not depend on that, because a conflict means that a
publication is under way which will hint itself; it only shortens the delay.

### LocalTable

`LocalTable.tla` is the table inside one process: publishers are threads, rows
are a `bytearray` written under the same sequence protocol (`cell`, `author`),
rings are deques with a lock (`hints`), and the reader is
`IncrementalTableReader` (`cache`, `poll`). `BeginPublish`, `StoreRow`,
`CommitRow` and `PushRow` are a publication; `StartPoll`, `DrainRing`,
`PlanPoll`, the reads (`LoadWord`, `CopyRow`, `Capture`, `Conflict`) and
`ReportPoll` are a poll, with `max_entries` None (every hint, then a
comparison of all sequences after an overflow) or a budget (hints and scan share
it). Its sequences do not wrap, which is `SharedTable`'s subject, and the
thread doorbell is left out: the reader may poll at any time.

It runs in `table_liveness`, in both modes, with three rows of which one is a
priority row: a row is missed at no step (`NoRowMissed`, which `NothingForgotten`
joins with `Covered` and `NothingMissed` of `SharedTable`), a view is one
publication and hints name rows that are there (`LocalReaderSound`), and the
reader catches up (`LocalReaderCatchesUp`, the second half of `ReadersCatchUp`). The cohort barrier is
taken only by the bounded reader, as in the code: the Engine's reader is made
with `max_entries=128` (`engine/core.py:46`). An unbounded reader would lose the
hints of worker rows there, because `reset_pending` drops hints of every kind
while the barrier invalidates only request rows.

## RequestPipeline

`RequestPipeline.tla` follows requests through Draft and Target workers.

| Variable | Code |
| --- | --- |
| `eng` | the Engine: `req` (lifecycle, output count and last consumed round: `OutputManager`), `issued` (the dispatch rows), `rows` (its cache of the shared rows), `records` (`WorkLedger`), `pending` (WORKs that met a full ring), `sequence`, `dirty` and `occupied` (the workers each stage is to be planned for, and the Bank rows last seen: `WorkProgress`) |
| `rows` | the shared request rows: import, result and host row of each role |
| `jobs` | the WORKs workers have accepted: open watches, captured rows, skipped members, what has been published |
| `completions` | completion records not retired |
| `failure` | the exception that stopped the system |

| Action | Code |
| --- | --- |
| `Admit` | `RequestRegistry.admit` |
| `Observe` | `Engine.step` up to `advance`: `apply_facts` for any part of the changed rows, `observe_completions`, `refresh` |
| `Schedule`, `Resend` | `WorkProgress.advance`: one plan or one pending WORK, with `build`, `freeze_import`, `dispatch_work`, `publish_dispatch` and the poll and refresh at the end of the phase |
| `Capture` | `Dependencies.poll` for one watch |
| `PublishImport`, `Compute`, `PublishResult`, `PublishHost`, `Complete` | the inputs, the backends and the publishers of both roles, one row per step |
| `Idle` | nothing left to do, or the Engine is poisoned |

Every `raise` of `work_ledger.py`, `dependencies.py`, `draft/inputs.py`,
`target/inputs.py` and `target/publication.py` that a legal run could reach is a
step to `failure`, so that `NoFailure` says that none of them is.

Abstractions. A worker group is reduced to the turns of its Banks. The fence of
worker, generation, Bank and epoch that results carry is the key of the WORK
(worker and sequence); `publish_seq` is "the row differs from the cached one",
which is the same because a row is never published twice with one content and a
dropped row can never become acceptable. Tokens are counted, not named: a
verification commits any number that acceptance can give, and a stop token may
come at any point. The scheduler may choose any batch that fits and any worker
with capacity; the cost model only narrows that choice. The import
rows, which only the ledger's validation reads (`ImportRows`), Bank rows seen
later than request rows (`LateRows`) and rings that may be full (`FullRings`)
are switched on in `pipeline_direct`.

Wake-ups. `WorkProgress.advance` plans a stage only for its dirty workers, and
every event marks some of them: an admission, an applied fact, a sent WORK, a
retired record, a freed Bank. `Wake` is applied where the code calls `_wake`,
with the same workers, and `Schedule` takes a plan for dirty workers only and
clears them. `NoStrandedWork` says that the events wake enough: whenever what
the Engine holds allows some request of a stage on some worker, that stage has a
dirty worker it can be planned for, or a WORK to send first.

`SequentialDecoding.tla` is the promise: prefill, propose, verify, propose,
verify, one after the other, for each request. The refinement mapping takes
output, rounds and proposals from the published rows; the pipeline runs ahead,
but the rows change exactly as the loop would change them.

| Run | Instance | Shows |
| --- | --- | --- |
| `pipeline_rounds` | 1 request of 3 tokens, 2 Banks, control-submitted imports | refinement of `SequentialDecoding`, results accepted in turn, one writer per host KV, the admission budget, no exception |
| `pipeline_direct` | 1 request of 2 tokens, direct imports, 1 Bank, full rings, import rows, late Bank rows, fair | a WORK queued behind its predecessor's export or sent long after it was frozen stops nothing, late copy rows are matched or dropped, no event forgets a wake-up, and the cohort becomes quiescent: requests finish, all WORKs retire |
| `pipeline_batch` | 2 requests of 2 tokens, direct imports, 1 Bank and 1 credit per worker; 204,689 states up to symmetry | no exception and no deadlock for any way of batching |

Bounds. Three tokens with proposals of one give three Target rounds and make a
Draft WORK run ahead of both the end by the limit and the end by a stop token.
`PollBudget` limits the rows of one poll so that the Engine sees the rows of a
round in every order and in pieces; whatever it does not see in one poll it may
see in the next. Two requests on one Bank with one credit per worker are the
tightest resources in which a Draft batch and a Target batch can wait for each
other. `Symmetry` permutes the requests, which nothing distinguishes; it is not
used for liveness.

Fairness. `FairSpec` assumes weak fairness of `SystemStep` alone, that is of all
the loops together: they do not all stop while one of them can do something.
Between the Engine, the stages and the workers nothing is assumed, because every
step brings the cohort closer to its end. Clients need not send requests.
`BecomesQuiescent` also says that no exception is raised in `pipeline_direct`,
not even by the copy rows that are observed when everything has retired.
`CHECK_DEADLOCK FALSE` is set in `pipeline_direct` only, where the property itself
says in which states the system may rest.

## RequestRows and DispatchPlane

`RequestRows` is one row of the scheduling table with a record per partition and,
for each writer of `table/`, the fences it checks and the fields it publishes,
the epoch reset of the dispatch partition included. `DispatchPlane` is the path
of a command over such rows.

| Action | Code |
| --- | --- |
| `SendPrefill` ... `SendDraftRun` | `HotCommandDispatcher.dispatch`: preflight of the contracts, then the ring |
| `PublishDispatchFact` | the dispatch row of one member; after the last one the prepare is frozen or consumed and the doorbell rung again |
| `Consume` | `DispatchFencedConsumer.consume`: hold, refuse, or apply to `WorkerCommandCache` |
| `Validate`, `PublishHeld` | the two halves of a publication by a worker: check of the fences, write of the row |
| `Admit`, `Finish` | the Engine opens a slot for a new request and closes it |

The scheduler is external: it may send whatever the facts it has seen allow,
prepare a Draft from any snapshot it ever saw, and place a request on any worker;
it prepares a Target for the next round only after the result of the last,
because prepare and run share the `planned_target` fields of the row
(`scheduler/commands.py:174`), and it never discards a prepare, because
`DraftDispatchContract` could not forget it. A slot is reused when nothing of the
old request is left, as the Engine's barrier has it.

Abstractions: a Bank's id, epoch and batch sequence are one batch number;
workers do not restart, so their generations are left out; the members of a
command are judged together, since the consumer looks at all of them before it
returns.

Run `dispatch_plane`, 619,789 states up to symmetry: one request in a slot that
served another one before, migrating between two Drafts, through two rounds with
its Target; and a batch of two fresh requests. It shows that no command is
refused once it is in a ring (`CommandsAccepted`), that batches run on the KV
version and lifetime they name and announced host copies are there (`KVAsNamed`), that what a writer checked holds when it writes, that rows never mix two
lifetimes, and that no command waits for a wake-up that was spent too early. Two
Drafts are what a migration needs, two epochs what a reused slot needs.
`CHECK_DEADLOCK FALSE`: at the bounds the scheduler stops.

## Host KV: HostKVAllocator, HostCopies, CopyStreams

`HostKVAllocator` is the first-fit free list as operators on a record.
`HostCopies` adds what the copies of several workers share: the allocation rows,
pin words, D2H rows and the arena's blocks. A copy (`job`) loads the pin, swaps
it (`LoadPin`, `SwapPin`), checks the facts and publishes IN_D2H for an export
(`CheckFacts`), moves one block per step (`WriteBlock`, `ReadBlock`), publishes
(`PublishCopy`) and releases the pin by load and swap again. A block holds for
each of its positions whether and for which length it was written. Targets
compute at any time; the Engine recycles an extent when nobody copies it. The version
of a request's KV is its length. A slot has one allocation in a request epoch
(`engine/request_registry.py`), so its slot generation and writer lease follow from the
epoch, and the raise for a D2H row whose fence differs in them only
(`kv/host_facts.py:104`) is not modelled.

`CopyStreams` is `BankCopyExecutor` with its two `CopyExecutor`s and
`CudaCopyBackend`s: the owner's thread submits and closes, each job thread
initializes, cuts its plan into chunks, launches groups of chunks and waits,
the GPU works off each stream in order, the producer's event comes at any time,
and any CUDA call may fail once (`MaxFaults`), those that create a stream, register
host memory and destroy a stream included. The pool registers host memory
for both.

Both run in `worker_direct`, beside `WorkerRuntime` (module `WorkerNode`): two
copiers over one copied extent of at most two blocks, the second one partly
filled at length three, a second slot that only fragments the arena, two
allocations of a slot; plans with empty regions, a region above the chunk budget,
and with and without a group. They are checked for deadlock except where they may
rest (`AtRest`). `ExtentsOwned` says that every block has one owner and that the
pin word counts who is inside an extent, `CopiesIntact` that no copy reads or
leaves a mixture of versions and none is refused, `CopiedInFull` that a plan is
moved whole and after its producer, `CloseIsClean` that closing leaves nothing in
flight over memory that is no longer registered. `initialize` called again after a failed registration would go on
without one (`kv/cuda_transfer.py:70`); nobody calls it, because the executor stops
for good at its first failure.

## SessionMemory

Admission checks the worst case of a request against every arena, writes prompt
and configuration, reserves the output region and allocates two extents
(`Admit`). WORKs reserve completion records and Draft payloads, write them,
append output and end (`IssueWork`, `ReservePayloads`, `Complete`). When every
request is done the cohort retires (`Retire`), extents, arenas and budget are
recycled and the restarted workers attach again (`RecycleCohort`). The Engine's
and the workers' attachments of an arena are separate variables, because each
process has its own head and generation and only the published extent is shared.

Runs: `node_services` (module `NodeServices`, with the two parts below; about
1.01 million states up to symmetry) shows that admission never fails half way and that
the budget of the first cohort covers what its requests write on whichever worker
they run (`AdmissionKept`), that handles name their own payload only and that
handles of an earlier cohort are rejected (`HandlesNamePayloads`). Three request shapes (one token, two tokens with a stop
token, one too large) fill the arenas of 1000 bytes to within one request, over
two cohorts. `session_recycle` shows a disagreement.

### A second disagreement

`SessionBudget` promises that an accepted request never meets an exhausted arena
(`engine/admission.py:28`). `recycle_quiescent` publishes the empty extent only
through a writing attachment (`data/shared_arenas.py:50`), but the Engine attaches
the Draft arenas read-only (`engine/resources.py:82`), and the restarted Draft
process resumes at the extent that is still published (`workers/resources.py:28`).
The budget starts from zero again, so that in a second cohort an accepted request
can exhaust the arena: the run `session_recycle` finds that state.
`FirstCohortFits` holds.

An observation on the same barrier: generations advance by
`len(self.tokens) + 1`, which is 2, while Draft arenas start at generation
`worker_id + 1`. With three Draft workers of successive ids the second cohort of
one meets the first cohort of another, although `data/shared_arenas.py:39` says
"Stride preserves each writer's namespace." With two Draft workers, as
in the run, `RetiredHandlesRejected` holds; with `DraftIds = {0, 1, 2}` it does
not. Nothing in the code keeps a handle across the barrier, so this stays an
observation.

## CommandTransport

Two transports with one specification: `CommandRing` with the circular
`CommandArena`, where dispatch and consumption are one step each, and the native
ring between two processes, where allocation, header, peek, payload and
acknowledgement are separate steps. A byte of the arena holds the number of the
command that wrote it. Sequence numbers wrap at `SeqModulus` and may skip those
of other workers. A ring serves one generation of its worker, so the fence of `consume`
against another one (`ipc/command_ring.py:80`) is left out. With four slots, five bytes and payloads of one to three bytes
the circle wraps, is full with head = tail, and discards refused payloads; six
commands wrap the sequence numbers (modulus 5). It runs in `node_services`;
`CommandsDelivered` says that queued payloads are not overwritten, that the worker
gets commands in order with their own payloads, that no path leaks bytes of the
arena and that neither the ring nor the consumer refuses a sequence number.

## The SwiftLLM target process

| Module | Code |
| --- | --- |
| `KVBanks` | `worker/block_manager.py` in double-bank mode: ranges, bump pointer, roles, epochs, block table |
| `TargetWorker` | `server/target_worker.py`: sessions, rows, the batch lock; a batch is prepared, run on the executor and finished back on the event loop; a verification adapts its sessions before it waits for the lock (`AdaptRow`) and is finished in three steps (`VerifyAccept`, `VerifyCrop`, `VerifyFinish`) |
| `TargetFacade` | `server/starsd_target_facade.py` and `starsd_async_operations.py`: reservations, asynchronous copies, activation, protection, export, release, abort |
| `LocalTarget` | `server/starsd_process_local_facade.py`, `starsd_copy_support.py`, `starsd_compact_target.py`: the same for an owner in the process that holds leases |
| `TargetProcess` | a process behind one of the two facades |

A physical block holds a request and a position of its KV, so that the
contents of ranges can be compared with what a verification is going to read.
Calls are atomic on the event loop except those that await the executor; a call
that is rejected changes nothing, but for a verification, which may be rejected after
it has adapted sessions (`target_worker.py:276`), and a forward pass, which may fail
behind the allocation of blocks or the writes of KV (`ModelForward`). The client of
`TargetFacade` is external. It makes any call at any time, except that

* it reserves a range for a request only after it has released the request's
  prefill, and not while an export of the request is in flight;
* it releases a range only after the imports of the request have ended, and a range
  it has protected only after the export of that range has begun;
* it protects a Bank before it exports;
* while a verification runs or waits for the lock, it activates no batch, and it
  neither exports nor releases a range that is being verified.

The facade checks none of these (`release`, `stage_dirty_to_host`,
`reserve_standby_batch`), so what is shown holds for clients that keep them.
A repeated call that is answered from what the facade remembers of the first one
(`_released`) changes nothing and is left out.

The owner of `LocalTarget` follows its leases. A compact verification that raises
(`starsd_compact_target.py:102`) has no action: nothing in the execution process
catches it (`workers/isolated.py:256`), so the process ends with everything the
module models, and no lease is used after it.

It runs in `node_services`: two requests, two rows, Banks of six blocks, three
rounds, three batches, one export and one abort, both facades. Two requests are
what it takes to swap a Bank away under another request's copy; three batches
reuse a Bank after both were used. `BanksConsistent` relates ranges, pointers and
block table, `RowsOwned` the rows with sessions and reservations, `ContentsIntact` the contents
of activated ranges with their requests (`KVIntact`, `LeasedKVIntact`) and what
the client believes to be on the host with what is there (`HostIntact`), and
`LeasesCurrent` what the owner of a lease remembers with the range.
`CHECK_DEADLOCK FALSE`: at the bounds of rounds, cohorts and commands nothing is
left to do.

Not claimed: a failed forward pass keeps the session of a prefill, its row and its blocks
(`target_worker.py:927`), a release that mixes reservations and prefills awaits
between the two halves (`starsd_target_facade.py:1124`), and the pointer of the
active Bank is lowered by no release, so that prefills fail in the end until a
swap and a reset (`block_manager.py:218`). Whether these are intended is nowhere
said; the model follows the code in the first and the last, and its client does
not mix releases.

## Proofs

The only assumptions on the constants are the named `ASSUME`s of `WorkerRuntime`,
`SharedTable`, `RequestPipeline`, `DispatchPlane`, `CommandTransport` and
`SessionMemory`, none of which bounds a size from above (a request of
`SessionMemory` has a prompt and asks for at least one token, and an arena has
blocks: `RequestRegistry` refuses an empty prompt, `GenerationConfigArena` a limit
of zero tokens, `SharedHostKVArena` an empty arena or block), and for the theorems of `DispatchPlane` the hypothesis `NoneIsNoRecord`:
the value that stands for "nothing" is none of the records it is compared with,
as `None` is no command in the code (a model value in the run). `EXTENDS` chains
the modules of one component: `WorkerRuntimeProofs` (types and rows, a
Bank and its WORKs), `...StepProofs` (every operation of the
Runtime), `...GroupProofs` (the other processes, and the theorems). The other
components have one module of proofs each, but for the two small ones in
`NodeProofs`.

| Theorem | Statement |
| --- | --- |
| `TypeCorrect`, `RowsAlwaysPartitioned` | the types; the rows of a group are free or in one Bank's layout |
| `NeverFails` | no `raise` of the Runtime, the lanes, the Banks or the ledger is reachable |
| `RowsAlwaysAvailable` | `Lowest` always finds the rows a layout asks for |
| `BanksNeverShared` | compute and DMA never hold one Bank at the same time |
| `CompletionsFinal` | a WORK with a completion record is in no record, Bank, lane, pipe or job any more |
| `StopsAreClean` | when execution stops, every row is free, the lanes and their pipes are empty and no WORK is left on the ring |
| `FirstGenerationSound` | until the first recycle, `compute_done` in the ledger is true of the group |
| `TableInvariant`, `TableIsAtomic` | seqlock reads are reads of an atomic, versioned register (refinement of `AtomicTable`) |
| `WakeupsArrive` | when the Engine may sleep, a ring with a late hint or an overflow has rung the bell or is about to |
| `HintsStayBehind` | no change ring names a version its row has not reached |
| `NothingDropped`, `NothingMissing` | a publication not yet captured has its hint on the way or a recovery ahead; a Reader with nothing pending holds the latest publication of every row |
| `OutputBounded` | a poll reports at most the budget of rows besides the priority rows |
| `PipelineSafe`, `PipelineNeverFails` | the inductive invariant of the pipeline; no `raise` of the ledger, dependencies, inputs or publication is reachable |
| `EveryResultAccepted` | a result is accepted before the next one can replace it; the client is told what Target published |
| `HostHasOneWriter` | the host KV of a request has one writer per role at a time |
| `BudgetSuffices` | a request never needs more WORKs of a role than it may have output tokens |
| `PipelineDecodesSequentially` | what the workers publish is a behaviour of `SequentialDecoding` (refinement) |
| `NobodyStranded` | a stage that some worker could serve has a dirty worker it can be planned for, or a WORK to send first |
| `StreamsInvariant`, `ClosesAreClean` | closing the copy executors leaves nothing that uses the host memory, whatever CUDA call fails |
| `TransportInvariant`, `CommandsAreDelivered` | `CommandsDelivered`: commands arrive in order, each with its payload, through rings and arenas of any size |
| `MemoryInvariant`, `PayloadsAreIntact` | the inductive invariant of the payload arenas; a payload is readable in its own arena only and never written over |
| `PayloadsAreNamed` | `HandlesNamePayloads`: neither is a handle of an earlier cohort ever accepted, when the Draft workers' ids are less than a stride apart |
| `SessionInvariant`, `AdmissionIsKept` | `AdmissionKept`: what the budget accepted is allocated as a whole, and the rounds of the first cohort find room |
| `DispatchInvariant`, `CommandsNeverStranded` | a worker with a command whose facts are visible is awake |
| `OneLifetime` | the dispatch fields of a row are of one lifetime of its slot |

**Rows of a worker group** (`WorkerRuntimeProofs`). Neither `TypeOK` nor
`RowsPartition` is inductive by itself: that a release gives back the right rows
depends on *which* WORK is released. The inductive invariant `Inv` adds to the
types, for the Runtime record `r`: `Partition` (the rows), `Owned` (the WORKs a
Bank names are its own, not yet physically done, and the pending one differs
from the current one), `JobsOfCurrent` (only the current WORK of a Bank has
jobs) and `ComputeTracked` (the job on execution's ring belongs to a known
WORK). `UpdateInv` states once what a change of one WORK and its Bank has to
respect; there is one lemma per Runtime operation, each reduced to `UpdateInv`.

**A worker group as a whole** (`WorkerRuntimeGroupProofs`, on the three modules
before it). That control never raises an exception does not follow from control
alone: it relies on what the Engine reserved, and the Engine reserves from rows
that may be old. `GroupSane` therefore relates the processes:

* `Sane(rt)`: for each Bank, the phase, the jobs and the receipts of its current
  WORK fit together (`BankSane`), a WORK that is not the current one has done
  nothing yet or has ended (`RecordsSane`), the rows of the Banks' WORKs fit the
  group (`WidthsFit`), the command on execution's ring is that of the running
  job (`CommandSane`), and nothing has failed;
* `RingSane`: the WORKs on the ring are in order of sequence, newer than all
  accepted ones, and only `SHUTDOWN` follows `DRAIN`;
* `LedgerSane`: the authorisations the Engine still holds cover every WORK that
  is queued or accepted, their epochs grow with their sequence, and they reserve
  at most two WORKs per Bank, of widths that fit whatever order they run in;
* `LanesSane`: a direct lane serves the WORKs of its Bank in order, and a WORK of
  the Bank waits on the pipe, has the lane, or has left it;
* `ExecSane`: execution answers `COMPUTE` and `SHUTDOWN` only when told to.

Control's operations change many WORKs at once, so that what they do is said
once: `Evolves(r, q, receipts)` lists the ways a State may change (`StateEvolves`)
and each operation of `...StepProofs` is shown to keep `Sane` and to evolve. The
ring, the ledger, the lanes and execution are then kept by one lemma for all
steps of control (`EvolvesGroup`), and one lemma for each of the other
processes. The five safety theorems follow from `Inv /\ GroupSane` without
temporal reasoning.

`ComputeDoneSound` needs the rows the Engine has *read*: `ClockSane` says that the
clock, published or cached, names a computed WORK, that a cached Bank row is not
ahead of its Bank, that an authorisation whose cached Bank row shows its Bank
drained is over, and that every authorised WORK is on the ring, in the records or
completed. The theorem is about
the first generation (`eng.generation = 1`): after `Recycle` the rows of the old
group are read against the new ledger, and the run `worker_recycle` shows
that the property then fails.

**The seqlock** (`SharedTableProofs`). That a read with equal first and last word
is a snapshot needs a relation between the copy in progress and the row it is
copied from. `TableInv` has the parts `Shapes` (types), `Writing` (a writer
between the two stores holds the next sequence and the row's word is invalid),
`Settled` (a valid word means the row equals its last committed snapshot),
`Reading` (an attempt whose first word is still the row's has copied fields equal
to the row's so far) and `Observed` (what has been captured was committed, and is
not newer than the row). With it every step of `SharedTable` is a publication, an
observation, a barrier or a stutter of `AtomicTable`.

**The incremental reader** (`SharedTableProofs`), on `TableInv`:

* `ReaderInv`: the Reader's program points and what its variables hold there, and
  that a worker that announces a publication still holds its row at that version;
* `Doorbells`: a raised door has a bell, a worker about to ring it, or a drain
  that will clear it and look behind it;
* `HintsInv`: what a hint in a ring, in the queue or in hand names has been
  committed;
* `CoverInv`: every `Owed` row, committed but not captured, is `Safe`: it is being
  announced, its latest hint is in its ring or pending, a recovery is ahead of
  it, or it is being captured at that version; and hints copied from a ring are
  pending before the head moves (`Copied`);
* `Agreement`: a capture with the committed sequence is the committed snapshot;
* `BudgetInv`: the entries reported, and the one a capture in progress may add, are
  within the turns this poll has taken.

`CoverInv` is stronger than `Covered` where a scan has just inspected a row and
must read it again: then the hint that a failed capture repeats is what covers
it, not the scan.

**Rounds in flight** (`RequestPipelineProofs`). Why a worker never finds a
dependency overwritten, a prefix that does not continue, or inputs that disagree
depends on every copy of every row: those in shared memory, those the Engine has
accepted, those a WORK has captured and those it has computed and not yet
published. `PipelineInv` says for the Engine `e`, the rows, the jobs and the
completions:

* `Content`: every copy (`Item`) of a request's rows is well formed and any two
  agree: a round has one content, a proposal continues the output of the round
  before it, a verification commits at most one token more than the proposal and
  follows an open output;
* `Frontier`: per role, host KV and accepted rows are not ahead of the published
  row, nor that ahead of what has been issued, and the Engine has accepted all but
  at most one issued round (`Order`); Draft is ahead of Target by at most one
  round (`Chain`); the client's view is the accepted Target row (`Told`);
* `OneOwner`, `ImportsMatch`: a round has one WORK, whether a row or a record
  names it, and an import row carries the version that WORK froze;
* `Ledger`, `Held`, `Kept`: the records are the running and the completed WORKs,
  and the record of a published result stays until the result is accepted;
* `JobSane`: what each job waits for, has captured and has produced is what its
  authorisation says, and no row it still waits for has gone past it;
* `Pending`: a WORK that met a full ring can still be sent as it was frozen.

The three groups of steps need different parts. A poll (`PollGood`) uses `Kept`
and `OneOwner` to accept every changed row; sending (`SendGood`) uses `Order` and
`Chain` to see that a round is new; a worker's steps (`CaptureKeeps`,
`ComputeKeeps`, `PublicationGood`) use `Content` and `JobSane`. The lemmas are
about any Engine `e`, so that a dispatch followed by a poll is one composed with
the other. The safety theorems then follow from the invariant; for the refinement
each publication of a result is a step of `SequentialDecoding` and every other
step a stutter. Only `PollBudget`, `ImportRows`, `LateRows` and `FullRings` bound
what the runs explore; the proof holds for each of their values.

`NobodyStranded` needs a second invariant, `Woken`: each worker that could take a
WORK *by itself* is dirty, where a WORK that waits for a full ring has taken its
members and its worker out of the question. `NoStrandedWork` is about the stage as
a whole and is not inductive: a stage may be plannable through one dirty worker
while another was forgotten. What opens a worker (a result, a host row, a Bank row
that turns empty, a completion, a retired record, an issued round of the other
role) wakes it in the same step.

**Copy executors** (`NodeProofs`). `StreamsSpec` is the next-state relation
of this part alone. `StreamsInv` follows one lane through its states: whoever has
work on its stream holds the registration (`LaneRegistered`), a cleanup comes
behind the last job and releases behind the last copy (`LaneClosing`), the pool
counts the lanes that hold it (`PoolCounts`), and the owner has joined both lanes
when it is through (`OwnerCloses`). Plans and chunks play no part in it.

**Command transports** (`NodeProofs`).
`TransportSpec` is again the next-state relation of the part alone. `TransportInv`
has the parts `TransportShape` (types; a header that is taken is the one at the
head), `PayloadsKept` (the bytes of every queued or pending header hold its
number), `NumbersFollow` (numbers grow through the ring, each at most two ahead of
the one before; the producer remembers the last, the consumer the one delivered),
`NativePlaces` (an entry's payload lies in the slot of its position) and
`LocalPlaces` (the arena has one allocation per entry, in the same order). What
needs care is the circle: `CircleOk` unrolls it behind its tail, where the
allocations that have wrapped come after those that have not, and says that each
ends before the next begins and the last before the tail comes round again. With
it a reservation is apart from everything queued (`ReserveFits`,
`AllocationsApart`), a discard restores the circle (`DiscardUndoes`), and a release
moves the tail behind the entry delivered (`CircleShrinks`). The wire tells a
number from the two behind it, since `SeqModulus` is greater than 4 (2^64 - 1 in
the code).

**Payload arenas** (`SessionProofs`). `MemoryInv` says that every arena is in the
cohort's generation of its own name space, on the Engine's side and the worker's
(`Namespaces`), that a writer has published what it wrote (`HeadsPublished`), that
the live handles are of this generation, published, and apart (`LiveHandles`), and
that the others are at least a stride behind their arena (`RetiredHandles`). A
writer appends behind its published extent (`HandlesAdded`), and no extent ever
shrinks while a handle of the cohort is live. `PayloadsAreNamed` has the hypothesis
`NamespacesFit`, that the workers' ids are less than a stride apart: without it
the statement is false, as the observation under [SessionMemory](#sessionmemory)
tells. The bytes a Draft WORK reserves are a sum over its batch (`MapThenSumSet`);
that it is a natural number is an induction on the size of the batch, made as a
least counterexample with the library's theorem on well-founded orders
(`LeastNumber`, `SumExists`, `SumOfNaturals`).

**The budget of a session** (`SessionProofs`), on `MemoryInv`. An admission only
compares totals, so that the invariant has to relate each total to what the
requests of the cohort do one by one:

* `Charged`: the used completions and payload bytes are sums over the requests
  (`Total`), and tokens and configurations are what the Engine's arenas hold;
* `RoundsBounded`, `Receipts`, `Drafted`: no request runs more rounds than it was
  charged for; completion records have places of their own below what the issued
  rounds have reserved; in the first cohort a worker's arena holds at most what
  the rounds that have reserved their payloads wrote, wherever they ran. Later
  cohorts are left out there: the recycled Draft arenas keep their extents, which
  is the disagreement `session_recycle` shows;
* `ExtentsInv`: the extents of host KV lie one behind the other, the used blocks in
  all, and the free list is the rest, so that first fit never meets a gap. A
  recycled cohort gives them back in that order, which leaves one range (`Freed`,
  `GiveBackAll`).

The room for one round more is what its members were charged and have not written
(`RoomForReceipt`, `RoomForPayloads`). The sums and the folds of the community
modules (`MapThenSumSet`, `FoldLeft`, `FoldLeftDomain`) are recursive functions on
sets; `TotalOfBatch` and `FoldInOrder` say what they compute, each by a least
counterexample. For the proof the list of free ranges is put in order by an
insertion (`Inserted`): the code sorts a list that is sorted but for one range.

**Commands and their facts** (`DispatchPlaneProofs`). A worker sleeps over a command
whose facts it does not see, so that a wake-up spent too early would strand it.
`DispatchInv` says that every member of every command in a ring or in hand is
`Shown` by its row, or `Left` to publish by the dispatcher that will wake the
worker again; that what is shown stays shown rests on sequences that only grow and
on slots that are admitted again only when no command names them. Rows are
combined with `Over` (`RequestRows`), a function spelled out where `@@` would do,
since the provers have no definition of the latter.

**Model-checked only.**

* `CommandsAccepted`, `KVAsNamed` and `FencesHold` of `DispatchPlane`: they need an
  invariant over all partitions of a row and the commands still to come.
* `LocalTable`, `HostCopies` with its allocator, `CopiedInFull` of `CopyStreams`, and
  `BanksConsistent` of the target facade: their operations fold over sequences and
  over extents that are taken and given back in any order, so that a proof needs
  what such a fold (`FoldLeft`, a recursive function) computes. The library's
  induction theorems cannot be used; a least counterexample on the indices can
  (`TotalOfBatch`, `FoldInOrder`), and is there for `SessionMemory` only.
* `RowsOwned`, `ContentsIntact` and `LeasesCurrent` of the target process.
* Liveness under fairness (`EveryWorkEnds`, `ReadersCatchUp`, `BecomesQuiescent`).
* `ComputeDoneSound` beyond the first generation, which is false.

## Not modelled

* GPU kernels, the forward pass and hidden states, token values: no state
  transition of the rest depends on them except through counts, which are left
  open;
* schedulers and the cost model: batches and placements are chosen freely in
  `RequestPipeline` and `WorkerRuntime`, so that what they show holds for every
  choice; the algorithms themselves are in the plan;
* binary encodings, mapped segments, process start-up and supervision, NUMA
  placement, profiling;
* the single-pool mode of the block manager with its swap to CPU, and the
  stand-alone SwiftLLM server, which NebulaSD does not use;
* `DraftHostKVFacts` (`kv/draft_host_facts.py`), whose export calls a function that
  the repository does not define, and the thread doorbell (`ipc/doorbell.py`);
* the idle timer and the polling of the client (`engine/client_idle.py`,
  `engine/client.py`).
