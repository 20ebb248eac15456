--------------------------- MODULE SessionMemory ---------------------------
(***************************************************************************)
(* The memory of a session: admission with its worst-case budget           *)
(* (engine/admission.py, request_registry.py), the append-only payload     *)
(* arenas of the Engine and of the Draft workers (data/, workers/          *)
(* completion.py) and the cohort barrier that recycles them                *)
(* (engine/recycling.py, resources.py, workers/resources.py).              *)
(*                                                                         *)
(* A request issues at most `new` WORKs of either role: RequestPipeline    *)
(* checks that (WorkBudget) and this module relies on it.                  *)
(***************************************************************************)
EXTENDS HostKVAllocator, FiniteSetsExt

CONSTANTS AdmissionSlots,   \* request slots of the tables
          DraftIds,         \* worker ids of the Draft workers
          PayloadCapacity,  \* bytes of every payload arena
          HostArenaBlocks,       \* blocks of each HostKV arena
          KVBlockSize,      \* tokens of a block
          Shapes,           \* the requests clients send: [prompt, new, depth, stops]
          MaxWorkRows,      \* rows of the largest batch
          MaxCohorts        \* bound on the cohorts of a session

\* Worker ids and sizes are natural numbers; a request has a prompt and asks for
\* tokens, and an arena has blocks.
ASSUME MemoryAssumption ==
    /\ DraftIds \subseteq Nat
    /\ Shapes \subseteq [prompt : Nat \ {0}, new : Nat \ {0}, depth : Nat, stops : Nat]
    /\ AdmissionSlots \in Nat /\ PayloadCapacity \in Nat
    /\ HostArenaBlocks \in Nat \ {0} /\ KVBlockSize \in Nat \ {0}

VARIABLES registry, \* [records, used, cohort, state] of the Engine
          hostkv,     \* the HostKV allocators of the two roles
          segment,  \* published extent of every arena, in shared memory
          engine,   \* the Engine's attachments: generation and head of every arena
          worker,   \* the Draft workers' writing attachments
          done,     \* [next, written]: the completion arena
          sent,     \* WORKs issued and not completed
          handles   \* [live, retired]: payload handles of this and of earlier cohorts

memoryVars == <<registry, hostkv, segment, engine, worker, done, sent, handles>>

Kinds == {"target", "draft"}
SlotIds == 0 .. AdmissionSlots - 1
DraftArenas == {"proposals", "snapshots"} \X DraftIds
EngineArenas == {"tokens", "configs"} \X {-1}
Arenas == EngineArenas \cup DraftArenas

\* DraftSnapshot.byte_size.
SnapshotBytes == 200
\* completion_bytes: flag, header and one record per member, rounded to words.
CompletionBytes(n) == ((8 + 40 + 24 * n + 7) \div 8) * 8
\* cohort_completion_budget: a WORK of either role per new token, and four more.
CompletionBudget(new) == (2 * new + 4) * CompletionBytes(1)
\* write_token_batches: four bytes per token.
TokenBytes(n) == 4 * n
\* _encode_payload of a proposal of n tokens.
ProposalBytes(n) == 8 + 4 * n
\* write_config: four numbers and the stop tokens.
ConfigBytes(shape) == 16 + 4 * shape.stops
\* RequestRegistry.admit: KV blocks a request can ever need.
KVBlocks(shape) == (shape.prompt + shape.new + KVBlockSize - 1) \div KVBlockSize

Resources == {"engine_tokens", "config_bytes", "proposals", "host_blocks", "snapshots",
              "draft_host_blocks", "completions"}

\* Mutation of Cost: the Draft arenas are charged for one round only.
CostOfOneRound(shape) ==
    [engine_tokens     |-> TokenBytes(shape.prompt + shape.new),
     config_bytes      |-> ConfigBytes(shape),
     proposals         |-> ProposalBytes(shape.depth),
     host_blocks       |-> KVBlocks(shape),
     snapshots         |-> SnapshotBytes,
     draft_host_blocks |-> KVBlocks(shape),
     completions       |-> CompletionBudget(shape.new)]
\* SessionBudget.check: the worst case of one request, against every owner.
Cost(shape) ==
    [engine_tokens     |-> TokenBytes(shape.prompt + shape.new),
     config_bytes      |-> ConfigBytes(shape),
     proposals         |-> (shape.new + 1) * ProposalBytes(shape.depth),
     host_blocks       |-> KVBlocks(shape),
     snapshots         |-> (shape.new + 1) * SnapshotBytes,
     draft_host_blocks |-> KVBlocks(shape),
     completions       |-> CompletionBudget(shape.new)]

Limit(name) == IF name \in {"host_blocks", "draft_host_blocks"} THEN HostArenaBlocks ELSE PayloadCapacity

\* SessionBudget.check and commit.
WithinBudget(used, cost) == \A n \in Resources : used[n] + cost[n] <= Limit(n)
Charge(used, cost) == [n \in Resources |-> used[n] + cost[n]]
NothingUsed == [n \in Resources |-> 0]

\* The generation an arena starts with: each writer has its own name space.
FirstGeneration(a) == IF a[1] \in {"tokens", "configs"} THEN 1 ELSE a[2] + 1

\* The handle of the next `length` bytes of an arena whose attachment is `at`.
Handle(a, at, length) ==
    [arena |-> a, generation |-> at.generation, lo |-> at.head, hi |-> at.head + length]

\* The attachment behind them.
Advanced(at, length) == [at EXCEPT !.head = @ + length]

\* SharedTokenArena.reserve_output: the request's output lies behind its prompt.
ReservedOutput(at, prompt, new) ==
    Handle(<<"tokens", -1>>, [at EXCEPT !.head = prompt.hi], TokenBytes(new))

InitMemory ==
    /\ registry = [records |-> <<>>, used |-> NothingUsed, cohort |-> 1, state |-> "open"]
    /\ hostkv = [k \in Kinds |-> NewAllocator(SlotIds, HostArenaBlocks)]
    /\ segment = [a \in Arenas |-> 0]
    /\ engine = [a \in Arenas |-> [generation |-> FirstGeneration(a), head |-> 0]]
    /\ worker = [a \in DraftArenas |-> [generation |-> FirstGeneration(a), head |-> 0]]
    /\ done = [next |-> 0, written |-> {}]
    /\ sent = {}
    /\ handles = [live |-> {}, retired |-> {}]

Running == registry.state = "open"
Records == 1 .. Len(registry.records)
ActiveRequests == {i \in Records : ~ registry.records[i].finished}

\* RequestRegistry.admit up to budget.check: refusals that change nothing.
Accepts(shape) ==
    /\ Len(registry.records) < AdmissionSlots
    /\ WithinBudget(registry.used, Cost(shape))

\* RequestRegistry.admit after budget.check: prompt, configuration and output
\* region are written, then the two extents are allocated.  Any of these steps
\* may refuse; the Engine is then poisoned (Engine.admit).
Admit(shape) ==
    LET slot == Len(registry.records)
        tokens == engine[<<"tokens", -1>>]
        configs == engine[<<"configs", -1>>]
        prompt == Handle(<<"tokens", -1>>, tokens, TokenBytes(shape.prompt))
        output == ReservedOutput(tokens, prompt, shape.new)
        config == Handle(<<"configs", -1>>, configs, ConfigBytes(shape))
        fits == /\ output.hi <= PayloadCapacity
                /\ config.hi <= PayloadCapacity
                /\ \A k \in Kinds : CanTakeExtent(hostkv[k], slot, KVBlocks(shape))
    IN  /\ Running
        /\ Accepts(shape)
        /\ \/ /\ ~ fits
              /\ registry' = [registry EXCEPT !.state = "poisoned"]
              /\ UNCHANGED <<hostkv, segment, engine, handles>>
           \/ /\ fits
              /\ registry' = [registry EXCEPT
                                !.records = Append(@, [shape |-> shape, drafts |-> 0,
                                    targets |-> 0, count |-> 0, finished |-> FALSE,
                                    output |-> output]),
                                !.used = Charge(@, Cost(shape))]
              /\ hostkv' = [k \in Kinds |->
                            TakeExtent(hostkv[k], slot, registry.cohort, KVBlocks(shape))]
              /\ engine' = [engine EXCEPT ![<<"tokens", -1>>].head = output.hi,
                                          ![<<"configs", -1>>].head = config.hi]
              /\ segment' = [segment EXCEPT ![<<"tokens", -1>>] = output.hi,
                                            ![<<"configs", -1>>] = config.hi]
              /\ handles' = [handles EXCEPT !.live = @ \cup {prompt, output, config}]
        /\ UNCHANGED <<worker, done, sent>>

\* A request's WORKs alternate, Target first, at most `new` of either role.
MayIssue(r, role) ==
    IF role = "draft" THEN r.drafts < Min({r.targets, r.shape.new})
    ELSE r.targets <= r.drafts /\ r.targets < r.shape.new

\* WorkProgress.build: a round of either role, of one member.
Issued(r, role) ==
    IF role = "draft" THEN [r EXCEPT !.drafts = @ + 1] ELSE [r EXCEPT !.targets = @ + 1]

\* CompletionArena.reserve: room for a record, and the offset behind it.
CompletionFits(size) == done.next + size <= PayloadCapacity
CompletionReserved(size) == [done EXCEPT !.next = @ + size]

\* WorkProgress.build: a batch of one role reserves its completion record.
IssueWork(role, w, batch) ==
    LET size == CompletionBytes(Cardinality(batch))
    IN  /\ Running
        /\ \A i \in batch : MayIssue(registry.records[i], role)
        /\ IF CompletionFits(size)
           THEN /\ done' = CompletionReserved(size)
                /\ sent' = sent \cup {[role |-> role, worker |-> w, batch |-> batch,
                                       at |-> done.next, stage |-> "sent"]}
                /\ registry' = [registry EXCEPT !.records = [i \in Records |->
                       IF i \in batch
                       THEN Issued(@[i], role) ELSE @[i]]]
           ELSE /\ registry' = [registry EXCEPT !.state = "poisoned"]
                /\ UNCHANGED <<done, sent>>
        /\ UNCHANGED <<hostkv, segment, engine, worker, handles>>

\* Bytes a Draft WORK reserves in each of its worker's arenas.
DraftBytes(x, name) ==
    IF name = "snapshots" THEN Cardinality(x.batch) * SnapshotBytes
    ELSE MapThenSumSet(LAMBDA i : ProposalBytes(registry.records[i].shape.depth), x.batch)

\* DraftPublisher.reserve, reserve_payloads: every arena is checked before any
\* head moves; a refusal fails the worker.
ReservePayloads(x) ==
    LET mine == {a \in DraftArenas : a[2] = x.worker}
        fits == \A a \in mine : worker[a].head + DraftBytes(x, a[1]) <= PayloadCapacity
        moved(a) == Advanced(worker[a], DraftBytes(x, a[1]))
    IN  /\ Running
        /\ x \in sent /\ x.role = "draft" /\ x.stage = "sent"
        /\ IF fits
           THEN /\ worker' = [a \in DraftArenas |-> IF a \in mine THEN moved(a) ELSE worker[a]]
                /\ segment' = [a \in Arenas |-> IF a \in mine THEN moved(a).head ELSE segment[a]]
                /\ handles' = [handles EXCEPT !.live = @ \cup
                                 {Handle(a, worker[a], DraftBytes(x, a[1])) : a \in mine}]
                /\ sent' = (sent \ {x}) \cup {[x EXCEPT !.stage = "reserved"]}
                /\ UNCHANGED registry
           ELSE /\ registry' = [registry EXCEPT !.state = "worker failed"]
                /\ UNCHANGED <<worker, segment, handles, sent>>
        /\ UNCHANGED <<hostkv, engine, done>>

\* A Target WORK ends: SharedTokenArena.append_reserved adds n tokens of a row
\* behind its prefix, at most one more than the proposal and no more than the
\* request may have; the last one may be a stop token.
Appended(r, n, stop) ==
    LET count == r.count + Min({n, r.shape.depth + 1, r.shape.new - r.count})
    IN  [r EXCEPT !.count = count, !.finished = @ \/ count = r.shape.new \/ stop]
AppendSizes == 1 .. Max({s.new : s \in Shapes})

\* CompletionArena.publish, once per WORK: the record must not be written yet.
Complete(x) ==
    /\ Running
    /\ x \in sent
    /\ x.role = "draft" => x.stage = "reserved"
    /\ done' = [done EXCEPT !.written = @ \cup {x.at}]
    /\ sent' = sent \ {x}
    /\ IF x.at \in done.written
       THEN registry' = [registry EXCEPT !.state = "worker failed"]
       ELSE IF x.role = "draft" THEN UNCHANGED registry
       ELSE \E n \in AppendSizes, stop \in BOOLEAN :
              registry' = [registry EXCEPT !.records = [i \in Records |->
                  IF i \in x.batch /\ ~ @[i].finished
                  THEN Appended(@[i], n, stop)
                  ELSE @[i]]]
    /\ UNCHANGED <<hostkv, segment, engine, worker, handles>>

\* CohortRecycler.progress, first step: every request is done and every WORK is
\* complete; the workers are stopped and admission refuses until they are back.
Retire ==
    /\ Running
    /\ Records # {} /\ ActiveRequests = {} /\ sent = {}
    /\ registry.cohort < MaxCohorts
    /\ registry' = [registry EXCEPT !.state = "retiring"]
    /\ UNCHANGED <<hostkv, segment, engine, worker, done, sent, handles>>

\* ControlResources.recycle_payloads: the stride every generation advances by.
Stride == 2
\* _SharedPayload.recycle_quiescent of the Engine's attachment of an arena.
RecycleArenaByOne(at) == [generation |-> at.generation + 1, head |-> 0]
RecycleArena(at) == [generation |-> at.generation + Stride, head |-> 0]
\* Only an attachment that writes the arena publishes the empty extent.
Republished(a) == IF a \in EngineArenas THEN 0 ELSE segment[a]

\* PayloadDescriptor.of and attach: a restarted worker takes the generation of
\* the Engine and resumes at the published extent.
Attach(at, published) == [generation |-> at.generation, head |-> published]

\* CohortRecycler.progress, second step: extents, arenas, budget and tables are
\* recycled, and the workers are started again.
RecycleCohort ==
    /\ registry.state = "retiring"
    /\ registry' = [records |-> <<>>, used |-> NothingUsed, cohort |-> registry.cohort + 1,
                    state |-> "open"]
    /\ hostkv' = [k \in Kinds |-> FoldLeftDomain(LAMBDA a, i : GiveBack(a, i - 1),
                                               hostkv[k], registry.records)]
    /\ engine' = [a \in Arenas |-> RecycleArena(engine[a])]
    /\ segment' = [a \in Arenas |-> Republished(a)]
    /\ worker' = [a \in DraftArenas |-> Attach(RecycleArena(engine[a]), Republished(a))]
    /\ done' = [next |-> 0, written |-> {}]
    /\ handles' = [live |-> {}, retired |-> handles.retired \cup handles.live]
    /\ UNCHANGED sent

Batches(role) == {b \in SUBSET ActiveRequests : b # {} /\ Cardinality(b) <= MaxWorkRows}

MemoryNext ==
    \/ \E shape \in Shapes : Admit(shape)
    \/ \E w \in DraftIds, b \in Batches("draft") : IssueWork("draft", w, b)
    \/ \E b \in Batches("target") : IssueWork("target", -1, b)
    \/ \E x \in sent : ReservePayloads(x) \/ Complete(x)
    \/ Retire
    \/ RecycleCohort

MemorySpec == InitMemory /\ [][MemoryNext]_memoryVars

-----------------------------------------------------------------------------
\* Admission is all or nothing: what the budget accepted, the arenas and the
\* allocators can hold, so that neither an admission nor the completion record of
\* a WORK ever poisons the Engine (SessionBudget, Engine.admit).
AdmissionIsAtomic == registry.state # "poisoned"

\* The budget of the first cohort covers what its Draft workers write, on
\* whichever worker the rounds of its requests run.
FirstCohortFits == registry.cohort = 1 => registry.state # "worker failed"

\* The same guarantee for every cohort of the session: an accepted request never
\* meets an exhausted arena (SessionBudget: "Reserve each request's entire worst
\* case against every possible owner").
AcceptedRequestsFit == registry.state # "worker failed"

\* _SharedPayload._validate_handle: of the arena's generation, and published.
ValidHandle(a, h) == engine[a].generation = h.generation /\ h.hi <= segment[a]
\* ArenaRouter: the arenas of the handle's kind that accept it.
Readable(h) == {a \in Arenas : a[1] = h.arena[1] /\ ValidHandle(a, h)}

\* A payload stays readable, in the arena it was written to and only there, and
\* no other payload of the cohort is written over it.
PayloadsIntact ==
    \A h \in handles.live :
        /\ Readable(h) = {h.arena}
        /\ \A g \in handles.live \ {h} :
             g.arena = h.arena => g.hi <= h.lo \/ h.hi <= g.lo

\* A handle of an earlier cohort is never accepted again: the generations of the
\* writers do not meet (ControlResources.recycle_payloads: "fence old payload
\* handles").
RetiredHandlesRejected == \A h \in handles.retired : Readable(h) = {}

\* What the budget accepted is carried out: admissions are whole, and the rounds
\* of the first cohort find room.
AdmissionKept == AdmissionIsAtomic /\ FirstCohortFits

\* A handle names one payload, in its own cohort, or nothing.
HandlesNamePayloads == PayloadsIntact /\ RetiredHandlesRejected
=============================================================================
