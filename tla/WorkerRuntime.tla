--------------------------- MODULE WorkerRuntime ---------------------------
(***************************************************************************)
(* One NebulaSD worker group and the part of the Engine that feeds it.     *)
(*                                                                         *)
(* Four processes take part:                                               *)
(*   - the Engine, whose WorkLedger authorises WORKs against two Banks of  *)
(*     a shared pool of physical rows (variable eng);                      *)
(*   - control, which owns the Runtime and publishes completions           *)
(*     (variable rt, the ring incoming and the set completions);           *)
(*   - execution, which runs one model job at a time (variable exec);      *)
(*   - the DMA process with one lane per Bank (variables lane and slot).   *)
(*                                                                         *)
(* In direct mode the Engine sends the import of a WORK straight to the    *)
(* Bank's lane, before control has even seen the WORK; otherwise control   *)
(* submits the host-to-device copy itself.                                 *)
(*                                                                         *)
(* Runtime.step drains the done queue and then advances both Banks.  The   *)
(* model gives each drained completion a step of its own (HandleDone) and  *)
(* keeps the advance of both Banks, with the compute dispatch after each,  *)
(* as one step (AdvanceBanks).  A completion can be delivered at any time, *)
(* so this only adds interleavings.                                        *)
(***************************************************************************)
EXTENDS Integers, Sequences, FiniteSets

CONSTANTS
    CapacityRows,     \* physical rows shared by the two Banks (options.capacity_rows)
    MaxBatchSize,     \* worker.max_batch_size
    MaxOutstanding,   \* MAX_OUTSTANDING of workers/work.py
    DirectImports,    \* TRUE: the Engine feeds the DMA lanes itself
    Operations,       \* the WorkKinds this worker executes
    StopKinds,        \* the stop commands the Engine may send
    MaxWorks,         \* bound: WORKs the Engine issues in one generation
    MaxGenerations    \* bound: generations of the worker (1 = never recycled)

ASSUME CapacityRowsAssumption == CapacityRows \in Nat \ {0}
ASSUME MaxBatchSizeAssumption == MaxBatchSize \in Nat \ {0}
ASSUME MaxOutstandingAssumption == MaxOutstanding \in Nat \ {0}
ASSUME DirectImportsAssumption == DirectImports \in BOOLEAN
ASSUME MaxWorksAssumption == MaxWorks \in Nat
ASSUME MaxGenerationsAssumption == MaxGenerations \in Nat
ASSUME OperationsAssumption ==
    Operations \subseteq {"TARGET_PREFILL", "TARGET_VERIFY", "DRAFT_INITIAL", "DRAFT_DECODE"}
ASSUME StopKindsAssumption == StopKinds \subseteq {"DRAIN", "SHUTDOWN"}

BankIds == {0, 1}
PhysicalRows == 0..(CapacityRows - 1)
None == 0                                   \* Python's None where a work_seq is expected
Seqs == Nat \ {None}

Names == {"source", "predecessor", "classified"}
Outcomes == {"NONE", "EXECUTED", "SKIPPED_FINISHED", "SKIPPED_SHUTDOWN"}
Skipped == {"SKIPPED_FINISHED", "SKIPPED_SHUTDOWN"}
JobKinds == {"METADATA", "H2D", "COMPUTE", "D2H"}
JobStates == {"NONE", "RUNNING", "DONE"}    \* absent, submitted, on the done queue
Phases == {"FREE", "FILLING", "READY", "COMPUTING", "EXPORTING"}

(* The dependencies WorkProgress.build freezes into every row of a WORK. *)
Dependencies(op) ==
    CASE op = "TARGET_PREFILL" -> {}
      [] op = "DRAFT_INITIAL"  -> {"predecessor", "classified"}
      [] OTHER                 -> Names

Work == [work_seq : Seqs, operation : Operations, bank_id : BankIds,
         bank_epoch : Nat, rows : 1..MaxBatchSize]
NoWork == [work_seq |-> None]

Members(work) == 1..work.rows

VARIABLES
    rt,          \* the Runtime of control: records, Banks, free rows, compute slot
    incoming,    \* Engine -> control ring
    import,      \* Engine -> lane pipes, one per Bank (direct mode)
    lane,        \* the WORK whose Bank each DMA lane holds, or None
    slot,        \* the import completion slots, one per Bank
    exec,        \* the execution process: stage and the clock of its last ended job
    completions, \* the WORKs with a published completion record
    eng          \* the Engine's ledger and the rows it has cached

vars == <<rt, incoming, import, lane, slot, exec, completions, eng>>
-----------------------------------------------------------------------------
(***************************************************************************)
(* Runtime state.  A State record holds what Runtime knows of a WORK:      *)
(* layout is the set of physical rows ({} is None), plan the members of    *)
(* the compiled plan ({} is None).                                         *)
(***************************************************************************)
NewState(work) ==
    [spec     |-> work,
     captured |-> [i \in Members(work) |-> {}],
     outcomes |-> [i \in Members(work) |-> "NONE"],
     jobs     |-> [k \in JobKinds |-> "NONE"],
     layout   |-> {},
     import_inputs |-> FALSE,
     plan     |-> {},
     metadata |-> FALSE,
     imported |-> FALSE,
     result   |-> FALSE,
     physical_done |-> FALSE]

NewBank == [epoch |-> 0, phase |-> "FREE", current |-> None, pending |-> None, layout |-> {}]

NewRuntime ==
    [records   |-> [s \in {} |-> NewBank],
     banks     |-> [b \in BankIds |-> NewBank],
     free_rows |-> PhysicalRows,
     compute   |-> None,
     exchange  |-> [b \in BankIds |-> "NONE"],  \* the RPC outstanding on each lane
     command   |-> "NONE",                      \* what control last put on execution's ring
     draining  |-> FALSE,
     shutting_down |-> FALSE,
     failed    |-> FALSE]

(* Runtime.step records the exception and never progresses again. *)
Fail(r) == [r EXCEPT !.failed = TRUE]

Live(state) == {i \in DOMAIN state.outcomes : state.outcomes[i] = "NONE"}
AllSkipped(state) == \A i \in DOMAIN state.outcomes : state.outcomes[i] \in Skipped
NoJobs(state) == \A k \in JobKinds : state.jobs[k] = "NONE"
SetJob(r, s, kind, status) == [r EXCEPT !.records[s].jobs[kind] = status]

(* The State of a WORK and its Bank change together. *)
Put(r, s, state, bank) == [r EXCEPT !.records[s] = state, !.banks[state.spec.bank_id] = bank]

(* Runtime._ready: the named dependencies of every member not finished. *)
Ready(state, names) ==
    \A i \in DOMAIN state.outcomes :
        \/ state.outcomes[i] = "SKIPPED_FINISHED"
        \/ names \cap Dependencies(state.spec.operation) \subseteq state.captured[i]

(* Runtime.accept; FALSE becomes an exception in ControlRuntime.accept. *)
Accept(r, work) ==
    LET s == work.work_seq
        bank == r.banks[work.bank_id]
        rejected == \/ r.failed
                    \/ work.rows > CapacityRows
                    \/ r.draining
                    \/ Cardinality(DOMAIN r.records) >= MaxOutstanding
                    \/ s \in DOMAIN r.records
                    \/ bank.current # None /\ bank.pending # None
        added == [r EXCEPT !.records =
                     [x \in DOMAIN r.records \cup {s} |->
                         IF x = s THEN NewState(work) ELSE r.records[x]]]
    IN  IF rejected THEN Fail(r)
        ELSE IF bank.current = None
             THEN [added EXCEPT !.banks[work.bank_id].current = s]
             ELSE [added EXCEPT !.banks[work.bank_id].pending = s]

(* Banks.allocate: the smallest free rows.  NoLayout leaves everything as it
   is (allocate returned None). *)
Lowest(n, rows) == {x \in rows : Cardinality({y \in rows : y < x}) < n}

Fits(r, work) == work.rows <= Cardinality(r.free_rows)

Allocate(r, s) ==
    LET work == r.records[s].spec
        b == work.bank_id
        rows == Lowest(work.rows, r.free_rows)
        filling == [r.banks[b] EXCEPT !.layout = rows, !.epoch = work.bank_epoch, !.phase = "FILLING"]
    IN  IF r.banks[b].layout # {} THEN Fail(r)
        ELSE IF ~Fits(r, work) THEN r
        ELSE IF work.bank_epoch <= r.banks[b].epoch THEN Fail(r)
        ELSE [Put(r, s, [r.records[s] EXCEPT !.layout = rows], filling) EXCEPT
                 !.free_rows = r.free_rows \ rows]

(* Mutations of Release: the rows are not returned; the Bank keeps its WORK. *)
ReleaseLeaksRows(r, s) ==
    LET b == r.records[s].spec.bank_id
    IN  [r EXCEPT !.records[s].physical_done = TRUE,
                  !.banks[b] = [@ EXCEPT !.layout = {}, !.phase = "FREE",
                                         !.current = r.banks[b].pending, !.pending = None]]

ReleaseKeepsCurrent(r, s) ==
    LET b == r.records[s].spec.bank_id
    IN  [r EXCEPT !.records[s].physical_done = TRUE,
                  !.free_rows = @ \cup r.banks[b].layout,
                  !.banks[b] = [@ EXCEPT !.layout = {}, !.phase = "FREE", !.pending = None]]

(* Runtime._release with Banks.release. *)
Release(r, s) ==
    LET state == r.records[s]
        b == state.spec.bank_id
        bank == r.banks[b]
        next == [bank EXCEPT !.current = bank.pending, !.pending = None]
        done == [state EXCEPT !.physical_done = TRUE]
    IN  IF ~NoJobs(state) \/ (state.layout # {} /\ bank.layout # state.layout)
        THEN Fail(r)
        ELSE IF state.layout = {} THEN Put(r, s, done, next)
        ELSE [Put(r, s, done, [next EXCEPT !.layout = {}, !.phase = "FREE"]) EXCEPT
                 !.free_rows = r.free_rows \cup bank.layout]

(* ProcessDMA._exchange: one RPC at a time on a lane. *)
Exchange(r, s, kind, command) ==
    LET b == r.records[s].spec.bank_id
    IN  IF r.exchange[b] # "NONE" THEN Fail(r)
        ELSE [r EXCEPT !.exchange[b] = command,
                       !.records[s].jobs[kind] = "RUNNING"]

(* Mutation of Finish: the lane is not told to give the Bank up. *)
FinishWithoutLane(r, s) == Release(r, s)

(* Runtime._finish: a WORK none of whose members will run. *)
Finish(r, s) == IF DirectImports THEN Exchange(r, s, "D2H", "RELEASE") ELSE Release(r, s)

(***************************************************************************)
(* Runtime._advance, in the order of the source.  Each operator takes the  *)
(* runtime and the current WORK of a Bank and does one of its paragraphs.  *)
(***************************************************************************)
(* The lane left the WORK's sequence in the Bank's completion slot. *)
TakeReceipt(r, s, receipt) ==
    IF DirectImports /\ ~r.records[s].imported /\ receipt = s
    THEN [r EXCEPT !.records[s].imported = TRUE] ELSE r

(* Mutation of FinishSkipped: only a WORK that owns rows is finished. *)
FinishSkippedLaidOut(r, s) ==
    IF NoJobs(r.records[s]) /\ r.records[s].layout # {} /\ (~DirectImports \/ r.records[s].imported)
    THEN Finish(r, s) ELSE r

FinishSkipped(r, s) ==
    IF NoJobs(r.records[s]) /\ (~DirectImports \/ r.records[s].imported)
    THEN Finish(r, s) ELSE r

(* A continuation may own rows once its own sources are captured; the others
   wait for their compute inputs. *)
LayoutInputs(work) ==
    IF "source" \in Dependencies(work.operation) THEN {"source"}
    ELSE {"predecessor", "classified"}

LayOut(r, s) ==
    IF r.records[s].layout = {} /\ Ready(r.records[s], LayoutInputs(r.records[s].spec))
    THEN Allocate(r, s) ELSE r

(* IMPORT_INPUT and COMPILE run inline in control (InlineJobs): the import
   descriptors once every source is captured, the plan once every live member
   has all its inputs.  Known descriptors let the metadata job start. *)
Compile(state) ==
    LET described == state.import_inputs \/ Ready(state, {"source"})
        complete == \A i \in Live(state) : Dependencies(state.spec.operation) \subseteq state.captured[i]
    IN  [state EXCEPT
            !.import_inputs = described,
            !.plan = IF @ = {} /\ complete THEN Live(state) ELSE @,
            !.jobs["METADATA"] = IF described /\ ~state.metadata THEN "RUNNING" ELSE @]

(* Mutation of JoinImport: the Bank is ready without the lane's import. *)
JoinMetadataOnly(r, s) ==
    LET b == r.records[s].spec.bank_id
    IN  IF r.banks[b].phase = "FILLING" /\ r.records[s].metadata
        THEN [r EXCEPT !.banks[b].phase = "READY"] ELSE r

(* Direct: join the lane's import with the metadata.  Otherwise copy here, or
   skip the copy when no member has a source. *)
JoinImport(r, s) ==
    LET state == r.records[s]
        b == state.spec.bank_id
    IN  IF DirectImports
        THEN IF r.banks[b].phase = "FILLING" /\ state.imported /\ state.metadata
             THEN [r EXCEPT !.banks[b].phase = "READY"] ELSE r
        ELSE IF ~state.metadata \/ state.imported \/ state.jobs["H2D"] # "NONE" THEN r
        ELSE IF "source" \in Dependencies(state.spec.operation)
             THEN Exchange(r, s, "H2D", "IMPORT")
             ELSE Put(r, s, [state EXCEPT !.imported = TRUE], [r.banks[b] EXCEPT !.phase = "READY"])

Prepare(r, s) == JoinImport([r EXCEPT !.records[s] = Compile(@)], s)

Advance(r, b, receipt) ==
    LET s == r.banks[b].current
        received == TakeReceipt(r, s, receipt)
        laidOut == LayOut(received, s)
    IN  IF s = None THEN r
        ELSE IF AllSkipped(received.records[s]) THEN FinishSkipped(received, s)
        ELSE IF laidOut.failed \/ laidOut.records[s].layout = {} THEN laidOut
        ELSE Prepare(laidOut, s)

(* Runtime._dispatch_compute with ControlRuntime.execute. *)
Eligible(r) ==
    {s \in DOMAIN r.records :
        LET b == r.records[s].spec.bank_id IN
        /\ r.banks[b].current = s
        /\ r.banks[b].phase = "READY"
        /\ r.records[s].plan # {}
        /\ NoJobs(r.records[s])
        /\ Live(r.records[s]) # {}}

Oldest(S) == CHOOSE s \in S : \A t \in S : s <= t

DispatchCompute(r) ==
    LET s == Oldest(Eligible(r))
    IN  IF r.compute # None \/ Eligible(r) = {} THEN r
        ELSE IF r.command # "NONE" THEN Fail(r)
        ELSE [Put(r, s, [r.records[s] EXCEPT !.jobs["COMPUTE"] = "RUNNING"],
                        [r.banks[r.records[s].spec.bank_id] EXCEPT !.phase = "COMPUTING"]) EXCEPT
                 !.compute = s, !.command = "COMPUTE"]

(* The oldest authorised WORK first; an empty Bank sorts last. *)
FirstBank(r) ==
    LET key(b) == r.banks[b].current
    IN  IF key(1) # None /\ (key(0) = None \/ key(1) < key(0)) THEN 1 ELSE 0

StepBank(r, b, receipt) ==
    LET advanced == IF r.failed THEN r ELSE Advance(r, b, receipt)
    IN  IF advanced.failed THEN advanced ELSE DispatchCompute(advanced)

-----------------------------------------------------------------------------
(***************************************************************************)
(* Runtime._handle and _apply: one completion taken off the done queue.    *)
(***************************************************************************)
ApplyCompute(r, s) ==
    LET state == r.records[s]
        b == state.spec.bank_id
        executed == [state EXCEPT !.result = TRUE,
                                  !.outcomes = [i \in DOMAIN @ |->
                                      IF i \in state.plan THEN "EXECUTED" ELSE @[i]]]
        done == [r EXCEPT !.compute = None, !.records[s] = executed]
        exported == Exchange(done, s, "D2H", "EXPORT")
    IN  IF Live(state) # state.plan THEN Fail(r)
        ELSE IF exported.failed THEN exported
        ELSE [exported EXCEPT !.banks[b].phase = "EXPORTING"]

Apply(r, s, kind) ==
    CASE kind = "METADATA" -> [r EXCEPT !.records[s].metadata = TRUE]
      [] kind = "H2D" -> Put(r, s, [r.records[s] EXCEPT !.imported = TRUE],
                                   [r.banks[r.records[s].spec.bank_id] EXCEPT !.phase = "READY"])
      [] kind = "COMPUTE" -> ApplyCompute(r, s)
      [] kind = "D2H" -> Release(r, s)

Handle(r, s, kind) == Apply(SetJob(r, s, kind, "NONE"), s, kind)

(* Runtime.receive_inputs with _capture, for one fact. *)
Receive(r, s, i, name, finished) ==
    LET state == r.records[s]
    IN  IF state.outcomes[i] \in Skipped THEN r
        ELSE IF state.physical_done \/ name \in state.captured[i] THEN Fail(r)
        ELSE [r EXCEPT !.records[s] =
                 [state EXCEPT !.captured[i] = @ \cup {name},
                               !.outcomes[i] = IF finished THEN "SKIPPED_FINISHED" ELSE @]]

(* Runtime.shutdown and Runtime.drain. *)
Stop(r, kind) ==
    LET untouched(s) == \/ r.records[s].physical_done
                        \/ r.compute = s
                        \/ r.records[s].result
        skip(state) == [state EXCEPT !.outcomes =
                            [i \in DOMAIN @ |-> IF @[i] = "NONE" THEN "SKIPPED_SHUTDOWN" ELSE @[i]]]
    IN  IF kind = "DRAIN" THEN [r EXCEPT !.draining = TRUE]
        ELSE [r EXCEPT !.draining = TRUE,
                       !.shutting_down = TRUE,
                       !.records = [s \in DOMAIN r.records |->
                           IF untouched(s) THEN r.records[s] ELSE skip(r.records[s])]]

(* Runtime.publication_retired. *)
Retire(r, s) ==
    IF ~r.records[s].physical_done THEN Fail(r)
    ELSE [r EXCEPT !.records = [x \in DOMAIN r.records \ {s} |-> r.records[x]]]
-----------------------------------------------------------------------------
(***************************************************************************)
(* Control: registration of WORKs, stop commands, dependency facts, the    *)
(* done queue, the Banks, and publication.                                 *)
(***************************************************************************)
ControlRunning == exec.stage # "JOINED"

(* A WORK is left on the ring while the record window is full.  Nothing else
   is popped while publisher.reserve_steps runs, so taking the WORK and
   accepting it once reserved are one step. *)
Register ==
    /\ ControlRunning
    /\ incoming # <<>> /\ Head(incoming).kind = "WORK"
    /\ Cardinality(DOMAIN rt.records) < MaxOutstanding
    /\ incoming' = Tail(incoming)
    /\ rt' = Accept(rt, Head(incoming).work)
    /\ UNCHANGED <<import, lane, slot, exec, completions, eng>>

PopStop ==
    /\ ControlRunning
    /\ incoming # <<>> /\ Head(incoming).kind \in {"DRAIN", "SHUTDOWN"}
    /\ incoming' = Tail(incoming)
    /\ rt' = IF rt.draining /\ Head(incoming).kind = "DRAIN" THEN Fail(rt)
             ELSE Stop(rt, Head(incoming).kind)
    /\ UNCHANGED <<import, lane, slot, exec, completions, eng>>

(* Dependencies.poll found the awaited row; shutdown cleared every watch, and
   facts for members already skipped are ignored. *)
ReceiveInput(s, i, name, finished) ==
    /\ ControlRunning
    /\ ~rt.shutting_down
    /\ name \in Dependencies(rt.records[s].spec.operation) \ rt.records[s].captured[i]
    /\ rt.records[s].outcomes[i] = "NONE"
    /\ finished => name = "classified"
    /\ rt' = Receive(rt, s, i, name, finished)
    /\ UNCHANGED <<incoming, import, lane, slot, exec, completions, eng>>

HandleDone(s, kind) ==
    /\ ControlRunning
    /\ rt.records[s].jobs[kind] = "DONE"
    /\ rt' = Handle(rt, s, kind)
    /\ UNCHANGED <<incoming, import, lane, slot, exec, completions, eng>>

(* The metadata thread touches nothing but its job: its fence and control's
   handling of it are one step. *)
HandleMetadata(s) ==
    /\ ControlRunning
    /\ rt.records[s].jobs["METADATA"] = "RUNNING"
    /\ rt' = Handle(rt, s, "METADATA")
    /\ UNCHANGED <<incoming, import, lane, slot, exec, completions, eng>>

(* ControlRuntime.step takes the model result, resolves the pending future and
   Runtime.step handles it in the same call. *)
HandleResult ==
    /\ ControlRunning
    /\ exec.stage = "COMPUTED"
    /\ exec' = [exec EXCEPT !.stage = "IDLE"]
    /\ rt' = IF rt.command # "COMPUTE" THEN Fail(rt)
             ELSE Handle([rt EXCEPT !.command = "NONE"], rt.compute, "COMPUTE")
    /\ UNCHANGED <<incoming, import, lane, slot, completions, eng>>

AdvanceBanks ==
    /\ ControlRunning
    /\ \E b \in {FirstBank(rt)} : \E r \in {StepBank(rt, b, slot[b])} :
           rt' = StepBank(r, 1 - b, slot[1 - b])
    /\ rt' # rt
    /\ UNCHANGED <<incoming, import, lane, slot, exec, completions, eng>>

(* Mutation of PublishCompletion: published with the result. *)
PublishCompletionWithResult(s) ==
    /\ ControlRunning
    /\ rt.records[s].physical_done \/ rt.records[s].result
    /\ completions' = completions \cup {s}
    /\ UNCHANGED <<rt, incoming, import, lane, slot, exec, eng>>

(* Once a WORK is physically done the publisher commits its rows and then the
   completion record; the record retires in that iteration of the loop. *)
PublishCompletion(s) ==
    /\ ControlRunning
    /\ rt.records[s].physical_done
    /\ completions' = completions \cup {s}
    /\ rt' = Retire(rt, s)
    /\ UNCHANGED <<incoming, import, lane, slot, exec, eng>>

(* ControlRuntime.step closes execution once nothing is left, and control
   leaves its loop when execution has stopped. *)
CloseExecution ==
    /\ ControlRunning
    /\ rt.draining /\ DOMAIN rt.records = {}
    /\ rt.command # "SHUTDOWN"
    /\ rt' = [rt EXCEPT !.command = "SHUTDOWN"]
    /\ UNCHANGED <<incoming, import, lane, slot, exec, completions, eng>>

ControlExit ==
    /\ exec.stage = "STOPPED"
    /\ IF ~rt.draining \/ DOMAIN rt.records # {}
       THEN rt' = Fail(rt) /\ UNCHANGED exec
       ELSE exec' = [exec EXCEPT !.stage = "JOINED"] /\ UNCHANGED rt
    /\ UNCHANGED <<incoming, import, lane, slot, completions, eng>>
-----------------------------------------------------------------------------
(***************************************************************************)
(* Execution: one prepared model job at a time.  The job runs from the     *)
(* moment control puts it on the command ring until ExecuteEnd, which      *)
(* stamps the end on the shared clock and returns the result.              *)
(***************************************************************************)
ModelRunning == exec.stage = "IDLE" /\ rt.command = "COMPUTE"

ExecuteEnd ==
    /\ ModelRunning
    /\ exec' = [stage |-> "COMPUTED", clock |-> rt.compute]
    /\ UNCHANGED <<rt, incoming, import, lane, slot, completions, eng>>

ExecuteShutdown ==
    /\ exec.stage = "IDLE"
    /\ rt.command = "SHUTDOWN"
    /\ exec' = [exec EXCEPT !.stage = "STOPPED"]
    /\ UNCHANGED <<rt, incoming, import, lane, slot, completions, eng>>
-----------------------------------------------------------------------------
(***************************************************************************)
(* The DMA lanes.  In direct mode an idle lane imports the next WORK on    *)
(* its pipe and then holds the Bank until the EXPORT or RELEASE of control *)
(* is done.  A copy runs while its request is at the head of a pipe the    *)
(* lane is ready to serve; the action is its completion.                   *)
(***************************************************************************)
LaneRunning == exec.stage \notin {"STOPPED", "JOINED"}
Importing(b) == DirectImports /\ lane[b] = None /\ import[b] # <<>>

LaneImport(b) ==
    /\ LaneRunning
    /\ Importing(b)
    /\ lane' = [lane EXCEPT ![b] = Head(import[b])]
    /\ slot' = [slot EXCEPT ![b] = Head(import[b])]
    /\ import' = [import EXCEPT ![b] = Tail(@)]
    /\ UNCHANGED <<rt, incoming, exec, completions, eng>>

(* 'export without an owned Bank' *)
LaneUnowned(b) ==
    /\ DirectImports /\ LaneRunning
    /\ lane[b] = None /\ import[b] = <<>>
    /\ rt.exchange[b] # "NONE"
    /\ rt' = Fail(rt)
    /\ UNCHANGED <<incoming, import, lane, slot, exec, completions, eng>>

(* The copy (or RELEASE, which copies nothing) ends and the reply completes
   the job of the Bank's current WORK. *)
LaneServe(b) ==
    LET kind == IF rt.exchange[b] = "IMPORT" THEN "H2D" ELSE "D2H"
    IN  /\ LaneRunning
        /\ rt.exchange[b] # "NONE"
        /\ DirectImports => lane[b] # None
        /\ lane' = [lane EXCEPT ![b] = None]
        /\ rt' = [SetJob(rt, rt.banks[b].current, kind, "DONE") EXCEPT !.exchange[b] = "NONE"]
        /\ UNCHANGED <<incoming, import, slot, exec, completions, eng>>
-----------------------------------------------------------------------------
(***************************************************************************)
(* The Engine: WorkLedger.capacity, sent, observe_completions and refresh. *)
(* The cached rows are the ones Projection publishes; the Engine may read  *)
(* each of them arbitrarily late.                                          *)
(***************************************************************************)
NewRecord(work) == [work |-> work, compute_done |-> FALSE, physical_done |-> FALSE]

(* Mutation of Refresh: any allocation for the WORK counts as computed. *)
RefreshOnAllocation(e) ==
    [e EXCEPT !.records = [s \in DOMAIN e.records |->
        [e.records[s] EXCEPT !.compute_done =
            @ \/ e.bank[e.records[s].work.bank_id].epoch >= e.records[s].work.bank_epoch]]]

(* The compute clock or a newer or drained Bank proves the compute ended. *)
Refresh(e) ==
    LET done(r) == \/ e.clock = r.work.work_seq
                   \/ e.bank[r.work.bank_id].epoch > r.work.bank_epoch
                   \/ /\ e.bank[r.work.bank_id].epoch = r.work.bank_epoch
                      /\ e.bank[r.work.bank_id].phase \in {"FREE", "EXPORTING"}
    IN  [e EXCEPT !.records = [s \in DOMAIN e.records |->
            [e.records[s] EXCEPT !.compute_done = @ \/ done(e.records[s])]]]

Reserved(b) == {s \in DOMAIN eng.records :
                   eng.records[s].work.bank_id = b /\ ~eng.records[s].physical_done}

(* Mutation of RowsBeside: the other Bank is forgotten. *)
RowsOfBank(b) == IF CapacityRows < MaxBatchSize THEN CapacityRows ELSE MaxBatchSize

(* rows left beside the widest WORK reserved on the other Bank *)
RowsBeside(b) ==
    LET widths == {eng.records[s].work.rows : s \in Reserved(1 - b)}
        used == CHOOSE n \in widths \cup {0} : \A m \in widths : m <= n
    IN  IF CapacityRows - used < MaxBatchSize THEN CapacityRows - used ELSE MaxBatchSize

(* An empty Bank, or (direct mode) one whose only WORK has computed. *)
Open(b, pending) ==
    /\ RowsBeside(b) > 0
    /\ IF pending
       THEN \E s \in Reserved(b) : Reserved(b) = {s} /\ eng.records[s].compute_done
       ELSE Reserved(b) = {} /\ eng.bank[b].phase = "FREE"

(* The first Bank capacity finds: empty Banks first, Bank 0 before Bank 1. *)
Chosen(b) ==
    \/ Open(b, FALSE) /\ (b = 1 => ~Open(0, FALSE))
    \/ /\ DirectImports
       /\ \A c \in BankIds : ~Open(c, FALSE)
       /\ Open(b, TRUE) /\ (b = 1 => ~Open(0, TRUE))

(* Mutation of NextEpoch: the ledger's own last epoch is forgotten. *)
NextEpochObserved(b) == 1 + eng.bank[b].epoch

NextEpoch(b) == 1 + (IF eng.bank[b].epoch > eng.epochs[b] THEN eng.bank[b].epoch ELSE eng.epochs[b])

(* WorkProgress.build and dispatch_work, service.submit and ledger.sent: the
   import goes to the lane before the WORK goes to control.  advance refreshes
   the ledger from the cached rows before it returns. *)
Submit(b, op, n) ==
    /\ eng.stop = "NO" /\ eng.next <= MaxWorks
    /\ Cardinality(DOMAIN eng.records) < MaxOutstanding
    /\ Chosen(b) /\ n <= RowsBeside(b)
    /\ LET work == [work_seq |-> eng.next, operation |-> op, bank_id |-> b,
                    bank_epoch |-> NextEpoch(b), rows |-> n]
       IN  /\ incoming' = Append(incoming, [kind |-> "WORK", work |-> work])
           /\ import' = IF DirectImports THEN [import EXCEPT ![b] = Append(@, eng.next)] ELSE import
           /\ eng' = Refresh([eng EXCEPT !.next = @ + 1,
                                         !.epochs[b] = NextEpoch(b),
                                         !.records = [s \in DOMAIN @ \cup {eng.next} |->
                                             IF s = eng.next THEN NewRecord(work) ELSE @[s]]])
    /\ UNCHANGED <<rt, lane, slot, exec, completions>>

(* The Bank row tells FREE and EXPORTING from everything else. *)
BankRow(b) ==
    [epoch |-> rt.banks[b].epoch,
     phase |-> IF rt.banks[b].phase \in {"FREE", "EXPORTING"} THEN rt.banks[b].phase ELSE "BUSY"]

(* IncrementalTableReader polls the Bank and runtime rows of every worker with
   priority.  The clock row is that of the last job that has ended. *)
ObserveRows ==
    LET seen == [eng EXCEPT !.bank = [b \in BankIds |-> BankRow(b)], !.clock = exec.clock]
    IN  /\ ControlRunning
        /\ seen # eng
        /\ eng' = Refresh(seen)
        /\ UNCHANGED <<rt, incoming, import, lane, slot, exec, completions>>

ObserveCompletion(s) ==
    /\ s \in completions /\ ~eng.records[s].physical_done
    /\ eng' = Refresh([eng EXCEPT !.records[s].compute_done = TRUE, !.records[s].physical_done = TRUE])
    /\ UNCHANGED <<rt, incoming, import, lane, slot, exec, completions>>

(* The results of the executed members, published before the completion, have
   been applied: the authorisation and its credit end. *)
RetireRecord(s) ==
    /\ eng.records[s].physical_done
    /\ eng' = Refresh([eng EXCEPT !.records = [x \in DOMAIN @ \ {s} |-> @[x]]])
    /\ UNCHANGED <<rt, incoming, import, lane, slot, exec, completions>>

(* service.stop: DRAIN once, SHUTDOWN (from close) at any time. *)
EngineStop(kind) ==
    /\ exec.stage # "JOINED"
    /\ eng.stop = "NO" \/ (eng.stop = "DRAIN" /\ kind = "SHUTDOWN")
    /\ incoming' = Append(incoming, [kind |-> kind, work |-> NoWork])
    /\ eng' = [eng EXCEPT !.stop = kind]
    /\ UNCHANGED <<rt, import, lane, slot, exec, completions>>

(* CohortRecycler.progress: the closed group is replaced by a new generation.
   A new ledger restarts the sequences; the cached worker rows are retained. *)
Recycle ==
    /\ exec.stage = "JOINED" /\ eng.stop = "SHUTDOWN"
    /\ DOMAIN eng.records = {}
    /\ eng.generation < MaxGenerations
    /\ eng' = [eng EXCEPT !.generation = @ + 1, !.next = 1, !.stop = "NO",
                          !.epochs = [b \in BankIds |-> 0]]
    /\ rt' = NewRuntime
    /\ exec' = [stage |-> "IDLE", clock |-> None]
    /\ slot' = [b \in BankIds |-> None]
    /\ completions' = {}
    /\ incoming' = <<>>
    /\ UNCHANGED <<import, lane>>

Terminated == exec.stage = "JOINED" /\ UNCHANGED vars
-----------------------------------------------------------------------------
Init ==
    /\ rt = NewRuntime
    /\ incoming = <<>>
    /\ import = [b \in BankIds |-> <<>>]
    /\ lane = [b \in BankIds |-> None]
    /\ slot = [b \in BankIds |-> None]
    /\ exec = [stage |-> "IDLE", clock |-> None]
    /\ completions = {}
    /\ eng = [generation |-> 1, next |-> 1, stop |-> "NO",
              records |-> [s \in {} |-> NoWork],
              epochs |-> [b \in BankIds |-> 0],
              bank |-> [b \in BankIds |-> [epoch |-> 0, phase |-> "UNKNOWN"]],
              clock |-> None]

Control ==
    \/ Register \/ PopStop \/ HandleResult \/ AdvanceBanks \/ CloseExecution \/ ControlExit
    \/ \E s \in DOMAIN rt.records :
        \/ \E i \in DOMAIN rt.records[s].outcomes, name \in Names, finished \in BOOLEAN :
               ReceiveInput(s, i, name, finished)
        \/ \E kind \in JobKinds : HandleDone(s, kind)
        \/ HandleMetadata(s) \/ PublishCompletion(s)

Execution == ExecuteEnd \/ ExecuteShutdown

Dma == \E b \in BankIds : LaneImport(b) \/ LaneUnowned(b) \/ LaneServe(b)

EngineObserves ==
    \/ ObserveRows
    \/ \E s \in DOMAIN eng.records : ObserveCompletion(s) \/ RetireRecord(s)

Engine ==
    \/ \E b \in BankIds, op \in Operations, n \in 1..MaxBatchSize : Submit(b, op, n)
    \/ EngineObserves
    \/ \E kind \in StopKinds : EngineStop(kind)
    \/ Recycle

Next == \/ ~rt.failed /\ (Control \/ Execution \/ Dma \/ Engine)
        \/ Terminated

Spec == Init /\ [][Next]_vars

(***************************************************************************)
(* Fairness.  Every process is a loop that never stops looking at its      *)
(* inputs, and every step of it is progress, so weak fairness of each      *)
(* process is enough.  Control's dependency facts are included because the *)
(* peers' rows are eventually published.  The Engine polls completions and *)
(* rows on every step; nothing obliges it to submit or to stop.            *)
(***************************************************************************)
LiveSpec ==
    /\ Spec
    /\ WF_vars(~rt.failed /\ Control)
    /\ WF_vars(~rt.failed /\ Execution)
    /\ WF_vars(~rt.failed /\ Dma)
    /\ WF_vars(~rt.failed /\ EngineObserves)
-----------------------------------------------------------------------------
(***************************************************************************)
(* Properties.                                                             *)
(***************************************************************************)
Stages == {"IDLE", "COMPUTED", "STOPPED", "JOINED"}

StateOf(work) ==
    [spec : {work}, captured : [Members(work) -> SUBSET Names], outcomes : [Members(work) -> Outcomes],
     jobs : [JobKinds -> JobStates], layout : SUBSET PhysicalRows, import_inputs : BOOLEAN,
     plan : SUBSET Members(work), metadata : BOOLEAN, imported : BOOLEAN, result : BOOLEAN,
     physical_done : BOOLEAN]

BankType == [epoch : Nat, phase : Phases, current : Nat, pending : Nat, layout : SUBSET PhysicalRows]

RuntimeType(r) ==
    /\ DOMAIN r = {"records", "banks", "free_rows", "compute", "exchange", "command",
                   "draining", "shutting_down", "failed"}
    /\ DOMAIN r.records \subseteq Seqs
    /\ r.records = [s \in DOMAIN r.records |-> r.records[s]]
    /\ \A s \in DOMAIN r.records :
           r.records[s].spec \in Work /\ r.records[s] \in StateOf(r.records[s].spec)
    /\ r.banks \in [BankIds -> BankType]
    /\ \A b \in BankIds : {r.banks[b].current, r.banks[b].pending} \ {None} \subseteq DOMAIN r.records
    /\ r.free_rows \subseteq PhysicalRows
    /\ r.compute \in Nat
    /\ r.exchange \in [BankIds -> {"NONE", "IMPORT", "EXPORT", "RELEASE"}]
    /\ r.command \in {"NONE", "COMPUTE", "SHUTDOWN"}
    /\ r.draining \in BOOLEAN /\ r.shutting_down \in BOOLEAN /\ r.failed \in BOOLEAN

Messages == [kind : {"WORK"}, work : Work] \cup [kind : {"DRAIN", "SHUTDOWN"}, work : {NoWork}]

EngineType ==
    /\ DOMAIN eng = {"generation", "next", "stop", "records", "epochs", "bank", "clock"}
    /\ eng.next \in Seqs
    /\ eng.epochs \in [BankIds -> Nat]
    /\ eng.bank \in [BankIds -> [epoch : Nat, phase : {"UNKNOWN", "FREE", "EXPORTING", "BUSY"}]]

(* Type invariant of the worker group and of the ledger that feeds it; the
   WORKs a Bank names are always known to the Runtime. *)
TypeOK ==
    /\ RuntimeType(rt)
    /\ EngineType
    /\ incoming \in Seq(Messages)
    /\ import \in [BankIds -> Seq(Seqs)]
    /\ lane \in [BankIds -> Nat]
    /\ slot \in [BankIds -> Nat]
    /\ exec \in [stage : Stages, clock : Nat]
    /\ completions \subseteq Seqs

(* Row ownership (Banks.allocate/release, Runtime._release): at every moment
   each physical row is either free or laid out for exactly one Bank, through
   skips, shutdown and pending successors; no row leaks and none is shared. *)
RowsPartition ==
    /\ rt.free_rows \cup rt.banks[0].layout \cup rt.banks[1].layout = PhysicalRows
    /\ rt.free_rows \cap (rt.banks[0].layout \cup rt.banks[1].layout) = {}
    /\ rt.banks[0].layout \cap rt.banks[1].layout = {}

(* No exception of Runtime, Banks, ProcessDMA, the lanes or the control loop
   is reachable: the credit, Bank and row reservations the Engine makes from
   its stale rows are always enough for what control then has to accept. *)
NoFailure == ~rt.failed

(* The rows the ledger reserves suffice: whenever a Bank's current WORK still
   needs a layout, Banks.allocate finds rows and never returns None. *)
RowsAvailable ==
    \A b \in BankIds : LET s == rt.banks[b].current IN
        s # None /\ rt.records[s].layout = {} => Fits(rt, rt.records[s].spec)

(* Bank memory: while the model runs a WORK, its lane holds exactly that WORK
   (or, without direct imports, is idle); no copy of a predecessor or of an
   early-imported successor touches the Bank. *)
ComputeOwnsBank ==
    ModelRunning =>
        LET b == rt.records[rt.compute].spec.bank_id
        IN  /\ rt.exchange[b] = "NONE"
            /\ lane[b] = IF DirectImports THEN rt.compute ELSE None

(* A lane imports a successor only after the computation and the export of
   every earlier WORK of the Bank have left it (direct_import.serve). *)
ImportAfterExport ==
    \A b \in BankIds : Importing(b) =>
        \A s \in DOMAIN rt.records :
            rt.records[s].spec.bank_id = b /\ s < Head(import[b]) =>
                rt.records[s].physical_done \/ rt.records[s].jobs["D2H"] = "DONE"

(* An import completion is never overwritten before its WORK has taken it: a
   WORK whose import has left the pipe is marked imported or still named by
   the Bank's single completion slot (direct_import.publish and read). *)
ReceiptNotLost ==
    DirectImports => \A s \in DOMAIN rt.records :
        LET b == rt.records[s].spec.bank_id
        IN  \/ rt.records[s].imported
            \/ \E i \in 1..Len(import[b]) : import[b][i] = s
            \/ slot[b] = s

ComputeOver(s) ==
    \/ s \in completions
    \/ /\ s \in DOMAIN rt.records
       /\ \/ rt.records[s].physical_done
          \/ rt.records[s].result
          \/ exec.clock = s

(* The ledger's compute_done, inferred from rows it read late, is never set
   for a WORK whose computation is still to come (WorkLedger.refresh). *)
ComputeDoneSound == \A s \in DOMAIN eng.records : eng.records[s].compute_done => ComputeOver(s)

(* A published completion is final: no queue, Bank, lane, model job or record
   of the group refers to the WORK any more. *)
CompletionFinal ==
    \A s \in completions :
        /\ s \notin DOMAIN rt.records
        /\ \A b \in BankIds : /\ s \notin {rt.banks[b].current, rt.banks[b].pending, lane[b]}
                              /\ \A i \in 1..Len(import[b]) : import[b][i] # s
        /\ rt.compute # s

(* When the execution process stops, nothing is stranded: every row is free,
   the lanes are idle, their pipes empty and no WORK is left on the ring. *)
CleanStop ==
    exec.stage \in {"STOPPED", "JOINED"} =>
        /\ rt.free_rows = PhysicalRows
        /\ \A b \in BankIds : lane[b] = None /\ import[b] = <<>>
        /\ \A i \in 1..Len(incoming) : incoming[i].kind # "WORK"

(* Every authorised WORK is eventually retired from the ledger, skipped,
   executed or shut down, and its credit returns. *)
WorkRetired == \A s \in 1..MaxWorks : s \in DOMAIN eng.records ~> s \notin DOMAIN eng.records

(* A stop command always ends with both processes joined. *)
StopCompletes == (eng.stop # "NO") ~> (exec.stage = "JOINED")

(* The memory of a Bank has one user at a time, across control, the lane and
   the execution process, and each copy reports to the WORK it served. *)
BankExclusive == ComputeOwnsBank /\ ImportAfterExport /\ ReceiptNotLost

(* Every WORK the ledger authorises and every stop command comes to its end. *)
EveryWorkEnds == WorkRetired /\ StopCompletes
=============================================================================
