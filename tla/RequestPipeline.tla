-------------------------- MODULE RequestPipeline --------------------------
(***************************************************************************)
(* Requests on their way through Draft and Target workers                  *)
(* (engine/core.py, engine/work_progress.py, engine/work_ledger.py,        *)
(* engine/output_manager.py, scheduler/completion.py,                      *)
(* scheduler/eligibility.py, workers/dependencies.py, workers/target and  *)
(* workers/draft: inputs.py, publication.py).                              *)
(*                                                                         *)
(* The Engine authorises a WORK from the rows it has accepted so far and   *)
(* freezes in it the tickets of rows that do not exist yet: Draft of round *)
(* q+1 is issued while Target of round q still runs, and Target of round   *)
(* q+1 while Draft of round q+1 does.  A worker captures the rows when     *)
(* their tickets appear, computes, and publishes rows that overwrite those *)
(* of the previous round.  The Engine sees all this late and in pieces.    *)
(*                                                                         *)
(* A worker group is reduced here to what WorkerRuntime shows of it: the   *)
(* WORKs of one Bank take turns, a WORK computes once, its completion      *)
(* comes last.  Rows are read and written atomically (SharedTable).        *)
(***************************************************************************)
EXTENDS Integers, FiniteSets

CONSTANTS
    Requests,        \* request slots of one cohort
    DraftWorkers,    \* worker ids, positive
    TargetWorkers,
    BankCount,       \* Banks per worker (2)
    MaxBatch,        \* max_batch_size
    BankRows,        \* physical rows shared by the Banks of a worker
    MaxOutstanding,  \* WORK records per worker (4)
    MaxNew,          \* max_new_tokens of every request
    Depth,           \* proposal_depth
    DirectImports,   \* whether the Engine feeds the DMA lanes itself
    ImportRows,      \* bound: FALSE leaves out the import rows, which only the
                     \* Engine's validation reads
    LateRows,        \* bound: FALSE shows the Engine every Bank row in time, so that a
                     \* Bank without a record is known to be EMPTY
    FullRings,       \* bound: whether a ring may be full; one WORK of a stage
                     \* at a time meets one
    PollBudget       \* bound: rows of one poll (max_entries, 128)

Workers == DraftWorkers \cup TargetWorkers
Banks == 0 .. BankCount - 1
Roles == {"D", "T"}
WorkersOf(s) == IF s = "D" THEN DraftWorkers ELSE TargetWorkers
Minimum(a, b) == IF a <= b THEN a ELSE b
Larger(a, b) == IF a >= b THEN a ELSE b

ASSUME PipelineAssumptions ==
    /\ IsFiniteSet(Requests)
    /\ DraftWorkers \subseteq Nat \ {0}
    /\ TargetWorkers \subseteq Nat \ {0}
    /\ DraftWorkers \cap TargetWorkers = {}
    /\ BankCount \in Nat \ {0}
    /\ MaxBatch \in Nat \ {0}
    /\ BankRows \in Nat \ {0}
    /\ MaxOutstanding \in Nat \ {0}
    /\ MaxNew \in Nat \ {0}
    /\ Depth \in Nat \ {0}
    /\ DirectImports \in BOOLEAN
    /\ ImportRows \in BOOLEAN
    /\ LateRows \in BOOLEAN
    /\ FullRings \in BOOLEAN
    /\ PollBudget \in Nat

(***************************************************************************)
(* Rows.  Each role publishes three rows per request: "import" (kinds      *)
(* REQUEST_H2D and REQUEST_DRAFT_H2D), "result" (REQUEST_TARGET_COMPUTE    *)
(* and REQUEST_DRAFT) and "host" (REQUEST_D2H and REQUEST_DRAFT_D2H).      *)
(***************************************************************************)
Kinds == {"import", "result", "host"}
Cells == Roles \X Kinds \X Requests

\* The WORK that published a row: its worker and sequence stand for the
\* worker, generation, Bank and epoch that the code compares.
NoKey == <<0, 0>>

\* version: target_kv_version, snapshot_version, ready_version or
\* gpu_ready_version.  count: tokens of committed output the row knows of
\* (output_count, committed_count, logical_kv_len less the prompt).  size:
\* tokens the round added (a Target's delta, a Draft's proposal).
NoFact == [round |-> -1, work |-> NoKey, version |-> 0, count |-> 0, size |-> 0,
           finished |-> FALSE]

\* The dependencies of a member of a WORK (workers/dependencies.py).
Names == {"classified", "source", "predecessor"}

VARIABLES
    eng,           \* the Engine
    rows,          \* the shared request rows
    jobs,          \* the WORKs accepted by workers and not completed
    completions,   \* completion records not yet retired: the executed members
    failure        \* the exception that stopped the system, or "none"

vars == <<eng, rows, jobs, completions, failure>>

Init ==
    /\ eng = [req |-> [r \in Requests |-> [lifecycle |-> "absent", count |-> 0, round |-> -1]],
              issued |-> [s \in Roles |-> [r \in Requests |-> 0]],
              rows |-> [c \in Cells |-> NoFact],
              records |-> <<>>,
              pending |-> [s \in Roles |-> {}],
              dirty |-> [s \in Roles |-> {}],
              occupied |-> {},
              sequence |-> [w \in Workers |-> 1]]
    /\ rows = [c \in Cells |-> NoFact]
    /\ jobs = <<>>
    /\ completions = <<>>
    /\ failure = "none"

Put(f, k, x) == [i \in DOMAIN f \cup {k} |-> IF i = k THEN x ELSE f[i]]
Without(f, S) == [i \in DOMAIN f \ S |-> f[i]]
Fail(message) == failure' = message

(***************************************************************************)
(* The Engine's view of a request: who may be scheduled.  issued[s][r] is  *)
(* draft_issue_seq or target_run_seq; Draft rounds start at 1 and run under*)
(* their own number, Target rounds start at 0 and run under the next.      *)
(***************************************************************************)
Active(e, r) == e.req[r].lifecycle = "active"
Result(e, s, r) == e.rows[<<s, "result", r>>]
IssuedRound(e, s, r) == IF s = "D" THEN e.issued[s][r] ELSE e.issued[s][r] - 1

\* target_result: the last authorised Target round has been accepted and its
\* tokens were consumed.
TargetResult(e, r) ==
    /\ Active(e, r)
    /\ Result(e, "T", r).round >= 0
    /\ Result(e, "T", r).round = IssuedRound(e, "T", r)
    /\ e.req[r].count > 0
    /\ e.req[r].round = Result(e, "T", r).round

\* draft_placement.source: the last authorised Draft round has been accepted.
DraftSource(e, r) ==
    /\ Result(e, "D", r).round >= 0
    /\ Result(e, "D", r).round = IssuedRound(e, "D", r)

\* host_ready: the KV that the next WORK imports has reached the host.
HostReady(e, s, r) ==
    \/ e.issued[s][r] = 0
    \/ e.rows[<<s, "host", r>>].version = Result(e, s, r).version

\* The scheduler's frontier.  A Draft continuation needs the verification of
\* its predecessor to be issued, not finished; a verification needs its
\* proposal to be issued.
EligibleInitial(e, s, r) ==
    /\ Active(e, r)
    /\ e.issued[s][r] = 0
    /\ s = "D" => TargetResult(e, r)

EligibleNext(e, s, r) ==
    /\ Active(e, r)
    /\ e.issued[s][r] # 0
    /\ DirectImports => HostReady(e, s, r)
    /\ IF s = "D"
       THEN /\ DraftSource(e, r)
            /\ e.issued["T"][r] # 0
            /\ IssuedRound(e, "T", r) = Result(e, "D", r).round
       ELSE /\ TargetResult(e, r)
            /\ e.issued["D"][r] # 0
            /\ IssuedRound(e, "D", r) = Result(e, "T", r).round + 1

(***************************************************************************)
(* The ledger.                                                             *)
(***************************************************************************)
Members(work) == DOMAIN work.round
RecordsOf(e, w) == {k \in DOMAIN e.records : k[1] = w}

\* The records authorised for a round of a request (request_index).
Authorised(e, s, r, round) ==
    {k \in DOMAIN e.records :
        /\ e.records[k].work.role = s
        /\ r \in Members(e.records[k].work)
        /\ e.records[k].work.round[r] = round}

\* Records that hold Bank b of worker w: completion, and with it
\* physical_done, has not been observed.
Owners(e, w, b) ==
    {k \in RecordsOf(e, w) : e.records[k].work.bank = b /\ ~ e.records[k].completed}

\* capacity: the Bank of the next WORK, an empty one if there is one, else one
\* behind a single WORK that has computed.  What the ledger infers about
\* Banks and computation from the worker rows it has read was true when it read
\* them (WorkerRuntime).
OpenBanks(e, w, behind) ==
    {b \in Banks :
        /\ IF behind
           THEN \E k \in Owners(e, w, b) : Owners(e, w, b) = {k} /\ e.records[k].computed
           ELSE Owners(e, w, b) = {} /\ <<w, b>> \notin e.occupied
        /\ \A o \in Banks \ {b} : \A k \in Owners(e, w, o) :
               Cardinality(Members(e.records[k].work)) < BankRows}

Capacity(e, w) ==
    LET open == IF OpenBanks(e, w, FALSE) # {} \/ ~ DirectImports
                THEN OpenBanks(e, w, FALSE) ELSE OpenBanks(e, w, TRUE)
    IN  IF Cardinality(RecordsOf(e, w)) >= MaxOutstanding THEN {}
        ELSE {b \in open : \A o \in open : b <= o}

Fits(e, w, b, batch) ==
    /\ Cardinality(batch) <= MaxBatch
    /\ \A o \in Banks \ {b} : \A k \in Owners(e, w, o) :
           Cardinality(batch) + Cardinality(Members(e.records[k].work)) <= BankRows

(***************************************************************************)
(* Wake-ups.  A stage is planned only for its dirty workers.               *)
(***************************************************************************)

\* WorkProgress._wake, for the stages and workers of a set of pairs.
Wake(e, woken) ==
    [e EXCEPT !.dirty = [s \in Roles |-> @[s] \cup {w \in WorkersOf(s) : <<s, w>> \in woken}]]

Everyone(S) == S \X Workers

\* Some request of R fits a worker of W (StagePlanner leaves no such pair).
Plannable(e, s, W, R) ==
    \E w \in W : \E b \in Capacity(e, w) : \E r \in R :
        /\ EligibleInitial(e, s, r) \/ EligibleNext(e, s, r)
        /\ Fits(e, w, b, {r})

\* WorkProgress.build.
Build(e, s, w, b, batch, initial) ==
    [key |-> <<w, e.sequence[w]>>,
     role |-> s,
     bank |-> b,
     initial |-> initial,
     round |-> [r \in batch |->
                   IF initial THEN IF s = "D" THEN Result(e, "T", r).round + 1 ELSE 0
                   ELSE Result(e, s, r).round + 1],
     source |-> [r \in batch |-> IF initial THEN 0 ELSE Result(e, s, r).version],
     budget |-> [r \in batch |->
                   IF s = "T" /\ initial THEN 1
                   ELSE Minimum(Depth, MaxNew - e.req[r].count)]]

\* WorkProgress.freeze_import: the source the lane will copy is the row the
\* Engine holds now.
FreezeMismatch(e, work) ==
    /\ DirectImports
    /\ ~ work.initial
    /\ \E r \in Members(work) : e.rows[<<work.role, "host", r>>].version # work.source[r]

\* WorkLedger.sent.
SentMismatch(e, work) ==
    \/ work.key \in DOMAIN e.records
    \/ \E r \in Members(work) : Authorised(e, work.role, r, work.round[r]) # {}

\* publish_dispatch wakes the other stage, which may follow the issued round, and
\* issued_capacity the worker itself, which may take another WORK.
SentWakes(work) ==
    Everyone(Roles \ {work.role}) \cup {<<work.role, work.key[1]>>}

Sent(e, work) ==
    Wake([e EXCEPT
        !.records = Put(@, work.key, [work |-> work, applied |-> {}, computed |-> FALSE,
                                      completed |-> FALSE]),
        !.sequence[work.key[1]] = work.key[2] + 1,
        \* publish_dispatch
        !.issued[work.role] = [r \in Requests |->
            IF r \notin Members(work) THEN @[r]
            ELSE IF work.role = "D" THEN work.round[r] ELSE work.round[r] + 1],
        !.pending[work.role] = @ \ {work}], SentWakes(work))

(***************************************************************************)
(* Facts.  A poll returns some of the rows that changed since they were    *)
(* accepted; validate_fact judges each against the cache as it was before  *)
(* the batch.                                                              *)
(***************************************************************************)
Changed(e) == {c \in Cells : rows[c] # e.rows[c]}

\* validate_fact for a result row.
ResultVerdict(e, c) ==
    LET row == rows[c]
        known == Authorised(e, c[1], c[3], row.round)
    IN  IF known = {} THEN "result has no WORK authorization"
        ELSE IF known # {row.work} THEN "result WORK fence mismatch"
        ELSE "accept"

\* _validate_copy: a copy row may outlive its record, and is dropped when a
\* newer result has been accepted.
CopyVerdict(e, c) ==
    LET row == rows[c]
        known == Authorised(e, c[1], c[3], row.round)
        result == Result(e, c[1], c[3])
    IN  IF known = {} /\ result.round # row.round THEN "drop"
        ELSE IF known # {} /\ c[2] = "import"
                /\ \E k \in known : row.version # e.records[k].work.source[c[3]]
             THEN "copy dependency ticket mismatch"
        ELSE IF row.work \notin (IF known = {} THEN {result.work} ELSE known)
             THEN "copy WORK fence mismatch"
        ELSE IF c[2] = "host" /\ result.round = row.round /\ row.version # result.version
             THEN "HostKV/result ticket mismatch"
        ELSE "accept"

Verdict(e, c) == IF c[2] = "result" THEN ResultVerdict(e, c) ELSE CopyVerdict(e, c)

\* Mutation of Consumed: the end of the output is not noticed.
ConsumedOpen(request, row) ==
    IF row.round <= request.round THEN request
    ELSE [lifecycle |-> request.lifecycle, count |-> row.count, round |-> row.round]

\* OutputManager.consume_row.
Consumed(request, row) ==
    IF row.round <= request.round THEN request
    ELSE IF request.lifecycle # "active" THEN [request EXCEPT !.round = row.round]
    ELSE [lifecycle |-> IF row.finished THEN "finished" ELSE "active",
          count |-> row.count, round |-> row.round]

PrefixMismatch(request, row) ==
    /\ row.round > request.round
    /\ row.count < request.count \/ row.count > MaxNew

\* result_applied: the executed member's result has arrived; a result that
\* skips a round stands for the rounds it skipped.
Applied(e, k, r) ==
    LET work == e.records[k].work
        Previous(s) == IF s = "D" THEN Larger(Result(e, s, r).round, 0) ELSE Result(e, s, r).round
        Skips(c) == c[2] = "result" /\ rows[c].round > Previous(c[1]) + 1
        c == <<work.role, "result", r>>
    IN  \/ work.round[r] = rows[c].round
        \/ Skips(c) /\ work.round[r] <= rows[c].round

\* Mutation of FactWakes: a result wakes its own stage only.
FactWakesOwn(good) ==
    Everyone({s \in Roles : \E c \in good : c[1] = s /\ c[2] # "import"})

\* WorkProgress.observed: a result may open either stage, a host row its own.
FactWakes(good) ==
    IF \E c \in good : c[2] = "result" THEN Everyone(Roles)
    ELSE Everyone({s \in Roles : DirectImports /\ \E c \in good : c[1] = s /\ c[2] = "host"})

\* apply_facts for the accepted rows of a batch.
ApplyFacts(e, batch) ==
    LET good == {c \in batch : Verdict(e, c) = "accept"}
    IN  Wake([e EXCEPT
            !.rows = [c \in Cells |-> IF c \in good THEN rows[c] ELSE @[c]],
            !.req = [r \in Requests |->
                IF <<"T", "result", r>> \in good THEN Consumed(@[r], rows[<<"T", "result", r>>])
                ELSE @[r]],
            !.records = [k \in DOMAIN e.records |->
                [e.records[k] EXCEPT !.applied = @ \cup
                    {r \in Members(e.records[k].work) :
                        /\ <<e.records[k].work.role, "result", r>> \in good
                        /\ Applied(e, k, r)}]]], FactWakes(good))

\* The Bank rows: a Bank is seen occupied while a WORK that has computed is on
\* it (before that the record alone keeps it).
OccupiedBanks ==
    {p \in Workers \X Banks :
        LateRows /\ \E k \in DOMAIN jobs : <<k[1], jobs[k].work.bank>> = p /\ jobs[k].computed}

\* Mutation of ReadWorkers: a Bank row that turns EMPTY wakes nobody.
ReadWorkersQuiet(e) ==
    LET computed == {k \in DOMAIN e.records :
                        DirectImports
                        /\ (k \in DOMAIN completions \/ (k \in DOMAIN jobs /\ jobs[k].computed))}
        ended == {k[1] : k \in {k \in computed : ~ e.records[k].computed}}
    IN  Wake([e EXCEPT
                 !.occupied = OccupiedBanks,
                 !.records = [k \in DOMAIN e.records |->
                     [e.records[k] EXCEPT !.computed = @ \/ k \in computed]]],
             Roles \X ended)

\* The Bank and runtime rows, which a poll reads first, and the compute_done that
\* refresh infers from them; it matters only where a WORK may queue behind another.
ReadWorkers(e) ==
    LET computed == {k \in DOMAIN e.records :
                        DirectImports
                        /\ (k \in DOMAIN completions \/ (k \in DOMAIN jobs /\ jobs[k].computed))}
        freed == {p[1] : p \in e.occupied \ OccupiedBanks}
        ended == {k[1] : k \in {k \in computed : ~ e.records[k].computed}}
    IN  Wake([e EXCEPT
                 !.occupied = OccupiedBanks,
                 !.records = [k \in DOMAIN e.records |->
                     [e.records[k] EXCEPT !.computed = @ \/ k \in computed]]],
             Roles \X (freed \cup ended))

FactsMismatch(e, batch) ==
    \/ \E c \in batch : Verdict(e, c) \notin {"accept", "drop"}
    \/ \E c \in batch : /\ c[1] = "T" /\ c[2] = "result"
                        /\ Verdict(e, c) = "accept"
                        /\ PrefixMismatch(e.req[c[3]], rows[c])

\* observe_completions, then the retirement part of refresh.
ObserveCompletions(e) ==
    LET new == {k \in DOMAIN completions : ~ e.records[k].completed}
    IN  Wake([e EXCEPT !.records = [k \in DOMAIN e.records |->
                 [e.records[k] EXCEPT !.completed = @ \/ k \in new, !.computed = @ \/ k \in new]]],
             Roles \X {k[1] : k \in new})

\* Mutation of Retirable: one applied member retires the whole WORK.
RetirableFirst(e) ==
    {k \in DOMAIN e.records :
        /\ e.records[k].completed
        /\ completions[k] \cap e.records[k].applied # {} \/ completions[k] = {}}

Retirable(e) ==
    {k \in DOMAIN e.records :
        e.records[k].completed /\ completions[k] \subseteq e.records[k].applied}

\* A retired record gives its credit back.
Refresh(e) ==
    Wake([e EXCEPT !.records = Without(@, Retirable(e))], Roles \X {k[1] : k \in Retirable(e)})

\* advance clears the dirty workers of a stage for which it finds no plan.
Settle(e) ==
    [e EXCEPT !.dirty = [s \in Roles |->
        IF e.pending[s] = {} /\ ~ Plannable(e, s, @[s], Requests) THEN {} ELSE @[s]]]

\* What the Engine holds after a poll: the facts of a batch, the worker rows
\* unless their publication was in progress (fresh), the completions when the
\* caller reads them, and the records it can retire.
Observed(e, batch, fresh, reading) ==
    LET facts == ApplyFacts(e, batch)
        seen == IF fresh THEN ReadWorkers(facts) ELSE facts
    IN  Settle(Refresh(IF reading THEN ObserveCompletions(seen) ELSE seen))

Batches(e) == {S \in SUBSET Changed(e) : Cardinality(S) <= PollBudget}

\* The rest of a step, after any dispatch: e is the Engine by then.
Finish(e, batch, fresh, reading) ==
    IF FactsMismatch(e, batch)
    THEN /\ Fail("invalid fact")
         /\ eng' = e
         /\ UNCHANGED completions
    ELSE /\ eng' = Observed(e, batch, fresh, reading)
         /\ completions' = Without(completions, DOMAIN e.records \ DOMAIN eng'.records)
         /\ UNCHANGED failure

Running == failure = "none"

\* Client: Engine.admit.
Admit(r) ==
    /\ Running
    /\ eng.req[r].lifecycle = "absent"
    /\ eng' = Wake([eng EXCEPT !.req[r].lifecycle = "active"], Everyone({"T"}))
    /\ UNCHANGED <<rows, jobs, completions, failure>>

\* Engine.step up to advance: facts, completions, refresh.
Observe ==
    /\ Running
    /\ \E batch \in Batches(eng), fresh \in {TRUE, ~ LateRows} : Finish(eng, batch, fresh, TRUE)
    /\ eng' # eng \/ failure' # failure
    /\ UNCHANGED <<rows, jobs>>

\* Mutation of NewJob: the import does not wait for its source.
NewJobSourceless(work) ==
    [work |-> work,
     watch |-> [r \in Members(work) |->
         IF work.initial /\ work.role = "T" THEN {} ELSE {"classified", "predecessor"}],
     got |-> [r \in Members(work) |-> [n \in Names |-> NoFact]],
     skip |-> {}, computed |-> FALSE,
     imported |-> {}, published |-> {}, exported |-> {},
     out |-> [r \in Members(work) |-> NoFact]]

NewJob(work) ==
    [work |-> work,
     watch |-> [r \in Members(work) |->
         IF ~ work.initial THEN Names
         ELSE IF work.role = "D" THEN {"classified", "predecessor"} ELSE {}],
     got |-> [r \in Members(work) |-> [n \in Names |-> NoFact]],
     skip |-> {}, computed |-> FALSE,
     imported |-> {}, published |-> {}, exported |-> {},
     out |-> [r \in Members(work) |-> NoFact]]

\* dispatch_work, followed by the poll at the end of the phase.
Dispatch(e, work) ==
    IF SentMismatch(e, work)
    THEN Fail("duplicate authorization") /\ UNCHANGED <<eng, rows, jobs, completions>>
    ELSE /\ jobs' = Put(jobs, work.key, NewJob(work))
         /\ \E batch \in Batches(e) : Finish(Sent(e, work), batch, TRUE, FALSE)
         /\ UNCHANGED rows

\* WorkProgress.advance, one plan.  A stage plans only when nothing of it is
\* pending.  The plans of one call of the scheduler go to different workers and
\* share no request, so that they can be taken one after the other, the one
\* that meets a full ring last: its frozen WORK stays pending.
Schedule(s) ==
    /\ Running
    /\ eng.pending[s] = {}
    /\ \E w \in eng.dirty[s], initial \in BOOLEAN : \E b \in Capacity(eng, w) :
        LET ready == {r \in Requests :
                         IF initial THEN EligibleInitial(eng, s, r) ELSE EligibleNext(eng, s, r)}
        IN  \E batch \in SUBSET ready \ {{}} :
                /\ Fits(eng, w, b, batch)
                /\ \E work \in {Build(eng, s, w, b, batch, initial)} :
                    IF FreezeMismatch(eng, work)
                    THEN /\ Fail("direct import source does not match frozen WORK")
                         /\ UNCHANGED <<eng, rows, jobs, completions>>
                    ELSE \/ Dispatch(eng, work)
                         \/ /\ FullRings
                            /\ ~ Plannable(eng, s, eng.dirty[s] \ {w}, Requests \ batch)
                            /\ eng' = [eng EXCEPT !.pending[s] = {work}, !.dirty[s] = {}]
                            /\ UNCHANGED <<rows, jobs, completions, failure>>

\* WorkProgress.advance, a WORK that met a full ring before.
Resend(s) ==
    /\ Running
    /\ \E work \in eng.pending[s] : Dispatch(eng, work)

(***************************************************************************)
(* Workers.                                                                *)
(***************************************************************************)

\* The row a dependency watches, and the ticket it expects.
Watched(job, r, name) ==
    CASE name = "classified" -> <<"T", "result", r>>
      [] name = "source" -> <<job.work.role, "host", r>>
      [] name = "predecessor" -> <<IF job.work.role = "D" THEN "T" ELSE "D", "result", r>>

Expected(job, r, name) ==
    CASE name = "classified" -> job.work.round[r] - 1
      [] name = "source" -> job.work.source[r]
      [] name = "predecessor" -> IF job.work.role = "D" THEN job.work.round[r] - 1
                                 ELSE job.work.round[r]

Ticket(name, row) == IF name = "source" THEN row.version ELSE row.round

\* Dependencies.poll for one watch.
Capture(k, r, name) ==
    /\ Running
    /\ name \in jobs[k].watch[r]
    /\ LET row == rows[Watched(jobs[k], r, name)]
           ticket == Ticket(name, row)
           expected == Expected(jobs[k], r, name)
       IN  \/ /\ ticket = expected
              /\ jobs' = [jobs EXCEPT
                    ![k].got[r][name] = row,
                    ![k].skip = IF name = "classified" /\ row.finished THEN @ \cup {r} ELSE @,
                    ![k].watch[r] = IF name = "classified" /\ row.finished THEN {}
                                    ELSE @ \ {name}]
              /\ UNCHANGED <<eng, rows, completions, failure>>
           \/ /\ ticket > expected
              /\ Fail("dependency overwritten before capture")
              /\ UNCHANGED <<eng, rows, jobs, completions>>

\* Members that are to execute: not FINISHED by their Target decision.
Live(job) == Members(job.work) \ job.skip

\* All the results are out: the export may end at any moment from here on.
ResultsOut(job) == job.computed /\ job.published = Live(job)

\* The WORKs of one Bank take turns: the next begins when the physical work
\* of the previous one has ended.
BankTurn(k) ==
    \A j \in DOMAIN jobs :
        (/\ j[1] = k[1] /\ j[2] < k[2]
         /\ jobs[j].work.bank = jobs[k].work.bank) => ResultsOut(jobs[j])

Importing(job) == IF job.work.initial \/ ~ ImportRows THEN {} ELSE Live(job)

\* The import of the Bank's turn: all sources are known.
PublishImport(k, r) ==
    /\ Running
    /\ \A m \in Members(jobs[k].work) : jobs[k].watch[m] \subseteq {"predecessor"}
    /\ BankTurn(k)
    /\ r \in Importing(jobs[k]) \ jobs[k].imported
    /\ rows' = [rows EXCEPT ![<<jobs[k].work.role, "import", r>>] =
           [NoFact EXCEPT !.round = jobs[k].work.round[r], !.work = k,
                          !.version = jobs[k].got[r]["source"].version]]
    /\ jobs' = [jobs EXCEPT ![k].imported = @ \cup {r}]
    /\ UNCHANGED <<eng, completions, failure>>

\* TargetInputs.compile_compute: the inputs of a verification agree.
TargetMismatch(job, r) ==
    LET got == job.got[r]
        count == got["source"].count
    IN  /\ ~ job.work.initial
        /\ \/ got["classified"].count # count
           \/ got["predecessor"].size > Minimum(job.work.budget[r], Depth)
           \/ count >= MaxNew
           \/ count + got["predecessor"].size > MaxNew

\* Mutation of TargetOutputs: only a stop token ends a request.
TargetOutputsUnbounded(job, r) ==
    LET got == job.got[r]
        before == IF job.work.initial THEN 0 ELSE got["source"].count
        most == IF job.work.initial THEN 1
                ELSE Minimum(got["predecessor"].size + 1, MaxNew - before)
    IN  {[round |-> job.work.round[r], work |-> job.work.key,
          version |-> IF job.work.initial THEN 1 ELSE got["source"].version + 2,
          count |-> before + t, size |-> t, finished |-> stop] :
            t \in 1 .. most, stop \in BOOLEAN}

\* TargetBackend._execute: a verification commits at least one token, at most
\* the proposal and one more, and never beyond the request's budget; a stop
\* token may end it.
TargetOutputs(job, r) ==
    LET got == job.got[r]
        before == IF job.work.initial THEN 0 ELSE got["source"].count
        most == IF job.work.initial THEN 1
                ELSE Minimum(got["predecessor"].size + 1, MaxNew - before)
    IN  {[round |-> job.work.round[r], work |-> job.work.key,
          version |-> IF job.work.initial THEN 1 ELSE got["source"].version + 2,
          count |-> before + t, size |-> t, finished |-> stop \/ before + t = MaxNew] :
            t \in 1 .. most, stop \in BOOLEAN}

\* Mutation of DraftCount: the correction token of the delta is forgotten.
DraftCountAccepted(job, r) ==
    IF job.work.initial THEN job.got[r]["predecessor"].size
    ELSE job.got[r]["source"].count + job.got[r]["predecessor"].size - 1

\* draft/inputs.reconcile and read_source: the tokens Target has committed,
\* counted from the Draft's own snapshot and the captured delta.
DraftCount(job, r) ==
    IF job.work.initial THEN job.got[r]["predecessor"].size
    ELSE job.got[r]["source"].count + job.got[r]["predecessor"].size

DraftLimit(job, r) ==
    Minimum(Minimum(job.work.budget[r], Depth), MaxNew - DraftCount(job, r))

DraftMismatch(job, r) ==
    LET got == job.got[r]
    IN  \/ got["predecessor"].size = 0
        \/ DraftLimit(job, r) <= 0
        \/ /\ ~ job.work.initial
           /\ \/ got["source"].round >= job.work.round[r]
              \/ got["predecessor"].size - 1 > got["source"].size

DraftOutputs(job, r) ==
    {[round |-> job.work.round[r], work |-> job.work.key,
      version |-> IF job.work.initial THEN 1 ELSE job.got[r]["source"].version + 1,
      count |-> DraftCount(job, r), size |-> n, finished |-> FALSE] :
        n \in 1 .. DraftLimit(job, r)}

Outputs(job, r) == IF job.work.role = "D" THEN DraftOutputs(job, r) ELSE TargetOutputs(job, r)
InputMismatch(job, r) == IF job.work.role = "D" THEN DraftMismatch(job, r) ELSE TargetMismatch(job, r)

\* A WORK with all its inputs computes its live members, or is skipped when
\* none is left.
Compute(k) ==
    /\ Running
    /\ ~ jobs[k].computed
    /\ \A r \in Members(jobs[k].work) : jobs[k].watch[r] = {}
    /\ BankTurn(k)
    /\ LET live == Live(jobs[k])
       IN  \/ /\ \E r \in live : InputMismatch(jobs[k], r)
              /\ Fail("inputs of a round disagree")
              /\ UNCHANGED <<eng, rows, jobs, completions>>
           \/ /\ \A r \in live : ~ InputMismatch(jobs[k], r)
              /\ \E out \in [live -> UNION {Outputs(jobs[k], r) : r \in live}] :
                    /\ \A r \in live : out[r] \in Outputs(jobs[k], r)
                    /\ jobs' = [jobs EXCEPT
                          ![k].computed = TRUE,
                          \* of the inputs only the source is named again
                          ![k].got = [r \in DOMAIN @ |->
                              [NewJob(jobs[k].work).got[r] EXCEPT !["source"] = jobs[k].got[r]["source"]]],
                          ![k].out = [r \in DOMAIN @ |-> IF r \in live THEN out[r] ELSE @[r]]]
              /\ UNCHANGED <<eng, rows, completions, failure>>

\* TargetPublisher._publish_result appends to the output of the previous round.
AppendMismatch(job, r) ==
    LET previous == rows[<<"T", "result", r>>]
        out == job.out[r]
    IN  /\ job.work.role = "T"
        /\ \/ out.count = 0 \/ out.count > MaxNew
           \/ IF out.round = 0 THEN out.count # out.size
              ELSE \/ previous.round # out.round - 1
                   \/ previous.count # out.count - out.size
                   \/ previous.finished

PublishResult(k, r) ==
    /\ Running
    /\ jobs[k].computed
    /\ r \in Live(jobs[k]) \ jobs[k].published
    /\ IF AppendMismatch(jobs[k], r)
       THEN /\ Fail("output append predecessor mismatch")
            /\ UNCHANGED <<eng, rows, jobs, completions>>
       ELSE /\ rows' = [rows EXCEPT ![<<jobs[k].work.role, "result", r>>] = jobs[k].out[r]]
            /\ jobs' = [jobs EXCEPT ![k].published = @ \cup {r}]
            /\ UNCHANGED <<eng, completions, failure>>

\* The export has ended.
PublishHost(k, r) ==
    /\ Running
    /\ ResultsOut(jobs[k])
    /\ jobs[k].imported = Importing(jobs[k])
    /\ r \in Live(jobs[k]) \ jobs[k].exported
    /\ rows' = [rows EXCEPT ![<<jobs[k].work.role, "host", r>>] = jobs[k].out[r]]
    /\ jobs' = [jobs EXCEPT ![k].exported = @ \cup {r}]
    /\ UNCHANGED <<eng, completions, failure>>

\* The last event of a WORK: its completion record.
Complete(k) ==
    /\ Running
    /\ ResultsOut(jobs[k])
    /\ jobs[k].imported = Importing(jobs[k])
    /\ jobs[k].exported = Live(jobs[k])
    /\ completions' = Put(completions, k, Live(jobs[k]))
    /\ jobs' = Without(jobs, {k})
    /\ UNCHANGED <<eng, rows, failure>>

Worker(k) ==
    \/ \E r \in Members(jobs[k].work), name \in Names : Capture(k, r, name)
    \/ \E r \in Members(jobs[k].work) : PublishImport(k, r)
    \/ Compute(k)
    \/ \E r \in Members(jobs[k].work) : PublishResult(k, r)
    \/ \E r \in Members(jobs[k].work) : PublishHost(k, r)
    \/ Complete(k)

\* Nothing is left to do: no request is active, no WORK is outstanding.
Quiescent ==
    /\ \A r \in Requests : ~ Active(eng, r)
    /\ DOMAIN eng.records = {}
    /\ DOMAIN jobs = {}
    /\ \A s \in Roles : eng.pending[s] = {} /\ eng.dirty[s] = {}

\* The Engine's loop waits for the next client call, or an exception has
\* poisoned it.
Idle ==
    /\ Quiescent \/ ~ Running
    /\ UNCHANGED vars

\* Everything but the client.
SystemStep ==
    \/ \E k \in DOMAIN jobs : Worker(k)
    \/ \E s \in Roles : Resend(s)
    \/ \E s \in Roles : Schedule(s)
    \/ Observe

Next ==
    \/ \E r \in Requests : Admit(r)
    \/ SystemStep
    \/ Idle

Spec == Init /\ [][Next]_vars

\* The Engine's loop polls and schedules again as long as something changed or
\* is pending, every worker is a loop over its WORKs, control drains its ring: not
\* all of them stop while one can do something.  Nothing more is assumed, no
\* fairness between them in particular.
Fairness == WF_vars(SystemStep)

FairSpec == Spec /\ Fairness

(***************************************************************************)
(* Properties.                                                             *)
(***************************************************************************)

\* No exception is reachable: every fact the Engine observes belongs to an
\* authorisation it still holds or to a copy it may drop, no dependency is
\* overwritten before it was captured, the inputs of a round agree with each
\* other and with the budget, and every output appends to its predecessor
\* (the raise statements of work_ledger.py, dependencies.py, inputs.py and
\* publication.py).
NoFailure == failure = "none"

\* A result is accepted, with no exception, before the next one of the same request
\* and role can replace it, and what the Engine tells the client is what Target published.
ResultsAccepted ==
    /\ NoFailure
    /\ \A r \in Requests :
        LET target == rows[<<"T", "result", r>>]
            request == eng.req[r]
        IN  /\ \A s \in Roles :
                  rows[<<s, "result", r>>].round <= Larger(Result(eng, s, r).round, 0) + 1
            /\ request.round \in {target.round - 1, target.round}
            /\ request.round = target.round =>
                  /\ request.count = target.count
                  /\ request.lifecycle = "finished" <=> target.finished
            /\ request.round < target.round => request.count < target.count

\* The host KV of a request has one writer per role at a time: a WORK takes its
\* source only after every earlier WORK of that role has exported the request.
OneWriter ==
    \A j, k \in DOMAIN jobs : \A r \in Live(jobs[j]) \cap Live(jobs[k]) :
        (/\ jobs[j].work.role = jobs[k].work.role
         /\ jobs[j].work.round[r] < jobs[k].work.round[r])
            => /\ "source" \in jobs[k].watch[r] \/ r \in jobs[j].exported
               /\ ~ jobs[k].computed \/ r \in jobs[j].exported

\* Admission reserves, for n output tokens, 2n + 4 completion records and n + 1
\* proposals: a request never needs more than n WORKs of either role.
WorkBudget ==
    \A r \in Requests, s \in Roles : eng.issued[s][r] <= MaxNew

\* No wake-up is missing: whenever the rows and records the Engine holds allow
\* some request of a stage on some worker, the stage has a dirty worker it can be
\* planned for, or a WORK to send first (WorkProgress.dirty is all that advance
\* looks at).
NoStrandedWork ==
    \A s \in Roles :
        /\ eng.pending[s] = {}
        /\ Plannable(eng, s, WorkersOf(s), Requests)
        => Plannable(eng, s, eng.dirty[s], Requests)

\* The pipeline is sequential speculative decoding: the rows the workers publish
\* change as the loop of SequentialDecoding would change them.
Sequential == INSTANCE SequentialDecoding WITH
    output <- [r \in Requests |-> rows[<<"T", "result", r>>].count],
    finished <- [r \in Requests |-> rows[<<"T", "result", r>>].finished],
    verified <- [r \in Requests |-> rows[<<"T", "result", r>>].round],
    drafted <- [r \in Requests |-> Larger(rows[<<"D", "result", r>>].round, 0)],
    proposal <- [r \in Requests |-> [base |-> rows[<<"D", "result", r>>].count,
                                     size |-> rows[<<"D", "result", r>>].size]]
DecodesSequentially == Sequential!Spec

\* Every admitted request finishes and every WORK retires, with no exception even
\* from the rows that are observed last, so that the cohort becomes quiescent and
\* can be recycled.
BecomesQuiescent == <>[](Quiescent /\ NoFailure)
=============================================================================
