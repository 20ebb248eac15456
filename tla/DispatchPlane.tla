----------------------------- MODULE DispatchPlane -----------------------------
(***************************************************************************)
(* Dispatch of scheduler decisions to worker command rings and the facts   *)
(* that follow (scheduler/commands.py, table/draft_dispatch.py,            *)
(* ipc/dispatch_fenced_consumer.py, the WorkerCommandCache of              *)
(* ipc/protocol.py, ipc/draft_protocol.py).  A command enters the worker's *)
(* ring BEFORE its dispatch facts enter the request rows, so its consumer  *)
(* holds it until the facts of every member are visible; the worker then   *)
(* applies it to its cache, computes or copies, and publishes facts of its *)
(* own through the writers of RequestRows, member by member.  A writer     *)
(* checks its fences in one step and publishes in a later one.             *)
(*                                                                         *)
(* The scheduler that chooses commands is external.  It sends a command    *)
(* when the facts it has seen allow it, may prepare a Draft from any       *)
(* snapshot it has ever seen, never gives a worker a request its cache     *)
(* still holds from an earlier lifetime, and prepares a Target for the     *)
(* next round only after the result of the last.  The Engine reuses a slot *)
(* when no command or job of the old request is left.                      *)
(***************************************************************************)
EXTENDS RequestRows, FiniteSetsExt

CONSTANTS Slots, DraftWorkers, Targets,
          Used,            \* slots that served a request before
          Batches,         \* sets of slots; a behaviour serves the slots of one
          RingCapacity,    \* headers a command ring holds
          MaxRound,        \* bound on the rounds of the requests in a batch together
          MaxEpoch         \* bound on the lifetimes of a slot

ASSUME DispatchAssumption ==
    /\ RingCapacity \in Nat \ {0} /\ MaxRound \in Nat /\ MaxEpoch \in Nat
    /\ Used \subseteq Slots /\ Batches \subseteq (SUBSET Slots) \ {{}}
    /\ None \notin DraftWorkers \cup Targets /\ DraftWorkers \cap Targets = {}

VARIABLES rows,      \* the request table
          clock,     \* last command sequence; also numbers operations and batches
          sending,   \* the command whose facts the dispatcher is publishing
          pend,      \* worker |-> its frozen, unconsumed prepare
          ring,      \* worker |-> its command ring
          awake,     \* worker |-> its doorbell was rung since it last found nothing
          got,       \* worker |-> command taken from the ring, waiting for its facts
          cache,     \* worker |-> its WorkerCommandCache
          jobs,      \* the commands' members being executed
          mem,       \* KV versions held by hosts and banks
          placed,    \* worker |-> slot |-> epoch the scheduler placed there
          snaps,     \* slot |-> Draft snapshots the scheduler has seen
          refused    \* kinds of commands and jobs a worker refused

dispatchVars == <<rows, clock, sending, pend, ring, awake, got, cache, jobs, mem,
                  placed, snaps, refused>>

Workers == DraftWorkers \cup Targets
Epoch(s) == rows[s].engine.request_epoch
KV(epoch, version) == [epoch |-> epoch, version |-> version]
Holds(kv, epoch, version) ==
    kv.epoch > epoch \/ (kv.epoch = epoch /\ kv.version >= version)

EmptyCache == [last |-> 0, entries |-> [s \in Slots |-> None], pending |-> None,
               batches |-> [b \in {0, 1} |-> None]]

\* What a finished request that migrated once leaves behind: its row, the
\* snapshots the scheduler saw and its bytes on the hosts.  Its workers are
\* outside the instance and show as None.
OldOp(round, op) == [request_epoch |-> 1, round_id |-> round, op_seq |-> op]
OldSource == SnapshotIdentity(None, 0, 1, 1, OldOp(1, 2))
OldSnapshot == SnapshotIdentity(None, 1, 2, 1, OldOp(2, 5))
OldPrepare == Over([source |-> OldSource, owner_epoch |-> 1], OldOp(2, 4))
OldTarget == Over([writer_lease |-> 1, source_host_version |-> 1], OldOp(2, 6))

Residue ==
    [engine |-> [request_epoch |-> 1, active |-> FALSE],
     dispatch |-> Over(PrepareValues(None, 4, OldPrepare),
        [draft_issue_seq |-> 5, draft_round_id |-> 2, draft_worker_id |-> None,
         target_prepare_seq |-> 3, target_run_seq |-> 6, target_round_id |-> 2,
         planned_target_id |-> None, planned_bank |-> 3, draft_owner_epoch |-> 1,
         draft_run_batch |-> 4]),
     draft |-> Ready(OldSnapshot, 4), target |-> ReadyDraft(None, 3, OldTarget),
     d2h |-> HostReady(None, OldTarget), h2d |-> H2DWait(None, OldTarget, "GPU_READY"),
     hostkv |-> [request_epoch |-> 1, writer_lease |-> 1],
     draft_hostkv |-> [request_epoch |-> 1, allocation |-> 1],
     draft_d2h |-> D2HValues(OldSnapshot, 4, "HOST_READY"),
     draft_h2d |-> PublishH2DValues(None, 4, OldPrepare, "GPU_READY")]

\* Slots outside the chosen batch have no lifetime left.
InitDispatch ==
    /\ \E S \in Batches :
        rows = [s \in Slots |-> LET r == IF s \in Used THEN Residue ELSE EmptyRow IN
                                IF s \in S THEN r ELSE [r EXCEPT !.engine.request_epoch = MaxEpoch]]
    /\ snaps = [s \in Slots |-> IF s \in Used THEN {OldSource, OldSnapshot} ELSE {}]
    /\ clock = 6
    /\ mem = [host |-> [s \in Slots |-> IF s \in Used THEN KV(1, Residue.d2h.ready_version) ELSE KV(0, 0)],
              draftHost |-> [s \in Slots |-> IF s \in Used THEN KV(1, 2) ELSE KV(0, 0)],
              bank |-> [w \in Workers |-> [s \in Slots |-> KV(0, 0)]]]
    /\ sending = None /\ jobs = {} /\ refused = {}
    /\ pend = [w \in Workers |-> None]
    /\ ring = [w \in Workers |-> << >>] /\ got = [w \in Workers |-> None]
    /\ awake = [w \in Workers |-> FALSE]
    /\ cache = [w \in Workers |-> EmptyCache]
    /\ placed = [w \in Workers |-> [s \in Slots |-> 0]]

(***************************************************************************)
(* Engine: a slot is admitted again once nothing of its last request runs. *)
(***************************************************************************)
Names(c, s) == c # None /\ (c # None => s \in DOMAIN c.rows)
Quiet(s) ==
    /\ sending = None /\ \A j \in jobs : ~Names(j, s)
    /\ \A w \in Workers : ~Names(got[w], s) /\ \A i \in DOMAIN ring[w] : ~Names(ring[w][i], s)

Admit(s) ==
    /\ ~rows[s].engine.active /\ Quiet(s) /\ Epoch(s) < MaxEpoch
    /\ rows' = [rows EXCEPT ![s] = PublishDraftAllocation(PublishAllocation(PublishActive(@)))]
    /\ UNCHANGED <<clock, sending, pend, ring, awake, got, cache, jobs, mem, placed, snaps, refused>>

Finish(s) ==
    /\ rows[s].engine.active /\ sending = None
    /\ Expect(rows[s].target, [request_epoch |-> Epoch(s), status |-> "READY_DRAFT"])
    /\ rows' = [rows EXCEPT ![s] = PublishLifecycle(@)]
    /\ UNCHANGED <<clock, sending, pend, ring, awake, got, cache, jobs, mem, placed, snaps, refused>>

(***************************************************************************)
(* Commands.  A command names a worker and, per member slot, a request row *)
(* of its kind; seq is the command sequence.                               *)
(***************************************************************************)
Command(kind, worker, batch, members) ==
    [kind |-> kind, worker |-> worker, seq |-> clock + 1, batch |-> batch, rows |-> members]

\* The run executes exactly the frozen prepare: same worker, batch and
\* members, each with the owner and snapshot the prepare announced.
ValidatePreparedRun(p, c) ==
    /\ p.worker = c.worker /\ p.batch = c.batch /\ DOMAIN p.rows = DOMAIN c.rows
    /\ \A s \in DOMAIN c.rows :
        /\ p.rows[s].request_epoch = c.rows[s].request_epoch
        /\ p.rows[s].round_id = c.rows[s].round_id
        /\ p.rows[s].owner_epoch = c.rows[s].owner_epoch
        /\ p.rows[s].source.snapshot_version = c.rows[s].snapshot_version
        /\ c.rows[s].op_seq > p.rows[s].source.op_seq

PreflightInitial(c, s) ==
    /\ ~(/\ rows[s].dispatch.request_epoch = c.rows[s].request_epoch
         /\ HasDraftDispatch(rows[s].dispatch))
    /\ rows[s].draft.request_epoch # c.rows[s].request_epoch

\* Mutant: a frozen prepare of the worker may be overwritten.
PreflightPrepareOverwrites(c) ==
    /\ \A w \in DraftWorkers \ {c.worker}, s \in DOMAIN c.rows : ~Names(pend[w], s)
    /\ \A s \in DOMAIN c.rows : ValidateSource(rows[s], c.rows[s].source)

PreflightPrepare(c) ==
    /\ pend[c.worker] = None
    /\ \A w \in DraftWorkers, s \in DOMAIN c.rows : ~Names(pend[w], s)
    /\ \A s \in DOMAIN c.rows : LET src == c.rows[s].source IN
        /\ ValidateSource(rows[s], src)
        /\ Expect(rows[s].dispatch,
            [request_epoch |-> c.rows[s].request_epoch, draft_owner_epoch |-> src.owner_epoch,
             draft_worker_id |-> src.worker_id, draft_round_id |-> src.round_id,
             draft_issue_seq |-> src.op_seq])
        /\ c.rows[s].op_seq > rows[s].dispatch.draft_prepare_seq

PreflightRun(c) ==
    /\ pend[c.worker] # None
    /\ ValidatePreparedRun(pend[c.worker], c)
    /\ \A s \in DOMAIN c.rows : LET p == pend[c.worker].rows[s] IN
        /\ ValidatePrepare(rows[s], c.worker, c.batch, p, FALSE)
        /\ ValidateHostReady(rows[s], p.source)
        /\ Expect(rows[s].draft_h2d, PublishH2DValues(c.worker, c.batch, p, "GPU_READY"))
        /\ Expect(rows[s].dispatch,
            [draft_owner_epoch |-> p.source.owner_epoch, draft_worker_id |-> p.source.worker_id,
             draft_issue_seq |-> p.source.op_seq])
        /\ Expect(rows[s].target,
            [request_epoch |-> p.request_epoch, round_id |-> p.source.round_id,
             observed_run_seq |-> rows[s].dispatch.target_run_seq, status |-> "READY_DRAFT"])

Preflight(c) ==
    /\ c.kind = "initial" => \A s \in DOMAIN c.rows : PreflightInitial(c, s)
    /\ c.kind = "dprepare" => PreflightPrepare(c)
    /\ c.kind = "drun" => PreflightRun(c)
    /\ c.kind # "remove" => \A s \in DOMAIN c.rows : Epoch(s) = c.rows[s].request_epoch

\* The command enters the ring; its facts follow in later steps.
Dispatch(c) ==
    /\ Len(ring[c.worker]) < RingCapacity /\ Preflight(c)
    /\ ring' = [ring EXCEPT ![c.worker] = Append(@, c)]
    /\ awake' = [awake EXCEPT ![c.worker] = TRUE]
    /\ sending' = [cmd |-> c, left |-> IF c.kind = "remove" THEN {} ELSE DOMAIN c.rows]
    /\ clock' = clock + 1
    /\ UNCHANGED <<rows, pend, got, cache, jobs, mem, snaps, refused>>

FactRow(c, s) ==
    LET r == rows[s]
        q == c.rows[s] IN
    CASE c.kind \in {"initial", "legacy", "delta"} -> PublishDraftCommandSent(r, c.worker, c.batch, q)
      [] c.kind \in {"prefill", "trun"} -> PublishRunCommandSent(r, c.worker, c.batch, q)
      [] c.kind = "tprepare" -> PublishPrepareCommandSent(r, c.worker, c.batch, q)
      [] c.kind = "dprepare" -> Publish(r, "dispatch", PrepareValues(c.worker, c.batch, q))
      [] c.kind = "drun" -> Publish(r, "dispatch",
            [request_epoch |-> q.request_epoch, draft_issue_seq |-> q.op_seq,
             draft_round_id |-> q.round_id, draft_worker_id |-> c.worker,
             draft_owner_epoch |-> q.owner_epoch, draft_run_batch |-> c.batch])

PublishDispatchFact(s) ==
    /\ sending # None /\ s \in sending.left
    /\ rows' = [rows EXCEPT ![s] = FactRow(sending.cmd, s)]
    /\ sending' = [sending EXCEPT !.left = @ \ {s}]
    /\ UNCHANGED <<clock, pend, ring, awake, got, cache, jobs, mem, placed, snaps, refused>>

\* Mutant: the consumer is not woken again once the facts are visible.
SentSilently ==
    /\ sending # None /\ sending.left = {}
    /\ sending' = None
    /\ pend' = [pend EXCEPT ![sending.cmd.worker] =
                  IF sending.cmd.kind \in {"dprepare", "tprepare"} THEN sending.cmd
                  ELSE IF sending.cmd.kind \in {"drun", "trun"} THEN None ELSE @]
    /\ UNCHANGED <<rows, clock, ring, awake, got, cache, jobs, mem, placed, snaps, refused>>

\* All facts are visible: freeze or consume the prepare, wake the worker again.
Sent ==
    /\ sending # None /\ sending.left = {}
    /\ sending' = None
    /\ pend' = [pend EXCEPT ![sending.cmd.worker] =
                  IF sending.cmd.kind \in {"dprepare", "tprepare"} THEN sending.cmd
                  ELSE IF sending.cmd.kind \in {"drun", "trun"} THEN None ELSE @]
    /\ awake' = [awake EXCEPT ![sending.cmd.worker] = got[sending.cmd.worker] # None \/ ring[sending.cmd.worker] # << >>]
    /\ UNCHANGED <<rows, clock, ring, got, cache, jobs, mem, placed, snaps, refused>>

(***************************************************************************)
(* The scheduler's decisions.                                              *)
(***************************************************************************)
TargetResult(s) ==
    Expect(rows[s].target, [request_epoch |-> Epoch(s), status |-> "READY_DRAFT"])
DraftResult(s) ==
    Expect(rows[s].draft, [request_epoch |-> Epoch(s), status |-> "READY_TARGET",
                           observed_issue_seq |-> rows[s].dispatch.draft_issue_seq])
Rounds(S) == MaxRound \div Cardinality(S)
NextOp(s, round) == [request_epoch |-> Epoch(s), round_id |-> round, op_seq |-> clock + 1]
Place(w, S) == placed' = [placed EXCEPT ![w] = [s \in Slots |-> IF s \in S THEN Epoch(s) ELSE @[s]]]

\* The row of each kind of command: the round and operation it names, and of its
\* payload the ticket that a fence compares.
PrefillRequest(s) == Over([writer_lease |-> rows[s].hostkv.writer_lease], NextOp(s, 0))
NewRequest(s) == Over([allocation |-> rows[s].draft_hostkv.allocation], NextOp(s, 1))
RequestDelta(s) ==
    Over([allocation |-> rows[s].draft_hostkv.allocation], NextOp(s, rows[s].draft.round_id + 1))
RemovedRequest(s, d) == [request_epoch |-> placed[d][s]]
TargetPrepareRequest(s) ==
    Over([source_host_version |-> rows[s].target.round_id], NextOp(s, rows[s].target.round_id + 1))
RunTargetRequest(t, s) ==
    Over([writer_lease |-> rows[s].hostkv.writer_lease], NextOp(s, pend[t].rows[s].round_id))
DraftPrepareRequest(s, source) ==
    Over([request_epoch |-> source.request_epoch, source |-> source,
          owner_epoch |-> source.owner_epoch + 1], NextOp(s, source.round_id + 1))
DraftRunRequest(p) ==
    [request_epoch |-> p.request_epoch, round_id |-> p.round_id, op_seq |-> clock + 1,
     owner_epoch |-> p.owner_epoch, snapshot_version |-> p.source.snapshot_version,
     allocation |-> p.source.allocation]

SendPrefill(S, t) ==
    /\ sending = None
    /\ \A s \in S : /\ rows[s].engine.active /\ placed[t][s] = 0
                    /\ rows[s].dispatch.request_epoch # Epoch(s)
    /\ pend[t] # None => pend[t].batch % 2 # (clock + 1) % 2
    /\ Dispatch(Command("prefill", t, clock + 1, [s \in S |-> PrefillRequest(s)]))
    /\ Place(t, S)

SendDraft(S, d, kind) ==
    /\ sending = None
    /\ \A s \in S : /\ rows[s].engine.active /\ placed[d][s] = 0 /\ TargetResult(s)
                    /\ ~HasDraftDispatch(rows[s].dispatch)
    /\ Dispatch(Command(kind, d, IF kind = "initial" THEN clock + 1 ELSE 0,
            [s \in S |-> NewRequest(s)]))
    /\ Place(d, S)

SendDelta(S, d) ==
    /\ sending = None
    /\ \A s \in S : /\ rows[s].engine.active /\ TargetResult(s) /\ DraftResult(s)
                    /\ rows[s].draft.worker_id = d /\ rows[s].dispatch.draft_run_batch = 0
                    /\ rows[s].target.round_id = rows[s].draft.round_id
                    /\ rows[s].draft.round_id < Rounds(S)
    /\ Dispatch(Command("delta", d, 0, [s \in S |-> RequestDelta(s)]))
    /\ UNCHANGED placed

SendRemove(s, d) ==
    /\ sending = None
    /\ ~rows[s].engine.active /\ placed[d][s] # 0
    /\ Dispatch(Command("remove", d, 0, [x \in {s} |-> RemovedRequest(s, d)]))
    /\ placed' = [placed EXCEPT ![d][s] = 0]

SendTargetPrepare(S, t) ==
    /\ sending = None
    /\ pend[t] = None /\ \A u \in Targets, s \in S : ~Names(pend[u], s)
    /\ \A s \in S : /\ rows[s].engine.active /\ TargetResult(s)
                    /\ rows[s].target.observed_run_seq = rows[s].dispatch.target_run_seq
                    /\ placed[t][s] \in {0, Epoch(s)} /\ rows[s].target.round_id < Rounds(S)
    /\ Dispatch(Command("tprepare", t, clock + 1, [s \in S |-> TargetPrepareRequest(s)]))
    /\ Place(t, S)

SendTargetRun(t) ==
    /\ sending = None
    /\ pend[t] # None
    /\ \A s \in DOMAIN pend[t].rows :
        /\ rows[s].engine.active /\ DraftResult(s)
        /\ rows[s].draft.round_id = pend[t].rows[s].round_id
        /\ Expect(rows[s].h2d, [request_epoch |-> Epoch(s), status |-> "GPU_READY",
                                observed_prepare_seq |-> pend[t].rows[s].op_seq])
    /\ Dispatch(Command("trun", t, pend[t].batch,
            [s \in DOMAIN pend[t].rows |-> RunTargetRequest(t, s)]))
    /\ UNCHANGED placed

SendDraftPrepare(S, d) ==
    /\ sending = None
    /\ \A s \in S : rows[s].engine.active
    /\ \E source \in [S -> UNION {snaps[s] : s \in S}] :
        /\ \A s \in S : source[s] \in snaps[s] /\ source[s].round_id < Rounds(S)
        /\ Dispatch(Command("dprepare", d, clock + 1,
            [s \in S |-> DraftPrepareRequest(s, source[s])]))
    /\ UNCHANGED placed

SendDraftRun(d) ==
    /\ sending = None
    /\ pend[d] # None /\ \A s \in DOMAIN pend[d].rows : rows[s].engine.active
    /\ Dispatch(Command("drun", d, pend[d].batch,
        [s \in DOMAIN pend[d].rows |-> DraftRunRequest(pend[d].rows[s])]))
    /\ UNCHANGED placed

(***************************************************************************)
(* The worker's command cache.  Nothing of a command is kept when one of   *)
(* its rows is refused.                                                    *)
(***************************************************************************)
Entry(q, batch) == [request_epoch |-> q.request_epoch, round_id |-> q.round_id,
                    op_seq |-> q.op_seq, prepared |-> batch]
Keys(c) == {<<s, c.rows[s].request_epoch>> : s \in DOMAIN c.rows}
Bank(c) == c.batch % 2

OperationIsNewer(q, entry) ==
    \/ q.round_id > entry.round_id
    \/ q.round_id = entry.round_id /\ q.op_seq > entry.op_seq

\* New requests need a free entry, and Target prefills a free Bank besides.
NewOK(k, c) == \A s \in DOMAIN c.rows : k.entries[s] = None
BankFree(k, c) == k.batches[Bank(c)] # None => k.batches[Bank(c)].consumed
TargetPrefillOK(k, c) == BankFree(k, c) /\ \A s \in DOMAIN c.rows : k.entries[s] = None

\* A delta continues the cached lifetime, forward.
DeltaOK(k, c) ==
    \A s \in DOMAIN c.rows :
        /\ k.entries[s] # None
        /\ k.entries[s].request_epoch = c.rows[s].request_epoch
        /\ OperationIsNewer(c.rows[s], k.entries[s])

\* A Target prepare is a request's first arrival or continues its lifetime.
TargetPrepareOK(k, c) ==
    \A s \in DOMAIN c.rows : k.entries[s] # None =>
        /\ k.entries[s].request_epoch = c.rows[s].request_epoch
        /\ OperationIsNewer(c.rows[s], k.entries[s])

RunOK(k, c) ==
    \A s \in DOMAIN c.rows :
        /\ k.entries[s] # None
        /\ k.entries[s].request_epoch = c.rows[s].request_epoch
        /\ k.entries[s].prepared = c.batch
        /\ OperationIsNewer(c.rows[s], k.entries[s])

RemoveOK(k, c) ==
    \A s \in DOMAIN c.rows :
        /\ k.entries[s] # None => k.entries[s].request_epoch = c.rows[s].request_epoch
        /\ \A b \in {0, 1} : k.batches[b] # None =>
               k.batches[b].consumed \/ <<s, c.rows[s].request_epoch>> \notin k.batches[b].keys

PreparedBatchMatches(k, c) ==
    /\ k.batches[Bank(c)] # None
    /\ k.batches[Bank(c)].batch = c.batch /\ ~k.batches[Bank(c)].consumed
    /\ k.batches[Bank(c)].keys = Keys(c)

\* The worker's own frozen prepare (DraftPreparedContract).
AcceptOK(k, c) ==
    IF c.kind = "dprepare" THEN k.pending = None
    ELSE k.pending # None /\ (k.pending # None => ValidatePreparedRun(k.pending, c))

ApplyOK(k, c) ==
    /\ c.seq > k.last
    /\ CASE c.kind \in {"dprepare", "drun"} -> AcceptOK(k, c)
         [] c.kind \in {"initial", "legacy"} -> NewOK(k, c)
         [] c.kind = "delta" -> DeltaOK(k, c)
         [] c.kind = "remove" -> RemoveOK(k, c)
         [] c.kind = "prefill" -> TargetPrefillOK(k, c)
         [] c.kind = "tprepare" -> BankFree(k, c) /\ TargetPrepareOK(k, c)
         [] c.kind = "trun" -> PreparedBatchMatches(k, c) /\ RunOK(k, c)

Apply(k, c) ==
    IF c.kind \in {"dprepare", "drun"}
    THEN [k EXCEPT !.last = c.seq, !.pending = IF c.kind = "dprepare" THEN c ELSE None]
    ELSE [k EXCEPT !.last = c.seq,
            !.entries = [s \in Slots |->
                IF s \notin DOMAIN c.rows THEN @[s]
                ELSE IF c.kind = "remove" THEN None
                ELSE Entry(c.rows[s], IF c.worker \in Targets THEN c.batch ELSE 0)],
            !.batches = IF c.worker \in Targets
                        THEN [@ EXCEPT ![Bank(c)] =
                                [batch |-> c.batch, keys |-> Keys(c), consumed |-> c.kind # "tprepare"]]
                        ELSE @]

(***************************************************************************)
(* The fenced consumer: hold a command until the dispatch facts of all its *)
(* members are visible, refuse it when they passed it by.                  *)
(***************************************************************************)
InitialVerdict(c, s) ==
    LET d == rows[s].dispatch
        q == c.rows[s] IN
    CASE q.request_epoch > d.request_epoch -> "wait"
      [] q.request_epoch < d.request_epoch -> "refuse"
      [] ~HasDraftDispatch(d) -> "wait"
      [] OTHER -> IF ValidateInitialDispatch(rows[s], c.worker, c.batch, q) THEN "ready" ELSE "refuse"

SequenceVerdict(shown, own, valid) ==
    CASE shown < own -> "wait"
      [] shown > own -> "refuse"
      [] OTHER -> IF valid THEN "ready" ELSE "refuse"

Verdict(c, s) ==
    LET r == rows[s]
        q == c.rows[s] IN
    CASE c.kind = "initial" -> InitialVerdict(c, s)
      [] c.kind = "dprepare" -> SequenceVerdict(r.dispatch.draft_prepare_seq, q.op_seq,
                                     ValidatePrepare(r, c.worker, c.batch, q, FALSE))
      [] c.kind = "drun" -> SequenceVerdict(r.dispatch.draft_issue_seq, q.op_seq,
                                     ValidateRunDispatch(r, c.worker, c.batch, q))
      [] c.kind \in {"legacy", "delta"} -> SequenceVerdict(r.dispatch.draft_issue_seq, q.op_seq, TRUE)
      [] c.kind = "tprepare" -> SequenceVerdict(r.dispatch.target_prepare_seq, q.op_seq, TRUE)
      [] c.kind \in {"prefill", "trun"} -> SequenceVerdict(r.dispatch.target_run_seq, q.op_seq, TRUE)
      [] c.kind = "remove" -> "ready"

FactsVisible(c) == \A s \in DOMAIN c.rows : Verdict(c, s) = "ready"
Overtaken(c) == \E s \in DOMAIN c.rows : Verdict(c, s) = "refuse"

JobsOf(c) == IF c.kind = "remove" THEN {}
             ELSE {[worker |-> c.worker, kind |-> c.kind, batch |-> c.batch, rows |-> c.rows,
                    phase |-> 1, left |-> DOMAIN c.rows, held |-> None]}

\* One consume call of an awake worker.  A wake-up that finds nothing to take
\* has no effect and is not kept.
Consume(w) ==
    /\ awake[w] /\ (got[w] # None \/ ring[w] # << >>)
    /\ \E c \in {IF got[w] # None THEN got[w] ELSE Head(ring[w])} :
        /\ ring' = IF got[w] # None THEN ring ELSE [ring EXCEPT ![w] = Tail(@)]
        /\ \E visible \in {FactsVisible(c)}, ok \in {ApplyOK(cache[w], c)} :
            /\ got' = [got EXCEPT ![w] = IF visible \/ Overtaken(c) THEN None ELSE c]
            /\ awake' = [awake EXCEPT ![w] = (visible \/ Overtaken(c)) /\ ring'[w] # << >>]
            /\ cache' = IF visible /\ ok THEN [cache EXCEPT ![w] = Apply(@, c)] ELSE cache
            /\ jobs' = IF visible /\ ok THEN jobs \cup JobsOf(c) ELSE jobs
            /\ refused' = IF (visible /\ ~ok) \/ Overtaken(c) THEN refused \cup {c.kind} ELSE refused
    /\ UNCHANGED <<rows, clock, sending, pend, mem, placed, snaps>>

(***************************************************************************)
(* What a worker does with a batch: in each phase it publishes one fact of *)
(* every member.  A publication whose fence fails is refused; one that may *)
(* still come true (the host copy is not there yet) waits.                 *)
(***************************************************************************)
Phases(kind) ==
    CASE kind \in {"initial", "drun"} -> <<"IN_DRAFT", "READY_TARGET", "IN_D2H", "HOST_READY">>
      [] kind \in {"legacy", "delta"} -> <<"IN_DRAFT", "READY_TARGET">>
      [] kind = "dprepare" -> <<"WAIT_HOST", "IN_H2D", "GPU_READY">>
      [] kind \in {"prefill", "trun"} -> <<"READY_DRAFT", "IN_D2H", "HOST_READY">>
      [] kind = "tprepare" -> <<"WAIT_HOST", "GPU_READY">>

Status(j) == Phases(j.kind)[j.phase]

Fact(part, values, ok, waits) == [part |-> part, values |-> values, ok |-> ok, waits |-> waits]

Identity(j, s) ==
    LET migrated == j.kind = "drun"
        q == j.rows[s] IN
    SnapshotIdentity(j.worker, IF migrated THEN q.owner_epoch ELSE 0,
                     IF migrated THEN q.snapshot_version + 1 ELSE 1, q.allocation, q)

DraftFact(j, s) ==
    LET r == rows[s]
        q == j.rows[s]
        id == Identity(j, s) IN
    CASE Status(j) = "IN_DRAFT" /\ j.kind = "drun" ->
            Fact("draft", Running(j.worker, j.batch, q), ValidateRunDispatch(r, j.worker, j.batch, q), FALSE)
      [] Status(j) = "IN_DRAFT" /\ j.kind = "initial" ->
            Fact("draft", InitialRunning(j.worker, j.batch, q),
                 ValidateInitialDispatch(r, j.worker, j.batch, q), FALSE)
      [] Status(j) = "READY_TARGET" -> Fact("draft", Ready(id, j.batch), ReadyOK(r, id, j.batch), FALSE)
      [] OTHER -> Fact("draft_d2h", D2HValues(id, j.batch, Status(j)),
                       PublishD2HOK(r, id, j.batch, Status(j)), FALSE)

LegacyDraftFact(j, s) ==
    Fact("draft", LegacyDraftValues(j.worker, j.rows[s], Status(j)),
         LegacyDraftFence(rows[s], j.worker, j.rows[s]), FALSE)

DraftImportFact(j, s) ==
    LET r == rows[s]
        q == j.rows[s] IN
    Fact("draft_h2d", PublishH2DValues(j.worker, j.batch, q, Status(j)),
         IF Status(j) = "WAIT_HOST"
         THEN \A x \in j.left : ValidateWaitBatch(rows[x], j.worker, j.batch, j.rows[x])
         ELSE PublishH2DOK(r, j.worker, j.batch, q, Status(j)),
         /\ Status(j) # "WAIT_HOST" /\ ValidatePrepare(r, j.worker, j.batch, q, FALSE)
         /\ ~ValidatePrepare(r, j.worker, j.batch, q, TRUE))

TargetFact(j, s) ==
    LET r == rows[s]
        q == j.rows[s] IN
    CASE Status(j) = "READY_DRAFT" ->
            Fact("target", ReadyDraft(j.worker, j.batch, q), TargetFence(r, j.worker, j.batch, q), FALSE)
      [] Status(j) = "IN_D2H" ->
            Fact("d2h", D2HStarted(j.worker, q), ValidateCompletedTarget(r, j.worker, j.batch, q), FALSE)
      [] Status(j) = "HOST_READY" ->
            Fact("d2h", HostReady(j.worker, q), HostReadyOK(r, j.worker, j.batch, q), FALSE)

TargetImportFact(j, s) ==
    LET fence == ValidatePrepareFence(rows[s], j.worker, j.batch, j.rows[s])
        ready == GPUReadyOK(rows[s], j.worker, j.batch, j.rows[s]) IN
    Fact("h2d", H2DWait(j.worker, j.rows[s], Status(j)),
         IF Status(j) = "WAIT_HOST" THEN fence ELSE ready,
         Status(j) = "GPU_READY" /\ fence /\ ~ready)

FactOf(j, s) ==
    CASE j.kind \in {"initial", "drun"} -> DraftFact(j, s)
      [] j.kind \in {"legacy", "delta"} -> LegacyDraftFact(j, s)
      [] j.kind = "dprepare" -> DraftImportFact(j, s)
      [] j.kind \in {"prefill", "trun"} -> TargetFact(j, s)
      [] j.kind = "tprepare" -> TargetImportFact(j, s)

\* The bytes behind a fact: compute advances the bank, an export copies the
\* bank to the host, an import the host to the bank.
Copied(j, s) ==
    LET w == j.worker
        epoch == j.rows[s].request_epoch IN
    CASE Status(j) = "READY_TARGET" ->
            [mem EXCEPT !.bank[w][s] = KV(epoch, IF j.kind \in {"initial", "drun"}
                                                 THEN Identity(j, s).snapshot_version ELSE 0)]
      [] Status(j) = "READY_DRAFT" -> [mem EXCEPT !.bank[w][s] = KV(epoch, j.rows[s].round_id)]
      [] Status(j) = "HOST_READY" -> IF w \in Targets THEN [mem EXCEPT !.host[s] = mem.bank[w][s]]
                                     ELSE [mem EXCEPT !.draftHost[s] = mem.bank[w][s]]
      [] Status(j) = "GPU_READY" -> [mem EXCEPT !.bank[w][s] = IF w \in Targets THEN mem.host[s]
                                                               ELSE mem.draftHost[s]]
      [] OTHER -> mem

\* A writer checks the fences of one member and holds the publication.
Validate(j, s) ==
    /\ j.held = None /\ s \in j.left
    /\ \E f \in {FactOf(j, s)} :
        /\ ~f.waits
        /\ jobs' = (jobs \ {j}) \cup IF f.ok THEN {[j EXCEPT !.held = [slot |-> s, fact |-> f]]} ELSE {}
        /\ refused' = IF f.ok THEN refused ELSE refused \cup {j.kind}
        /\ mem' = IF f.ok THEN Copied(j, s) ELSE mem
    /\ UNCHANGED <<rows, clock, sending, pend, ring, awake, got, cache, placed, snaps>>

\* It publishes; a completed Draft snapshot becomes known to the scheduler.
PublishHeld(j) ==
    /\ j.held # None
    /\ \E s \in {j.held.slot}, last \in {j.left = {j.held.slot}} :
        /\ rows' = [rows EXCEPT ![s] = Publish(@, j.held.fact.part, j.held.fact.values)]
        /\ jobs' = (jobs \ {j}) \cup
                IF last /\ j.phase = Len(Phases(j.kind)) THEN {}
                ELSE {[j EXCEPT !.held = None, !.phase = IF last THEN @ + 1 ELSE @,
                                !.left = IF last THEN DOMAIN j.rows ELSE @ \ {s}]}
        /\ snaps' = IF Status(j) = "READY_TARGET" /\ j.kind \in {"initial", "drun"}
                    THEN [snaps EXCEPT ![s] = @ \cup {Identity(j, s)}] ELSE snaps
    /\ UNCHANGED <<clock, sending, pend, ring, awake, got, cache, mem, placed, refused>>

\* A Draft copy may complete before its progress is reported.
SkipProgress(j) ==
    /\ j.held = None /\ j.left = DOMAIN j.rows
    /\ j.worker \in DraftWorkers /\ Status(j) \in {"IN_D2H", "IN_H2D"}
    /\ jobs' = (jobs \ {j}) \cup {[j EXCEPT !.phase = @ + 1]}
    /\ UNCHANGED <<rows, clock, sending, pend, ring, awake, got, cache, mem, placed, snaps, refused>>

Schedule ==
    \/ \E S \in Batches, t \in Targets : SendPrefill(S, t) \/ SendTargetPrepare(S, t)
    \/ \E S \in Batches, d \in DraftWorkers :
        \/ SendDraft(S, d, "initial") \/ SendDraft(S, d, "legacy")
        \/ SendDelta(S, d) \/ SendDraftPrepare(S, d)
    \/ \E s \in Slots, d \in DraftWorkers : SendRemove(s, d)
    \/ \E t \in Targets : SendTargetRun(t)
    \/ \E d \in DraftWorkers : SendDraftRun(d)

Deliver == Sent \/ (\E s \in Slots : PublishDispatchFact(s)) \/ \E w \in Workers : Consume(w)

DispatchNext ==
    \/ \E s \in Slots : Admit(s) \/ Finish(s)
    \/ Schedule \/ Deliver
    \/ \E j \in jobs : (\E s \in j.left : Validate(j, s)) \/ PublishHeld(j) \/ SkipProgress(j)

DispatchSpec == InitDispatch /\ [][DispatchNext]_dispatchVars

\* Sound when Batches is closed under permutations of the unused slots.
Symmetry == Permutations(DraftWorkers) \cup Permutations(Slots \ Used)

----------------------------------------------------------------------------
\* A command the dispatcher let into a ring is never refused later, by the
\* consumer's fences, the command cache or a writer (fail-stop in the code).
CommandsAccepted == refused = {}

\* A batch runs on the KV it names: the snapshot (or Target KV version) and
\* lifetime in its bank are the ones its run command was issued for.
RunsOnNamedKV ==
    \A j \in jobs : j.phase = 1 /\ j.held = None => \A s \in j.left :
        /\ j.kind = "drun" =>
               mem.bank[j.worker][s] = KV(j.rows[s].request_epoch, j.rows[s].snapshot_version)
        /\ j.kind = "trun" =>
               mem.bank[j.worker][s] = KV(j.rows[s].request_epoch, j.rows[s].round_id - 1)

\* A host copy announced ready belongs to the announced lifetime and is at
\* least the announced version: a newer export may already be overwriting it.
HostReadyIsHostKV ==
    \A s \in Slots :
        /\ rows[s].draft_d2h.status = "HOST_READY" =>
               Holds(mem.draftHost[s], rows[s].draft_d2h.request_epoch, rows[s].draft_d2h.ready_version)
        /\ rows[s].d2h.status = "HOST_READY" =>
               Holds(mem.host[s], rows[s].d2h.request_epoch, rows[s].d2h.ready_version)

\* The KV a command or a fact names is the KV that is there.
KVAsNamed == RunsOnNamedKV /\ HostReadyIsHostKV

\* The facts a writer checked still hold when it publishes: the lifetime and
\* the dispatched operation are the ones it executes, and no other writer
\* holds a publication to that partition of the row.
FencesHold ==
    \A j \in jobs : j.held # None =>
        LET s == j.held.slot
            part == j.held.fact.part IN
        /\ Epoch(s) = j.rows[s].request_epoch
        /\ \A k \in jobs \ {j} : k.held # None =>
               <<k.held.slot, k.held.fact.part>> # <<s, part>>
        /\ part = "draft" => rows[s].dispatch.draft_issue_seq = j.rows[s].op_seq
        /\ part = "draft_h2d" => rows[s].dispatch.draft_prepare_seq = j.rows[s].op_seq
        /\ part = "target" => rows[s].dispatch.target_run_seq = j.rows[s].op_seq
        /\ part = "h2d" => rows[s].dispatch.target_prepare_seq = j.rows[s].op_seq

\* The dispatch partition never mixes two lifetimes: its Draft fields are
\* those of snapshots and results of the request its epoch names.
DispatchOfOneLifetime ==
    \A s \in Slots : LET d == rows[s].dispatch IN
        d.draft_source_snapshot_version # 0 =>
            \E id \in snaps[s] : /\ id.request_epoch = d.request_epoch
                                 /\ id.snapshot_version = d.draft_source_snapshot_version

\* No command is stranded: once its facts are visible, a worker with a command
\* in its ring or in its hand is awake, although the first wake-up can be spent
\* before the facts are there.
NoStrandedCommand ==
    \A w \in Workers :
        (/\ ring[w] # << >> \/ got[w] # None
         /\ sending # None => sending.cmd.worker # w) => awake[w]
=============================================================================
