----------------------------- MODULE TargetWorker -----------------------------
(***************************************************************************)
(* The SwiftLLM target worker (server/target_worker.py): it owns the       *)
(* sessions, the rows and the block manager, and runs one batch of tasks   *)
(* at a time under its batch lock.  A batch is prepared on the event loop, *)
(* its forward pass runs on an executor thread, where it allocates blocks  *)
(* and writes KV, and it is finished back on the event loop, a             *)
(* verification with a crop on the executor in between; between those      *)
(* steps every other coroutine of the process may run.                     *)
(* Tokens are abstracted to their number.  kv is what each physical block  *)
(* holds: the request and the position of a block of its KV.               *)
(***************************************************************************)
EXTENDS KVBanks, TLC

CONSTANTS Requests,    \* requests of the client
          PromptLen,   \* tokens of a prompt
          MaxDraft,    \* draft tokens of one verification
          Capacity,    \* blocks the client reserves for one request
          MaxRounds,   \* bound on the rounds of all requests together
          MaxBatches   \* bound on the bank batches of the client

VARIABLES m,         \* block manager
          avail,     \* RequestIdManager.available_ids
          sessions,  \* session key |-> session
          kv,        \* physical block |-> what it holds
          run        \* the batch that holds the batch lock

workerVars == <<m, avail, sessions, kv, run>>

Nothing == <<"nothing", 0>>
NoRun == [phase |-> "none", kind |-> "none", items |-> {}]
NoFence == [bank |-> 2]
Put(f, k, v) == [x \in DOMAIN f \cup {k} |-> IF x = k THEN v ELSE f[x]]
Drop(f, gone) == [x \in DOMAIN f \ gone |-> f[x]]
PutAll(f, g) == [x \in DOMAIN f \cup DOMAIN g |-> IF x \in DOMAIN g THEN g[x] ELSE f[x]]

InitWorker ==
    /\ m = InitManager
    /\ avail = Rows
    /\ sessions = << >>
    /\ kv = [b \in PhysicalBlocks |-> Nothing]
    /\ run = NoRun

\* Distinct requests in the order the client lists them, and rows for them.
Orders == {s \in UNION {[1..n -> Requests] : n \in 1..Cardinality(Requests)} : IsInjective(s)}
RowLists(n) == {s \in [1..n -> avail] : IsInjective(s)}

\* A session: its row, whether it only adapts a bank row, the range its
\* prefill was given, and the request's prompt and output lengths.
Session(row, adapter, prompt, outs) ==
    [row |-> row, adapter |-> adapter, fence |-> NoFence, prompt |-> prompt, outs |-> outs]

LogicalLen(s) == s.prompt + (IF s.outs = 0 THEN 0 ELSE s.outs - 1)

SessionRows(keys) == {sessions[k].row : k \in keys}
Fence(mm, b, row) == [bank |-> b, epoch |-> mm.bank[b].epoch, row |-> row,
                      start |-> Loc(mm, b, row).start, cap |-> Loc(mm, b, row).cap,
                      batch |-> mm.bank[b].batch]

\* What the forward pass leaves in the cache: every position of the row's
\* sequence that it computes is written through the row's block table.
Written(mm, cache, writes) ==
    [b \in PhysicalBlocks |->
        LET hits == {w \in writes : \E p \in w.from..(w.to - 1) :
                         mm.first[w.row] + p \div BlockSize = b}
        IN IF hits = {} THEN cache[b]
           ELSE LET w == CHOOSE w \in hits : TRUE IN <<w.req, b - mm.first[w.row]>>]

\* The first n blocks of a row are the request's own.
Holds(mm, cache, row, req, n) ==
    \A k \in 0..(n - 1) : cache[mm.first[row] + k] = <<req, k>>

(***************************************************************************)
(* A prefill batch.  Each task takes a row and opens a session; a planned  *)
(* prefill also reserves its exact range, and undoes rows and sessions     *)
(* when it cannot.  tasks is a sequence of [key, req]; a plan is [bank,    *)
(* epoch, batch, start, blocks].                                           *)
(***************************************************************************)
Task(key, req) == [key |-> key, req |-> req]
TaskKeys(tasks) == {t.key : t \in Range(tasks)}

PlanItems(tasks, rows, plan) ==
    [i \in DOMAIN tasks |-> [row |-> rows[i], blocks |-> plan.blocks, len |-> PromptLen, ver |-> 0]]

CanReservePlan(tasks, rows, plan) ==
    /\ m.bank[plan.bank].epoch = plan.epoch
    /\ m.bank[plan.bank].ptr = plan.start
    /\ CanReserveBatch(m, plan.bank, PlanItems(tasks, rows, plan), FALSE)

ReservePlan(tasks, rows, plan) ==
    ReserveBatch(m, plan.bank, PlanItems(tasks, rows, plan), plan.batch, FALSE)

\* reservedBanks is the manager after the plan's ranges were reserved, or m itself.
PrefillStart(tasks, rows, reservedBanks) ==
    /\ run = NoRun
    /\ TaskKeys(tasks) \cap DOMAIN sessions = {}
    /\ avail' = avail \ Range(rows)
    /\ sessions' = PutAll(sessions,
           [k \in TaskKeys(tasks) |->
               LET i == CHOOSE i \in DOMAIN tasks : tasks[i].key = k
               IN Session(rows[i], FALSE, PromptLen, 0)])
    /\ m' = reservedBanks
    /\ run' = [phase |-> "forward", kind |-> "prefill", tasks |-> tasks, items |-> {}]
    /\ UNCHANGED kv

RowOf(t) == sessions[t.key].row

PrefillItems == [i \in DOMAIN run.tasks |->
                    [row |-> RowOf(run.tasks[i]), len |-> PromptLen]]

\* model.forward: blocks are allocated, the KV of the batch is written, and
\* the tokens are returned.  It fails when the active bank cannot hold the
\* sequences, and it may fail behind the allocation or the writes, which stay.
ModelForward(items, writes) ==
    \/ /\ CanAllocate(m, items)
       /\ m' = Allocate(m, items)
       /\ \/ kv' = Written(m', kv, writes) /\ run' = [run EXCEPT !.phase = "finish"]
          \/ /\ kv' \in {kv, Written(m', kv, writes)}
             /\ run' = [run EXCEPT !.phase = "failed"]
    \/ /\ run' = [run EXCEPT !.phase = "failed"]
       /\ UNCHANGED <<m, kv>>

\* The forward pass of a prefill: when it fails every task is answered with
\* the error while its session keeps its row, and the row what it was given.
PrefillForward ==
    /\ run.phase = "forward" /\ run.kind = "prefill"
    /\ ModelForward(PrefillItems, {[row |-> RowOf(t), req |-> t.req, from |-> 0, to |-> PromptLen] :
                                      t \in Range(run.tasks)})
    /\ UNCHANGED <<avail, sessions>>

\* The bank a prefilled row is found in: the active one is looked at first.
PrefillBank(row) == IF HasRange(m, m.active, row) THEN m.active ELSE Standby(m)

PrefillDone ==
    [k \in DOMAIN sessions |->
        IF k \notin TaskKeys(run.tasks) THEN sessions[k]
        ELSE [sessions[k] EXCEPT !.outs = @ + 1,
                 !.fence = IF BanksForRequest(m, sessions[k].row) = {} THEN @
                           ELSE Fence(m, PrefillBank(sessions[k].row), sessions[k].row)]]

(***************************************************************************)
(* release_exact_sessions: the executor releases the exact ranges the      *)
(* sessions were given, and only then are sessions and rows given back.    *)
(***************************************************************************)
PrefillFences(keys) == {sessions[k].fence : k \in keys}
CanReleaseSessions(keys) ==
    /\ keys \subseteq DOMAIN sessions
    /\ \A k \in keys : ~sessions[k].adapter /\ sessions[k].fence # NoFence
    /\ CanReleaseExact(m, PrefillFences(keys))
ReleaseSessionRanges(keys) == m' = ReleaseExact(m, PrefillFences(keys))
DropSessions(keys) ==
    /\ sessions' = Drop(sessions, keys)
    /\ avail' = avail \cup SessionRows(keys)

(***************************************************************************)
(* A verification batch over rows of the active bank.  A missing session   *)
(* is created to adapt the row; one that adapts another row is replaced.   *)
(* The call does this one request after the other, before it waits for the *)
(* batch lock.  items is a set of [key, req, row, prompt, outs, draft].    *)
(***************************************************************************)
CanAdapt(item) == HasRange(m, m.active, item.row)

Adapted(items) ==
    [k \in {i.key : i \in items} |->
        LET i == CHOOSE i \in items : i.key = k
        IN IF k \in DOMAIN sessions /\ sessions[k].row = i.row THEN sessions[k]
           ELSE Session(i.row, TRUE, i.prompt, i.outs)]

ReplacedRows(items) ==
    {sessions[i.key].row : i \in {j \in items : j.key \in DOMAIN sessions
                                                /\ sessions[j.key].row # j.row}}

\* A request is adapted by a call that goes on to the lock, or that is
\* rejected at a later request and leaves the session behind.
AdaptRow(item) ==
    /\ CanAdapt(item)
    /\ sessions' = PutAll(sessions, Adapted({item}))
    /\ avail' = (avail \cup ReplacedRows({item})) \ {item.row}
    /\ UNCHANGED <<m, kv, run>>

\* The call that takes the lock; what AdaptRow has adapted stays as it is.
VerifyStart(items) ==
    /\ run = NoRun
    /\ \A i \in items : CanAdapt(i)
    /\ sessions' = PutAll(sessions, Adapted(items))
    /\ avail' = (avail \cup ReplacedRows(items)) \ {i.row : i \in items}
    /\ run' = [phase |-> "forward", kind |-> "verify", items |-> items, bank |-> m.active]
    /\ UNCHANGED <<m, kv>>

\* Verification feeds the anchor and the draft tokens: the sequence grows by
\* all of them before the rejected ones are cropped.
VerifyItems ==
    SetToSeq({[row |-> i.row, len |-> LogicalLen(sessions[i.key]) + 1 + i.draft] : i \in run.items})

VerifyForward ==
    /\ run.phase = "forward" /\ run.kind = "verify"
    /\ ModelForward(VerifyItems, {[row |-> i.row, req |-> i.req,
                                   from |-> LogicalLen(sessions[i.key]),
                                   to |-> LogicalLen(sessions[i.key]) + 1 + i.draft] : i \in run.items})
    /\ UNCHANGED <<avail, sessions>>

(***************************************************************************)
(* compute_greedy_acceptance, by what it decides: the draft tokens that    *)
(* agree with the target and one token of the target itself.               *)
(***************************************************************************)
AcceptedCounts(draft) == 1..(draft + 1)

VerifyDone(items, accepted) ==
    [k \in DOMAIN sessions |->
        IF \E i \in items : i.key = k
        THEN [sessions[k] EXCEPT !.outs = @ + accepted[(CHOOSE i \in items : i.key = k).req]]
        ELSE sessions[k]]

CropItems(items) == SetToSeq({[row |-> i.row, len |-> LogicalLen(sessions[i.key])] : i \in items})

AttachMetadata(mm, items, b) ==
    FoldSet(LAMBDA i, acc : IF HasRange(acc, b, i.row)
                            THEN SetKVVersion(acc, b, i.row, Loc(acc, b, i.row).ver + 1)
                            ELSE acc, mm, items)

\* Acceptance on the event loop, the crop on the executor, and the bank
\* metadata of the verified rows when the lock was given back: the crop and
\* the metadata each advance the range's KV version.
VerifyAccept(accepted) ==
    /\ run.phase = "finish" /\ run.kind = "verify"
    /\ \A i \in run.items : accepted[i.req] \in AcceptedCounts(i.draft)
    /\ sessions' = VerifyDone(run.items, accepted)
    /\ run' = [run EXCEPT !.phase = "crop"]
    /\ UNCHANGED <<m, avail, kv>>

VerifyCrop ==
    /\ run.phase = "crop"
    /\ CanCrop(m, CropItems(run.items))
    /\ m' = Crop(m, CropItems(run.items))
    /\ run' = [run EXCEPT !.phase = "cropped"]
    /\ UNCHANGED <<avail, sessions, kv>>

VerifyFinish ==
    /\ run.phase = "cropped"
    /\ m' = AttachMetadata(m, run.items, run.bank)
    /\ run' = NoRun
    /\ UNCHANGED <<avail, sessions, kv>>

\* release_bank_adapter_sessions drops only sessions that adapt a bank row.
AdaptersAmong(keys) == {k \in keys \cap DOMAIN sessions : sessions[k].adapter}
=============================================================================
