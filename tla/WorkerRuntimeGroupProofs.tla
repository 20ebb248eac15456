---------------------- MODULE WorkerRuntimeGroupProofs ----------------------
(***************************************************************************)
(* The worker group as a whole. What the ring, the lanes and the ledger    *)
(* of the Engine guarantee, so that nothing control accepts ever fails:    *)
(* the WORKs on the ring are newer than everything control knows, the      *)
(* ledger keeps at most two of them to a Bank and their widths within the  *)
(* pool, and a lane serves its Bank's WORKs in the order of the ledger     *)
(* (GroupSane). Every process keeps it. Then the theorems: what it says    *)
(* of NoFailure, RowsAvailable, BankExclusive, CompletionFinal and         *)
(* CleanStop, and what the ledger infers of computations from the rows it  *)
(* reads (ComputeDoneSound).                                               *)
(***************************************************************************)
EXTENDS WorkerRuntimeStepProofs

(* The WORKs still on the ring, and those still on a lane's pipe. *)
Queued(i) == i \in 1..Len(incoming) /\ incoming[i].kind = "WORK"
(* The number of a WORK on the ring. *)
QueuedSeq(i) == incoming[i].work.work_seq
(* A lane still has to serve the WORK. *)
InPipe(b, s) == \E i \in 1..Len(import[b]) : import[b][i] = s

(* The ring carries WORKs in order, then DRAIN, then SHUTDOWN. *)
RingOrdered ==
    \A i, j \in 1..Len(incoming) : i < j =>
        /\ incoming[i].kind # "WORK" => incoming[j].kind = "SHUTDOWN"
        /\ Queued(i) /\ Queued(j) => QueuedSeq(i) < QueuedSeq(j)

(* A WORK on the ring is newer than all control has seen of its Bank. *)
RingAhead ==
    \A i \in 1..Len(incoming) : Queued(i) =>
        /\ \A s \in DOMAIN rt.records \cup completions : s < QueuedSeq(i)
        /\ rt.banks[incoming[i].work.bank_id].epoch < incoming[i].work.bank_epoch

(* DRAIN is sent once the Engine stops, and nothing is accepted after it. *)
RingStops ==
    /\ eng.stop = "NO" => ~rt.draining /\ \A i \in 1..Len(incoming) : incoming[i].kind = "WORK"
    /\ rt.draining => \A i \in 1..Len(incoming) : incoming[i].kind = "SHUTDOWN"

(* The ledger's authorisations. *)
Authorised == [work : Work, compute_done : BOOLEAN, physical_done : BOOLEAN]

(* An authorisation is kept under its number, below the next one. *)
LedgerTyped ==
    \A s \in DOMAIN eng.records :
        /\ eng.records[s] \in Authorised
        /\ eng.records[s].work.work_seq = s /\ s < eng.next
        /\ eng.records[s].work.rows <= CapacityRows
        /\ eng.records[s].work.bank_epoch <= eng.epochs[eng.records[s].work.bank_id]
        /\ eng.records[s].physical_done => s \in completions

(* The ledger knows every WORK of the group, and what has been completed is
   gone from control. *)
LedgerKnows ==
    /\ \A s \in DOMAIN rt.records :
           s \in DOMAIN eng.records /\ eng.records[s].work = rt.records[s].spec
    /\ \A i \in 1..Len(incoming) : Queued(i) =>
           QueuedSeq(i) \in DOMAIN eng.records /\ eng.records[QueuedSeq(i)].work = incoming[i].work
    /\ \A s \in completions : s < eng.next /\ s \notin DOMAIN rt.records
    /\ \A b \in BankIds : rt.banks[b].epoch <= eng.epochs[b]

(* WorkLedger.capacity: epochs grow, the widths reserved on the two Banks fit
   the pool, and a Bank has at most two reserved WORKs. *)
LedgerReserves ==
    \A s, t \in DOMAIN eng.records :
        LET v == eng.records[s]
            w == eng.records[t]
        IN  /\ v.work.bank_id = w.work.bank_id /\ s < t => v.work.bank_epoch < w.work.bank_epoch
            /\ v.work.bank_id # w.work.bank_id /\ ~v.physical_done /\ ~w.physical_done =>
                   v.work.rows + w.work.rows <= CapacityRows
            /\ \A u \in DOMAIN eng.records :
                   (/\ v.work.bank_id = w.work.bank_id /\ w.work.bank_id = eng.records[u].work.bank_id
                    /\ ~v.physical_done /\ ~w.physical_done /\ ~eng.records[u].physical_done) =>
                        s = t \/ t = u \/ s = u

(* A WORK of Bank b that control has, or will find on the ring. *)
Outstanding(b, s) ==
    \/ s \in DOMAIN rt.records /\ rt.records[s].spec.bank_id = b
    \/ \E i \in 1..Len(incoming) : Queued(i) /\ QueuedSeq(i) = s /\ incoming[i].work.bank_id = b

(* A lane serves the WORKs of its own Bank in the order they were sent. *)
LaneSane(b) ==
    /\ ~DirectImports => lane[b] = None /\ import[b] = <<>>
    /\ lane[b] < eng.next /\ slot[b] < eng.next
    /\ lane[b] # None => Outstanding(b, lane[b])
    /\ \A i \in 1..Len(import[b]) : Outstanding(b, import[b][i])
    /\ \A i, j \in 1..Len(import[b]) : i < j => import[b][i] < import[b][j]
    /\ \A i \in 1..Len(import[b]) : import[b][i] # lane[b] /\ import[b][i] # slot[b]

(* A WORK of the Bank waits on the pipe, has the lane, or has left it. *)
LaneStage(b, s, st) ==
    /\ InPipe(b, s) => ~st.imported /\ ~Left(st)
    /\ lane[b] = s => ~Left(st) /\ (st.imported \/ slot[b] = s)
    /\ ~InPipe(b, s) /\ lane[b] # s => st.imported /\ Left(st)

(* Every WORK of a Bank that still needs its import is on the way to its lane. *)
LaneServes(b) ==
    DirectImports =>
        /\ \A s \in DOMAIN rt.records :
               rt.records[s].spec.bank_id = b => LaneStage(b, s, rt.records[s])
        /\ \A i \in 1..Len(incoming) : Queued(i) /\ incoming[i].work.bank_id = b =>
               InPipe(b, QueuedSeq(i)) \/ (lane[b] = QueuedSeq(i) /\ slot[b] = QueuedSeq(i))

(* The execution process answers COMPUTE and SHUTDOWN only when told to. *)
ExecSane ==
    /\ exec.stage = "COMPUTED" => rt.command = "COMPUTE"
    /\ exec.stage \in {"STOPPED", "JOINED"} => rt.command = "SHUTDOWN"

(* The ring, the ledger and the lanes. *)
RingSane == RingOrdered /\ RingAhead /\ RingStops
(* What the ledger authorised covers everything below it. *)
LedgerSane == LedgerTyped /\ LedgerKnows /\ LedgerReserves
(* Every lane. *)
LanesSane == \A b \in BankIds : LaneSane(b) /\ LaneServes(b)

(* The inductive invariant of the worker group. *)
GroupSane == Sane(rt) /\ RingSane /\ LedgerSane /\ LanesSane /\ ExecSane
-----------------------------------------------------------------------------
(* The elements of a queue after Tail and Append. *)
LEMMA TailElements ==
    ASSUME NEW S, NEW q \in Seq(S), q # <<>>
    PROVE  /\ Tail(q) \in Seq(S) /\ Len(q) \in Nat /\ Len(q) >= 1
           /\ Len(Tail(q)) = Len(q) - 1 /\ Head(q) = q[1]
           /\ \A i \in 1..(Len(q) - 1) : Tail(q)[i] = q[i + 1]
  OBVIOUS

(* Its messages and one more. *)
LEMMA AppendElements ==
    ASSUME NEW S, NEW q \in Seq(S), NEW x \in S
    PROVE  /\ Append(q, x) \in Seq(S) /\ Len(q) \in Nat
           /\ Len(Append(q, x)) = Len(q) + 1
           /\ \A i \in 1..Len(q) : Append(q, x)[i] = q[i]
           /\ Append(q, x)[Len(q) + 1] = x
  OBVIOUS

(* The messages of the ring. *)
LEMMA QueuedWork ==
    ASSUME TypeOK, NEW i \in 1..Len(incoming)
    PROVE  /\ incoming[i] \in Messages
           /\ incoming[i].kind \in {"WORK", "DRAIN", "SHUTDOWN"}
           /\ Queued(i) => /\ incoming[i].work \in Work /\ QueuedSeq(i) \in Seqs /\ QueuedSeq(i) \in Nat
                           /\ incoming[i].work.bank_id \in BankIds
                           /\ incoming[i].work.bank_epoch \in Nat
<1>1. incoming[i] \in Messages BY DEF TypeOK
<1> QED BY <1>1 DEF Queued, QueuedSeq, Messages, Work, Seqs

(* A step of control that only evolves its records keeps what surrounds it. *)
LEMMA EvolvesGroup ==
    ASSUME TypeOK, RInv(rt), RInv(rt'), RingSane, LedgerSane, LanesSane,
           Evolves(rt, rt', slot),
           UNCHANGED <<incoming, import, lane, slot, completions, eng>>
    PROVE  RingSane' /\ LedgerSane' /\ LanesSane'
<1>1. /\ incoming' = incoming /\ import' = import /\ lane' = lane /\ slot' = slot
      /\ completions' = completions /\ eng' = eng
  OBVIOUS
<1>2. /\ DOMAIN rt'.records = DOMAIN rt.records
      /\ \A s \in DOMAIN rt.records :
             StateEvolves(rt.records[s], rt'.records[s], slot[rt.records[s].spec.bank_id] = s)
      /\ \A b \in BankIds : EpochEvolves(rt, rt', b)
      /\ rt'.draining = rt.draining
  BY DEF Evolves
<1>3. \A s \in DOMAIN rt.records : rt'.records[s].spec = rt.records[s].spec
  BY <1>2 DEF StateEvolves
<1>4. \A s \in DOMAIN rt.records :
          /\ s \in DOMAIN eng.records /\ eng.records[s].work = rt.records[s].spec
          /\ rt.records[s].spec.bank_epoch \in Nat /\ rt.records[s].spec.bank_id \in BankIds
          /\ rt.records[s].spec.bank_epoch <= eng.epochs[rt.records[s].spec.bank_id]
  BY StateFacts DEF LedgerSane, LedgerKnows, LedgerTyped, Work
<1>5. \A b \in BankIds : rt.banks[b].epoch \in Nat /\ rt'.banks[b].epoch \in Nat /\ eng.epochs[b] \in Nat
  BY Plain DEF BankType, TypeOK, EngineType
<1>6. RingAhead'
  <2> SUFFICES ASSUME NEW i \in 1..Len(incoming), Queued(i)
               PROVE  /\ \A s \in DOMAIN rt'.records \cup completions : s < QueuedSeq(i)
                      /\ rt'.banks[incoming[i].work.bank_id].epoch < incoming[i].work.bank_epoch
    BY <1>1 DEF RingAhead, Queued, QueuedSeq
  <2> DEFINE b == incoming[i].work.bank_id
             epoch == incoming[i].work.bank_epoch
  <2>1. /\ \A s \in DOMAIN rt.records \cup completions : s < QueuedSeq(i)
        /\ rt.banks[b].epoch < epoch
    BY DEF RingSane, RingAhead
  <2>2. b \in BankIds /\ epoch \in Nat BY QueuedWork
  <2>3. QueuedSeq(i) \in DOMAIN eng.records /\ eng.records[QueuedSeq(i)].work = incoming[i].work
    BY DEF LedgerSane, LedgerKnows
  <2>4. \A s \in DOMAIN rt.records : rt.records[s].spec.bank_id = b => rt.records[s].spec.bank_epoch < epoch
    BY <1>4, <2>1, <2>3 DEF LedgerSane, LedgerReserves
  <2> HIDE DEF b, epoch
  <2>5. rt'.banks[b].epoch < epoch
    BY <1>2, <1>5, <2>1, <2>2, <2>4 DEF EpochEvolves
  <2> QED BY <1>2, <2>1, <2>5 DEF b, epoch
<1>7. RingSane'
  BY <1>1, <1>2, <1>6 DEF RingSane, RingOrdered, RingStops, Queued, QueuedSeq
<1>8. LedgerKnows'
  <2>1. \A b \in BankIds : rt'.banks[b].epoch <= eng.epochs[b]
    <3> SUFFICES ASSUME NEW b \in BankIds PROVE rt'.banks[b].epoch <= eng.epochs[b]
      OBVIOUS
    <3>1. rt.banks[b].epoch <= eng.epochs[b] BY DEF LedgerSane, LedgerKnows
    <3> QED BY <1>2, <1>4, <1>5, <3>1 DEF EpochEvolves
  <2> QED BY <1>1, <1>2, <1>3, <2>1 DEF LedgerSane, LedgerKnows, Queued, QueuedSeq
<1>9. LedgerSane' BY <1>1, <1>8 DEF LedgerSane, LedgerTyped, LedgerReserves
<1>10. ASSUME NEW b \in BankIds PROVE LaneSane(b)' /\ LaneServes(b)'
  <2>1. \A s : Outstanding(b, s) => Outstanding(b, s)'
    BY <1>1, <1>2, <1>3 DEF Outstanding, Queued, QueuedSeq
  <2>2. LaneSane(b)' BY <1>1, <2>1 DEF LanesSane, LaneSane
  <2>3. LaneServes(b)'
    <3> SUFFICES ASSUME DirectImports PROVE LaneServes(b)'
      BY DEF LaneServes
    <3>1. ASSUME NEW s \in DOMAIN rt.records, rt.records[s].spec.bank_id = b
          PROVE  LaneStage(b, s, rt.records[s])'
      <4>1. LaneStage(b, s, rt.records[s]) BY <3>1 DEF LanesSane, LaneServes
      <4>2. /\ Left(rt'.records[s]) <=> Left(rt.records[s])
            /\ rt.records[s].imported => rt'.records[s].imported
            /\ rt'.records[s].imported => rt.records[s].imported \/ slot[b] = s
        BY <1>2, <3>1 DEF StateEvolves
      <4>3. InPipe(b, s) => slot[b] # s BY DEF LanesSane, LaneSane, InPipe
      <4>4. InPipe(b, s)' <=> InPipe(b, s) BY <1>1 DEF InPipe
      <4>5. Left(rt.records[s])' <=> Left(rt'.records[s]) BY DEF Left
      <4> QED BY <1>1, <4>1, <4>2, <4>3, <4>4, <4>5 DEF LaneStage
    <3>2. \A s \in DOMAIN rt'.records : rt'.records[s].spec.bank_id = b => LaneStage(b, s, rt.records[s])'
      BY <1>2, <1>3, <3>1
    <3> QED BY <1>1, <3>2 DEF LanesSane, LaneServes, InPipe, Queued, QueuedSeq
  <2> QED BY <2>2, <2>3
<1> QED BY <1>7, <1>9, <1>10 DEF LanesSane
-----------------------------------------------------------------------------
(* The steps of control leave the command and the compute slot alone. *)
Shaped(r) == DOMAIN r = {"records", "banks", "free_rows", "compute", "exchange", "command",
                         "draining", "shutting_down", "failed"}
(* Control still has the same command for the execution process. *)
Kept(r, q) == Shaped(q) /\ q.command = r.command /\ q.compute = r.compute

(* The operations Runtime._advance is built from. *)
LEMMA KeptParts ==
    ASSUME NEW r, Shaped(r), NEW s
    PROVE  /\ Kept(r, Fail(r))
           /\ \A st, bank : Kept(r, Put(r, s, st, bank))
           /\ \A kind, command : Kept(r, Exchange(r, s, kind, command))
           /\ Kept(r, Release(r, s))
<1>1. Kept(r, Fail(r)) BY DEF Fail, Kept, Shaped
<1>2. \A st, bank : Kept(r, Put(r, s, st, bank)) BY DEF Put, Kept, Shaped
<1>3. ASSUME NEW kind, NEW command PROVE Kept(r, Exchange(r, s, kind, command))
  BY <1>1 DEF Exchange, Kept, Shaped
<1>4. Kept(r, Release(r, s))
  <2> DEFINE b == r.records[s].spec.bank_id
             next == [r.banks[b] EXCEPT !.current = r.banks[b].pending, !.pending = None]
             done == [r.records[s] EXCEPT !.physical_done = TRUE]
             freed == [next EXCEPT !.layout = {}, !.phase = "FREE"]
             p == Put(r, s, done, freed)
  <2>1. Kept(r, p) BY <1>2
  <2>2. Kept(r, Put(r, s, done, next)) BY <1>2
  <2>3. \/ Release(r, s) = Fail(r) \/ Release(r, s) = Put(r, s, done, next)
        \/ Release(r, s) = [p EXCEPT !.free_rows = r.free_rows \cup r.banks[b].layout]
    BY Zenon DEF Release
  <2> HIDE DEF p
  <2> QED BY <1>1, <2>1, <2>2, <2>3, Zenon DEF Kept, Shaped
<1> QED BY <1>1, <1>2, <1>3, <1>4

(* Runtime._advance. *)
LEMMA KeptAdvance ==
    ASSUME NEW r, Shaped(r), NEW b, NEW receipt
    PROVE  Kept(r, Advance(r, b, receipt))
<1> DEFINE s == r.banks[b].current
           received == TakeReceipt(r, s, receipt)
           laidOut == LayOut(received, s)
           compiled == SetState(laidOut, s, Compile(laidOut.records[s]))
<1>0. Kept(r, r) BY DEF Kept
<1>1. Kept(r, received) BY <1>0 DEF TakeReceipt, Kept, Shaped
<1>2. ASSUME NEW p, Shaped(p) PROVE Kept(p, FinishSkipped(p, s))
  BY <1>2, KeptParts DEF FinishSkipped, Finish, Kept
<1>3. ASSUME NEW p, Shaped(p) PROVE Kept(p, LayOut(p, s))
  <2> DEFINE rows == Lowest(p.records[s].spec.rows, p.free_rows)
             c == p.records[s].spec.bank_id
             state == [p.records[s] EXCEPT !.layout = rows]
             filling == [p.banks[c] EXCEPT !.layout = rows, !.epoch = p.records[s].spec.bank_epoch,
                                           !.phase = "FILLING"]
             q == Put(p, s, state, filling)
  <2>1. Kept(p, q) /\ Kept(p, Fail(p)) BY <1>3, KeptParts
  <2>2. \/ LayOut(p, s) = p \/ LayOut(p, s) = Fail(p)
        \/ LayOut(p, s) = [q EXCEPT !.free_rows = p.free_rows \ rows]
    BY Zenon DEF LayOut, Allocate
  <2> HIDE DEF q
  <2> QED BY <1>3, <2>1, <2>2 DEF Kept, Shaped
<1>4. ASSUME NEW p, Shaped(p) PROVE Kept(p, SetState(p, s, Compile(p.records[s])))
  BY <1>4 DEF SetState, Kept, Shaped
<1>5. ASSUME NEW p, Shaped(p) PROVE Kept(p, JoinImport(p, s))
  <2> DEFINE c == p.records[s].spec.bank_id
             state == [p.records[s] EXCEPT !.imported = TRUE]
             ready == [p.banks[c] EXCEPT !.phase = "READY"]
  <2>1. \/ JoinImport(p, s) = p
        \/ JoinImport(p, s) = [p EXCEPT !.banks[c].phase = "READY"]
        \/ JoinImport(p, s) = Exchange(p, s, "H2D", "IMPORT")
        \/ JoinImport(p, s) = Put(p, s, state, ready)
    BY Zenon DEF JoinImport
  <2>2. Kept(p, [p EXCEPT !.banks[c].phase = "READY"]) BY <1>5 DEF Kept, Shaped
  <2>3. Kept(p, p) BY <1>5 DEF Kept
  <2> QED BY <1>5, <2>1, <2>2, <2>3, KeptParts, Zenon
<1>6. \/ Advance(r, b, receipt) = r
      \/ Advance(r, b, receipt) = FinishSkipped(received, s)
      \/ Advance(r, b, receipt) = laidOut
      \/ Advance(r, b, receipt) = JoinImport(compiled, s)
  BY Zenon DEF Advance, Prepare, SetState
<1> HIDE DEF received, laidOut, compiled
<1>7. Kept(r, laidOut) BY <1>1, <1>3 DEF laidOut, Kept
<1>8. Kept(r, compiled) BY <1>4, <1>7 DEF compiled, Kept
<1>9. Kept(r, FinishSkipped(received, s)) BY <1>1, <1>2 DEF Kept
<1>10. Kept(r, JoinImport(compiled, s)) BY <1>5, <1>8 DEF Kept
<1> QED BY <1>0, <1>6, <1>7, <1>9, <1>10

(* Runtime.step gives a command only when none is outstanding. *)
LEMMA KeptStep ==
    ASSUME NEW r, Shaped(r), NEW b, NEW receipt, NEW q, q = StepBank(r, b, receipt)
    PROVE  Shaped(q) /\ (Kept(r, q) \/ (r.command = "NONE" /\ r.compute = None))
<1> DEFINE p == IF r.failed THEN r ELSE Advance(r, b, receipt)
           s == Oldest(Eligible(p))
           c == p.records[s].spec.bank_id
           state == [p.records[s] EXCEPT !.jobs["COMPUTE"] = "RUNNING"]
           bank == [p.banks[c] EXCEPT !.phase = "COMPUTING"]
           put == Put(p, s, state, bank)
<1>0. Kept(r, r) BY DEF Kept
<1>1. Kept(r, p) BY <1>0, KeptAdvance
<1>2. \/ q = p \/ q = Fail(p)
      \/ p.compute = None /\ p.command = "NONE" /\ q = [put EXCEPT !.compute = s, !.command = "COMPUTE"]
  BY DEF StepBank, DispatchCompute
<1> HIDE DEF p
<1> HIDE DEF state, bank, c, s
<1>3. Kept(p, Fail(p)) /\ Kept(p, put)
  <2>1. Shaped(p) BY <1>1 DEF Kept
  <2>2. Kept(p, Fail(p)) BY <2>1, KeptParts
  <2>3. \A st, bk : Kept(p, Put(p, s, st, bk)) BY <2>1, KeptParts
  <2> QED BY <2>2, <2>3
<1> HIDE DEF put
<1> QED BY <1>1, <1>2, <1>3 DEF Kept, Shaped

(* Runtime._handle of a copy or of the metadata, and Runtime.receive_inputs. *)
LEMMA KeptHandle ==
    ASSUME NEW r, Shaped(r), NEW s, NEW kind \in {"METADATA", "H2D", "D2H"}
    PROVE  Kept(r, Handle(r, s, kind))
<1> DEFINE p == SetJob(r, s, kind, "NONE")
           state == [p.records[s] EXCEPT !.imported = TRUE]
           ready == [p.banks[p.records[s].spec.bank_id] EXCEPT !.phase = "READY"]
<1>1. Kept(r, p) BY DEF SetJob, Kept, Shaped
<1>2. \/ Handle(r, s, kind) = [p EXCEPT !.records[s].metadata = TRUE]
      \/ Handle(r, s, kind) = Put(p, s, state, ready)
      \/ Handle(r, s, kind) = Release(p, s)
  BY DEF Handle, Apply
<1> HIDE DEF p
<1>3. Kept(p, [p EXCEPT !.records[s].metadata = TRUE]) BY <1>1 DEF Kept, Shaped
<1>4. Kept(p, Put(p, s, state, ready)) /\ Kept(p, Release(p, s)) BY <1>1, KeptParts DEF Kept
<1> QED BY <1>1, <1>2, <1>3, <1>4 DEF Kept

(* Neither does Runtime._receive disturb it. *)
LEMMA KeptReceive ==
    ASSUME NEW r, Shaped(r), NEW s, NEW i, NEW name, NEW finished
    PROVE  Kept(r, Receive(r, s, i, name, finished))
<1> DEFINE state == [r.records[s] EXCEPT !.captured[i] = @ \cup {name},
                                         !.outcomes[i] = IF finished THEN "SKIPPED_FINISHED" ELSE @]
<1>1. Kept(r, [r EXCEPT !.records[s] = state]) BY DEF Kept, Shaped
<1>2. Kept(r, Fail(r)) /\ Kept(r, r) BY KeptParts DEF Kept
<1>3. \/ Receive(r, s, i, name, finished) = r \/ Receive(r, s, i, name, finished) = Fail(r)
      \/ Receive(r, s, i, name, finished) = [r EXCEPT !.records[s] = state]
  BY DEF Receive
<1> QED BY <1>1, <1>2, <1>3
-----------------------------------------------------------------------------
(***************************************************************************)
(* GroupSane is inductive.                                                 *)
(***************************************************************************)
LEMMA GroupInit == Init => GroupSane
<1> SUFFICES ASSUME Init PROVE GroupSane
  OBVIOUS
<1>1. Sane(rt) BY NewRuntimeSane DEF Init
<1>2. /\ DOMAIN rt.records = {} /\ rt.draining = FALSE /\ rt.command = "NONE"
      /\ \A b \in BankIds : rt.banks[b].epoch = 0
  BY DEF Init, NewRuntime, NewBank
<1>3. /\ eng.next = 1 /\ eng.stop = "NO" /\ DOMAIN eng.records = {} /\ \A b \in BankIds : eng.epochs[b] = 0
      /\ Len(incoming) = 0 /\ completions = {} /\ exec.stage = "IDLE"
      /\ \A b \in BankIds : import[b] = <<>> /\ lane[b] = None /\ slot[b] = None
  BY DEF Init
<1>4. RingSane BY <1>2, <1>3 DEF RingSane, RingOrdered, RingAhead, RingStops
<1>5. LedgerSane BY <1>2, <1>3 DEF LedgerSane, LedgerTyped, LedgerKnows, LedgerReserves
<1>6. LanesSane BY <1>2, <1>3 DEF LanesSane, LaneSane, LaneServes, None
<1>7. ExecSane BY <1>3 DEF ExecSane
<1> QED BY <1>1, <1>4, <1>5, <1>6, <1>7 DEF GroupSane

(* Control gives a command only to an idle execution process. *)
LEMMA KeptExec ==
    ASSUME Sane(rt), ExecSane, UNCHANGED exec,
           Kept(rt, rt') \/ (rt.command = "NONE" /\ rt.compute = None)
    PROVE  ExecSane'
  BY DEF ExecSane, Kept

(* A step of control that only moves WORKs on, with or without the command of
   the execution process. *)
Moves ==
    /\ Sane(rt') /\ Evolves(rt, rt', slot)
    /\ Kept(rt, rt') \/ (rt.command = "NONE" /\ rt.compute = None)
    /\ UNCHANGED <<incoming, import, lane, slot, exec, completions, eng>>

(* Such a step keeps GroupSane. *)
LEMMA MovesGroup == ASSUME Inv, GroupSane, Moves, Inv' PROVE GroupSane'
<1>0. TypeOK /\ RInv(rt) /\ Sane(rt) /\ RInv(rt') BY DEF Inv, GroupSane
<1>1. /\ Sane(rt') /\ Evolves(rt, rt', slot)
      /\ Kept(rt, rt') \/ (rt.command = "NONE" /\ rt.compute = None)
      /\ UNCHANGED <<incoming, import, lane, slot, exec, completions, eng>>
  BY DEF Moves
<1>2. RingSane' /\ LedgerSane' /\ LanesSane' BY <1>0, <1>1, EvolvesGroup DEF GroupSane
<1>3. ExecSane' BY <1>0, <1>1, KeptExec DEF GroupSane
<1> QED BY <1>1, <1>2, <1>3 DEF GroupSane

(* Runtime.step over both Banks. *)
LEMMA AdvanceMoves == ASSUME Inv, GroupSane, AdvanceBanks PROVE Moves
<1>0. TypeOK /\ RInv(rt) /\ Sane(rt) BY DEF Inv, GroupSane
<1>1. FirstBank(rt) \in BankIds /\ 1 - FirstBank(rt) \in BankIds BY DEF FirstBank, BankIds
<1>2. PICK b \in {FirstBank(rt)} : \E r \in {StepBank(rt, b, slot[b])} :
          rt' = StepBank(r, 1 - b, slot[1 - b])
  BY DEF AdvanceBanks
<1>3. b \in BankIds /\ 1 - b \in BankIds BY <1>1, <1>2
<1>4. PICK r \in {StepBank(rt, b, slot[b])} : rt' = StepBank(r, 1 - b, slot[1 - b]) BY <1>2
<1>5. r = StepBank(rt, b, slot[b]) BY <1>4
<1>6. RInv(r) /\ Sane(r) /\ Evolves(rt, r, slot) BY <1>0, <1>3, <1>5, StepBankSane
<1>7. RInv(rt') /\ Sane(rt') /\ Evolves(r, rt', slot) BY <1>3, <1>4, <1>6, StepBankSane
<1>8. Evolves(rt, rt', slot) BY <1>0, <1>6, <1>7, EvolvesAgain
<1>9. UNCHANGED <<incoming, import, lane, slot, exec, completions, eng>> BY DEF AdvanceBanks
<1>10. Kept(rt, rt') \/ (rt.command = "NONE" /\ rt.compute = None)
  <2>1. Shaped(rt) BY <1>0, Plain DEF Shaped
  <2>2. Shaped(r) /\ (Kept(rt, r) \/ (rt.command = "NONE" /\ rt.compute = None))
    BY <1>5, <2>1, KeptStep
  <2>3. Kept(r, rt') \/ (r.command = "NONE" /\ r.compute = None)
    BY <1>4, <2>2, KeptStep
  <2> QED BY <2>2, <2>3 DEF Kept
<1> QED BY <1>7, <1>8, <1>9, <1>10 DEF Moves

(* A copy or the metadata is handled. *)
LEMMA HandleMoves ==
    ASSUME Inv, GroupSane, NEW s \in DOMAIN rt.records, NEW kind \in JobKinds,
           HandleDone(s, kind) \/ (HandleMetadata(s) /\ kind = "METADATA"), Inv'
    PROVE  Moves
<1>0. TypeOK /\ RInv(rt) /\ Sane(rt) /\ RInv(rt') BY DEF Inv, GroupSane
<1>1. /\ rt.records[s].jobs[kind] # "NONE" /\ kind # "COMPUTE" /\ rt' = Handle(rt, s, kind)
      /\ kind # "METADATA" => rt.records[s].jobs[kind] = "DONE"
  BY <1>0, StateFacts DEF HandleDone, HandleMetadata
<1>2. Sane(rt') /\ Evolves(rt, rt', slot)
  <2>1. CASE kind = "METADATA" BY <1>0, <1>1, <2>1, HandleMetadataSane
  <2>2. CASE kind = "H2D" BY <1>0, <1>1, <2>2, HandleCopySane
  <2>3. CASE kind = "D2H" BY <1>0, <1>1, <2>3, HandleExportSane
  <2> QED BY <1>1, <2>1, <2>2, <2>3 DEF JobKinds
<1>3. UNCHANGED <<incoming, import, lane, slot, exec, completions, eng>>
  BY DEF HandleDone, HandleMetadata
<1>4. Kept(rt, rt')
  <2>1. kind \in {"METADATA", "H2D", "D2H"} BY <1>1 DEF JobKinds
  <2>2. Shaped(rt) BY <1>0, Plain DEF Shaped
  <2> QED BY <1>1, <2>1, <2>2, KeptHandle
<1> QED BY <1>2, <1>3, <1>4 DEF Moves

(* A dependency fact is captured. *)
LEMMA ReceiveMoves ==
    ASSUME Inv, GroupSane, NEW s \in DOMAIN rt.records, NEW i \in DOMAIN rt.records[s].outcomes,
           NEW name \in Names, NEW finished \in BOOLEAN, ReceiveInput(s, i, name, finished), Inv'
    PROVE  Moves
<1>0. TypeOK /\ RInv(rt) /\ Sane(rt) /\ RInv(rt') BY DEF Inv, GroupSane
<1>1. /\ name \in Dependencies(rt.records[s].spec.operation) \ rt.records[s].captured[i]
      /\ rt.records[s].outcomes[i] = "NONE" /\ rt' = Receive(rt, s, i, name, finished)
  BY DEF ReceiveInput
<1>2. Sane(rt') /\ Evolves(rt, rt', slot) BY <1>0, <1>1, ReceiveSane
<1>3. UNCHANGED <<incoming, import, lane, slot, exec, completions, eng>> BY DEF ReceiveInput
<1>4. Kept(rt, rt')
  <2>1. Shaped(rt) BY <1>0, Plain DEF Shaped
  <2> QED BY <1>1, <2>1, KeptReceive
<1> QED BY <1>2, <1>3, <1>4 DEF Moves

(* The model result is taken and handled. *)
LEMMA ResultEvolves ==
    ASSUME Inv, GroupSane, HandleResult, Inv'
    PROVE  /\ rt.command = "COMPUTE" /\ Sane(rt') /\ Evolves(rt, rt', slot)
           /\ rt'.records[rt.compute].result
           /\ UNCHANGED <<incoming, import, lane, slot, completions, eng>>
           /\ exec'.stage = "IDLE" /\ exec'.clock = exec.clock
<1>0. TypeOK /\ RInv(rt) /\ Sane(rt) /\ RInv(rt') BY DEF Inv, GroupSane
<1>1. rt.command = "COMPUTE" BY DEF GroupSane, ExecSane, HandleResult
<1>2. rt' = Handle(Answered(rt), rt.compute, "COMPUTE") BY <1>1 DEF HandleResult, Answered
<1>3. Sane(rt') /\ Evolves(rt, rt', slot) /\ rt'.records[rt.compute].result
  BY <1>0, <1>1, <1>2, HandleResultSane
<1>4. /\ UNCHANGED <<incoming, import, lane, slot, completions, eng>>
      /\ exec'.stage = "IDLE" /\ exec'.clock = exec.clock
  BY <1>0 DEF HandleResult, TypeOK
<1> QED BY <1>1, <1>3, <1>4

(* The group after that. *)
LEMMA ResultGroup == ASSUME Inv, GroupSane, HandleResult, Inv' PROVE GroupSane'
<1>0. TypeOK /\ RInv(rt) /\ Sane(rt) /\ RInv(rt') BY DEF Inv, GroupSane
<1>1. /\ Sane(rt') /\ Evolves(rt, rt', slot) /\ exec'.stage = "IDLE"
      /\ UNCHANGED <<incoming, import, lane, slot, completions, eng>>
  BY ResultEvolves
<1>2. RingSane' /\ LedgerSane' /\ LanesSane' BY <1>0, <1>1, EvolvesGroup DEF GroupSane
<1>3. ExecSane' BY <1>1 DEF ExecSane
<1> QED BY <1>1, <1>2, <1>3 DEF GroupSane

(* The head of the ring, and what follows it. *)
LEMMA RingTail ==
    ASSUME TypeOK, incoming # <<>>, incoming' = Tail(incoming)
    PROVE  /\ Len(incoming) \in Nat /\ Len(incoming) >= 1 /\ 1 \in 1..Len(incoming)
           /\ Head(incoming) = incoming[1] /\ Head(incoming) \in Messages
           /\ \A i \in 1..Len(incoming') : i + 1 \in 1..Len(incoming) /\ i \in Nat /\ incoming'[i] = incoming[i + 1]
           /\ \A j \in 1..Len(incoming) : j = 1 \/ (j - 1 \in 1..Len(incoming') /\ incoming'[j - 1] = incoming[j])
<1>1. incoming \in Seq(Messages) BY DEF TypeOK
<1>2. /\ Len(incoming) \in Nat /\ Len(incoming) >= 1 /\ Len(incoming') = Len(incoming) - 1
      /\ Head(incoming) = incoming[1]
      /\ \A i \in 1..(Len(incoming) - 1) : incoming'[i] = incoming[i + 1]
  BY <1>1, TailElements
<1>3. 1 \in 1..Len(incoming) BY <1>2
<1>4. Head(incoming) \in Messages BY <1>1, <1>2, <1>3
<1>5. \A i \in 1..Len(incoming') : i + 1 \in 1..Len(incoming) /\ i \in Nat /\ incoming'[i] = incoming[i + 1]
  BY <1>2
<1>6. \A j \in 1..Len(incoming) : j = 1 \/ (j - 1 \in 1..Len(incoming') /\ incoming'[j - 1] = incoming[j])
  <2> SUFFICES ASSUME NEW j \in 1..Len(incoming), j # 1
               PROVE  j - 1 \in 1..Len(incoming') /\ incoming'[j - 1] = incoming[j]
    OBVIOUS
  <2>1. j - 1 \in 1..(Len(incoming) - 1) /\ (j - 1) + 1 = j BY <1>2
  <2>2. incoming'[j - 1] = incoming[(j - 1) + 1] BY <1>2, <2>1
  <2> QED BY <1>2, <2>1, <2>2
<1> QED BY <1>2, <1>3, <1>4, <1>5, <1>6

(* A stop command ends the Runtime's intake. *)
LEMMA StopGroup == ASSUME Inv, GroupSane, PopStop, Inv' PROVE GroupSane'
<1>0. TypeOK /\ RInv(rt) /\ Sane(rt) /\ RInv(rt') BY DEF Inv, GroupSane
<1>1. /\ incoming # <<>> /\ incoming' = Tail(incoming) /\ Head(incoming).kind \in {"DRAIN", "SHUTDOWN"}
      /\ UNCHANGED <<import, lane, slot, exec, completions, eng>>
  BY DEF PopStop
<1>2. /\ 1 \in 1..Len(incoming) /\ incoming[1].kind \in {"DRAIN", "SHUTDOWN"} /\ Head(incoming) = incoming[1]
      /\ \A i \in 1..Len(incoming') : i + 1 \in 1..Len(incoming) /\ i \in Nat /\ incoming'[i] = incoming[i + 1]
  BY <1>0, <1>1, RingTail
<1>3. rt' = Stop(rt, Head(incoming).kind)
  <2>1. rt.draining => Head(incoming).kind = "SHUTDOWN"
    BY <1>2 DEF GroupSane, RingSane, RingStops
  <2> QED BY <2>1 DEF PopStop
<1>4. /\ Sane(rt') /\ DOMAIN rt'.records = DOMAIN rt.records /\ rt'.banks = rt.banks
      /\ rt'.draining /\ rt'.command = rt.command
      /\ \A s \in DOMAIN rt.records :
             StateEvolves(rt.records[s], rt'.records[s], slot[rt.records[s].spec.bank_id] = s)
  BY <1>0, <1>3, StopSane
<1>5. /\ \A i \in 1..Len(incoming') : incoming'[i].kind = "SHUTDOWN"
      /\ \A i : ~Queued(i) /\ ~Queued(i)'
  <2>1. \A i \in 1..Len(incoming) : i = 1 \/ incoming[i].kind = "SHUTDOWN"
    BY <1>2 DEF GroupSane, RingSane, RingOrdered
  <2>2. \A i \in 1..Len(incoming') : incoming'[i].kind = "SHUTDOWN"
    <3>1. \A i \in 1..Len(incoming') : i + 1 # 1 BY <1>2
    <3> QED BY <1>2, <2>1, <3>1
  <2> QED BY <1>2, <2>1, <2>2 DEF Queued
<1>6. eng.stop # "NO" BY <1>2 DEF GroupSane, RingSane, RingStops
<1>7. RingSane' BY <1>1, <1>4, <1>5, <1>6 DEF RingSane, RingOrdered, RingAhead, RingStops
<1>8. LedgerSane'
  BY <1>1, <1>4, <1>5 DEF GroupSane, LedgerSane, LedgerTyped, LedgerKnows, LedgerReserves, StateEvolves
<1>9. ASSUME NEW b \in BankIds PROVE LaneSane(b)' /\ LaneServes(b)'
  <2>1. \A s : Outstanding(b, s) => Outstanding(b, s)'
    BY <1>4, <1>5 DEF Outstanding, StateEvolves
  <2>2. LaneSane(b) /\ LaneServes(b) BY DEF GroupSane, LanesSane
  <2>3. LaneSane(b)' BY <1>1, <2>1, <2>2 DEF LaneSane
  <2>4. ASSUME DirectImports, NEW s \in DOMAIN rt.records, rt.records[s].spec.bank_id = b
        PROVE  LaneStage(b, s, rt.records[s])'
    <3>1. LaneStage(b, s, rt.records[s]) BY <2>2, <2>4 DEF LaneServes
    <3>2. /\ Left(rt'.records[s]) <=> Left(rt.records[s])
          /\ rt.records[s].imported => rt'.records[s].imported
          /\ rt'.records[s].imported => rt.records[s].imported \/ slot[b] = s
      BY <1>4, <2>4 DEF StateEvolves
    <3>3. InPipe(b, s) => slot[b] # s BY <2>2 DEF LaneSane, InPipe
    <3>4. InPipe(b, s)' <=> InPipe(b, s) BY <1>1 DEF InPipe
    <3>5. Left(rt.records[s])' <=> Left(rt'.records[s]) BY DEF Left
    <3> QED BY <1>1, <3>1, <3>2, <3>3, <3>4, <3>5 DEF LaneStage
  <2>5. LaneServes(b)'
    <3>1. DirectImports => \A s \in DOMAIN rt'.records : rt'.records[s].spec.bank_id = b => LaneStage(b, s, rt.records[s])'
      BY <1>4, <2>4 DEF StateEvolves
    <3> QED BY <1>5, <3>1 DEF LaneServes
  <2> QED BY <2>3, <2>5
<1>10. ExecSane' BY <1>1, <1>4 DEF GroupSane, ExecSane
<1> QED BY <1>4, <1>7, <1>8, <1>9, <1>10 DEF GroupSane, LanesSane

(* The records of the Runtime are finitely many. *)
LEMMA RecordsFinite ==
    ASSUME TypeOK, RInv(rt), LedgerSane
    PROVE  IsFiniteSet(DOMAIN rt.records) /\ Cardinality(DOMAIN rt.records) \in Nat
<1>1. eng.next \in Nat BY DEF TypeOK, EngineType, Seqs
<1>2. DOMAIN rt.records \subseteq 0..eng.next
  <2> SUFFICES ASSUME NEW s \in DOMAIN rt.records PROVE s \in 0..eng.next
    OBVIOUS
  <2>1. s \in Nat BY StateFacts DEF Seqs
  <2>2. s < eng.next BY DEF LedgerSane, LedgerKnows, LedgerTyped
  <2> QED BY <1>1, <2>1, <2>2
<1>3. IsFiniteSet(0..eng.next) BY <1>1, FS_Interval
<1> QED BY <1>2, <1>3, FS_Subset, FS_CardinalityType

(* What a new WORK starts with. *)
LEMMA NewStateFields ==
    ASSUME NEW work
    PROVE  NewState(work).spec = work /\ ~NewState(work).imported /\ ~Left(NewState(work))
  BY DEF NewState, Left, JobKinds

(* What ControlRuntime.accept needs of the WORK at the head of the ring. *)
LEMMA HeadAccepted ==
    ASSUME Inv, GroupSane, incoming # <<>>, Head(incoming).kind = "WORK",
           NEW work, work = Head(incoming).work, NEW s, s = work.work_seq, NEW b, b = work.bank_id
    PROVE  /\ Queued(1) /\ QueuedSeq(1) = s /\ incoming[1].work = work
           /\ work \in Work /\ s \in Seqs /\ b \in BankIds
           /\ ~rt.draining
           /\ \A t \in DOMAIN rt.records \cup completions : t < s
           /\ s \notin DOMAIN rt.records /\ s \notin completions
           /\ rt.banks[b].current = None \/ rt.banks[b].pending = None
           /\ work.rows <= CapacityRows
           /\ rt.banks[b].epoch < work.bank_epoch
           /\ rt.banks[b].current # None => rt.records[rt.banks[b].current].spec.bank_epoch < work.bank_epoch
           /\ \A t \in DOMAIN rt.records :
                  ~rt.records[t].physical_done /\ rt.records[t].spec.bank_id # b =>
                      rt.records[t].spec.rows + work.rows <= CapacityRows
           /\ s \in DOMAIN eng.records /\ eng.records[s].work = work /\ s < eng.next
<1>0. TypeOK /\ RInv(rt) /\ Sane(rt) BY DEF Inv, GroupSane
<1>1. 1 \in 1..Len(incoming) /\ Head(incoming) = incoming[1]
  <2>1. incoming \in Seq(Messages) BY <1>0 DEF TypeOK
  <2> QED BY <2>1, TailElements
<1>2. Queued(1) /\ QueuedSeq(1) = s /\ incoming[1].work = work BY <1>1 DEF Queued, QueuedSeq
<1>3. work \in Work /\ s \in Seqs /\ b \in BankIds BY <1>0, <1>1, <1>2, QueuedWork
<1>4. /\ \A t \in DOMAIN rt.records \cup completions : t < s
      /\ rt.banks[b].epoch < work.bank_epoch
  BY <1>1, <1>2 DEF GroupSane, RingSane, RingAhead
<1>5. /\ s \in DOMAIN eng.records /\ eng.records[s].work = work
  BY <1>1, <1>2 DEF GroupSane, LedgerSane, LedgerKnows
<1>6. ~(s < s) BY <1>3 DEF Seqs
<1>7. s \notin DOMAIN rt.records /\ s \notin completions BY <1>4, <1>6
<1>8. work.rows <= CapacityRows /\ s < eng.next /\ ~eng.records[s].physical_done
  BY <1>5, <1>7 DEF GroupSane, LedgerSane, LedgerTyped
<1>9. ~rt.draining BY <1>1, <1>2 DEF GroupSane, RingSane, RingStops
<1>10. \A t \in DOMAIN rt.records : /\ t \in DOMAIN eng.records /\ eng.records[t].work = rt.records[t].spec
                                    /\ ~eng.records[t].physical_done
  BY DEF GroupSane, LedgerSane, LedgerKnows, LedgerTyped
<1>11. rt.banks[b].current = None \/ rt.banks[b].pending = None
  <2> SUFFICES ASSUME rt.banks[b].current # None, rt.banks[b].pending # None PROVE FALSE
    OBVIOUS
  <2> DEFINE c == rt.banks[b].current
             p == rt.banks[b].pending
  <2>1. c \in DOMAIN rt.records /\ rt.records[c].spec.bank_id = b BY <1>0, <1>3, CurrentSound
  <2>2. p \in DOMAIN rt.records /\ rt.records[p].spec.bank_id = b /\ p # c BY <1>0, <1>3, PendingSound
  <2> HIDE DEF c, p
  <2> QED BY <1>5, <1>7, <1>8, <1>10, <2>1, <2>2 DEF GroupSane, LedgerSane, LedgerReserves
<1>12. rt.banks[b].current # None => rt.records[rt.banks[b].current].spec.bank_epoch < work.bank_epoch
  <2> SUFFICES ASSUME rt.banks[b].current # None
               PROVE  rt.records[rt.banks[b].current].spec.bank_epoch < work.bank_epoch
    OBVIOUS
  <2> DEFINE c == rt.banks[b].current
  <2>1. c \in DOMAIN rt.records /\ rt.records[c].spec.bank_id = b BY <1>0, <1>3, CurrentSound
  <2> HIDE DEF c
  <2>2. rt.records[c].spec.bank_epoch < work.bank_epoch
    BY <1>4, <1>5, <1>10, <2>1 DEF GroupSane, LedgerSane, LedgerReserves
  <2> QED BY <2>2 DEF c
<1>13. \A t \in DOMAIN rt.records :
           ~rt.records[t].physical_done /\ rt.records[t].spec.bank_id # b =>
               rt.records[t].spec.rows + work.rows <= CapacityRows
  BY <1>5, <1>8, <1>10 DEF GroupSane, LedgerSane, LedgerReserves
<1> QED BY <1>2, <1>3, <1>4, <1>5, <1>7, <1>8, <1>9, <1>11, <1>12, <1>13, Zenon

(* The WORK at the head of the ring is accepted. *)
LEMMA RegisterGroup == ASSUME Inv, GroupSane, Register, Inv' PROVE GroupSane'
<1> PICK work, s, b : work = Head(incoming).work /\ s = work.work_seq /\ b = work.bank_id
  OBVIOUS
<1>0. TypeOK /\ RInv(rt) /\ Sane(rt) /\ RInv(rt') BY DEF Inv, GroupSane
<1>1. /\ incoming # <<>> /\ incoming' = Tail(incoming) /\ Head(incoming).kind = "WORK"
      /\ Cardinality(DOMAIN rt.records) < MaxOutstanding
      /\ rt' = Accept(rt, work)
      /\ UNCHANGED <<import, lane, slot, exec, completions, eng>>
  BY DEF Register
<1>2. /\ Queued(1) /\ QueuedSeq(1) = s /\ incoming[1].work = work
      /\ work \in Work /\ s \in Seqs /\ b \in BankIds
      /\ ~rt.draining
      /\ \A t \in DOMAIN rt.records \cup completions : t < s
      /\ s \notin DOMAIN rt.records /\ s \notin completions
      /\ rt.banks[b].current = None \/ rt.banks[b].pending = None
      /\ work.rows <= CapacityRows
      /\ rt.banks[b].epoch < work.bank_epoch
      /\ rt.banks[b].current # None => rt.records[rt.banks[b].current].spec.bank_epoch < work.bank_epoch
      /\ \A t \in DOMAIN rt.records :
             ~rt.records[t].physical_done /\ rt.records[t].spec.bank_id # b =>
                 rt.records[t].spec.rows + work.rows <= CapacityRows
      /\ s \in DOMAIN eng.records /\ eng.records[s].work = work /\ s < eng.next
  BY <1>1, HeadAccepted
<1>3. /\ 1 \in 1..Len(incoming)
      /\ \A i \in 1..Len(incoming') : i + 1 \in 1..Len(incoming) /\ i \in Nat /\ incoming'[i] = incoming[i + 1]
      /\ \A j \in 1..Len(incoming) : j = 1 \/ (j - 1 \in 1..Len(incoming') /\ incoming'[j - 1] = incoming[j])
  BY <1>0, <1>1, RingTail
<1>4. /\ Sane(rt')
      /\ DOMAIN rt'.records = DOMAIN rt.records \cup {s} /\ rt'.records[s] = NewState(work)
      /\ \A t \in DOMAIN rt.records : rt'.records[t] = rt.records[t]
      /\ \A c \in BankIds : rt'.banks[c].epoch = rt.banks[c].epoch
      /\ rt'.draining = rt.draining /\ rt'.command = rt.command
  <2>1. Cardinality(DOMAIN rt.records) \in Nat BY <1>0, RecordsFinite DEF GroupSane
  <2>2. Acceptable(rt, work, s, b) BY <1>1, <1>2, <2>1, Zenon DEF Acceptable
  <2> QED BY <1>0, <1>1, <2>2, AcceptSane
<1>5. rt'.records[s].spec = work /\ work.bank_id = b /\ work.work_seq = s BY <1>4, NewStateFields
<1>6. \A i : Queued(i)' => /\ i \in 1..Len(incoming') /\ i + 1 \in 1..Len(incoming) /\ i \in Nat
                           /\ Queued(i + 1) /\ incoming'[i] = incoming[i + 1]
  BY <1>3 DEF Queued
<1>7. \A i \in 1..Len(incoming) : i > 1 /\ Queued(i) => s < QueuedSeq(i)
  BY <1>2, <1>3 DEF GroupSane, RingSane, RingOrdered
<1>8. RingSane'
  <2>1. RingOrdered'
    <3>1. \A i, j \in 1..Len(incoming') : i < j =>
              /\ i + 1 < j + 1 /\ i + 1 \in 1..Len(incoming) /\ j + 1 \in 1..Len(incoming)
              /\ incoming'[i] = incoming[i + 1] /\ incoming'[j] = incoming[j + 1]
      BY <1>3
    <3> QED BY <3>1 DEF GroupSane, RingSane, RingOrdered, Queued, QueuedSeq
  <2>2. RingAhead'
    <3> SUFFICES ASSUME NEW i \in 1..Len(incoming'), Queued(i)'
                 PROVE  /\ \A t \in DOMAIN rt'.records \cup completions : t < QueuedSeq(i + 1)
                        /\ rt'.banks[incoming[i + 1].work.bank_id].epoch < incoming[i + 1].work.bank_epoch
      BY <1>1, <1>6 DEF RingAhead, QueuedSeq
    <3>1. i + 1 \in 1..Len(incoming) /\ i + 1 > 1 /\ Queued(i + 1) BY <1>3, <1>6
    <3>2. s < QueuedSeq(i + 1) BY <1>7, <3>1
    <3>3. /\ \A t \in DOMAIN rt.records \cup completions : t < QueuedSeq(i + 1)
          /\ rt.banks[incoming[i + 1].work.bank_id].epoch < incoming[i + 1].work.bank_epoch
      BY <3>1 DEF GroupSane, RingSane, RingAhead
    <3>4. incoming[i + 1].work.bank_id \in BankIds BY <1>0, <3>1, QueuedWork
    <3> QED BY <1>4, <3>2, <3>3, <3>4
  <2>3. RingStops' BY <1>1, <1>2, <1>3, <1>4 DEF GroupSane, RingSane, RingStops
  <2> QED BY <2>1, <2>2, <2>3 DEF RingSane
<1>9. LedgerSane'
  <2>1. \A t \in DOMAIN rt'.records : t \in DOMAIN eng.records /\ eng.records[t].work = rt'.records[t].spec
    BY <1>2, <1>4, <1>5 DEF GroupSane, LedgerSane, LedgerKnows
  <2>2. \A i \in 1..Len(incoming') : Queued(i)' =>
            incoming'[i].work.work_seq \in DOMAIN eng.records
            /\ eng.records[incoming'[i].work.work_seq].work = incoming'[i].work
    BY <1>6 DEF GroupSane, LedgerSane, LedgerKnows, QueuedSeq
  <2>3. \A t \in completions : t < eng.next /\ t \notin DOMAIN rt'.records
    BY <1>2, <1>4 DEF GroupSane, LedgerSane, LedgerKnows
  <2>4. LedgerKnows'
    BY <1>1, <1>4, <2>1, <2>2, <2>3 DEF GroupSane, LedgerSane, LedgerKnows, QueuedSeq
  <2> QED BY <1>1, <2>4 DEF GroupSane, LedgerSane, LedgerTyped, LedgerReserves
<1>10. ASSUME NEW c \in BankIds PROVE LaneSane(c)' /\ LaneServes(c)'
  <2>1. ASSUME NEW t, Outstanding(c, t) PROVE Outstanding(c, t)'
    <3>1. CASE t \in DOMAIN rt.records /\ rt.records[t].spec.bank_id = c
      BY <1>4, <3>1 DEF Outstanding
    <3>2. CASE \E i \in 1..Len(incoming) : Queued(i) /\ QueuedSeq(i) = t /\ incoming[i].work.bank_id = c
      <4>1. PICK i \in 1..Len(incoming) : Queued(i) /\ QueuedSeq(i) = t /\ incoming[i].work.bank_id = c
        BY <3>2
      <4>2. CASE i = 1 BY <1>2, <1>4, <1>5, <4>1, <4>2 DEF Outstanding
      <4>3. CASE i # 1
        <5>1. i - 1 \in 1..Len(incoming') /\ incoming'[i - 1] = incoming[i] BY <1>3, <4>3
        <5> QED BY <4>1, <5>1 DEF Outstanding, Queued, QueuedSeq
      <4> QED BY <4>2, <4>3
    <3> QED BY <2>1, <3>1, <3>2 DEF Outstanding
  <2>2. LaneSane(c) /\ LaneServes(c) BY DEF GroupSane, LanesSane
  <2>3. LaneSane(c)' BY <1>1, <2>1, <2>2 DEF LaneSane
  <2>4. InPipe(c, s)' <=> InPipe(c, s) BY <1>1 DEF InPipe
  <2>5. ASSUME DirectImports PROVE LaneServes(c)'
    <3>1. ASSUME NEW t \in DOMAIN rt'.records, rt'.records[t].spec.bank_id = c
          PROVE  LaneStage(c, t, rt.records[t])'
      <4>1. CASE t \in DOMAIN rt.records
        <5>1. LaneStage(c, t, rt.records[t]) BY <1>4, <2>2, <2>5, <3>1, <4>1 DEF LaneServes
        <5>2. InPipe(c, t)' <=> InPipe(c, t) BY <1>1 DEF InPipe
        <5>3. rt'.records[t] = rt.records[t] BY <1>4, <4>1
        <5> QED BY <1>1, <5>1, <5>2, <5>3 DEF LaneStage, Left
      <4>2. CASE t = s
        <5>1. c = b /\ ~rt'.records[s].imported /\ ~Left(rt'.records[s])
          BY <1>4, <1>5, <3>1, <4>2, NewStateFields
        <5>2. InPipe(c, s) \/ (lane[c] = s /\ slot[c] = s)
          BY <1>2, <1>3, <1>5, <2>2, <2>5, <5>1, Zenon DEF LaneServes
        <5>3. InPipe(c, s) => lane[c] # s BY <2>2 DEF LaneSane, InPipe
        <5>4. LaneStage(c, s, rt'.records[s]) BY <5>1, <5>2, <5>3 DEF LaneStage
        <5> QED BY <1>1, <2>4, <4>2, <5>4, Zenon DEF LaneStage, Left
      <4> QED BY <1>4, <4>1, <4>2
    <3>2. \A i \in 1..Len(incoming') : Queued(i)' /\ incoming'[i].work.bank_id = c =>
              \/ \E j \in 1..Len(import[c]) : import[c][j] = incoming'[i].work.work_seq
              \/ lane[c] = incoming'[i].work.work_seq /\ slot[c] = incoming'[i].work.work_seq
      BY <1>6, <2>2, <2>5 DEF LaneServes, InPipe, QueuedSeq
    <3> QED BY <1>1, <3>1, <3>2 DEF LaneServes, InPipe, QueuedSeq
  <2>6. ~DirectImports => LaneServes(c)' BY DEF LaneServes
  <2> QED BY <2>3, <2>5, <2>6
<1>11. ExecSane' BY <1>1, <1>4 DEF GroupSane, ExecSane
<1> QED BY <1>4, <1>8, <1>9, <1>10, <1>11 DEF GroupSane, LanesSane

(* A completion is published and its record retired. *)
LEMMA PublishGroup ==
    ASSUME Inv, GroupSane, NEW s \in DOMAIN rt.records, PublishCompletion(s)
    PROVE  GroupSane'
<1>0. TypeOK /\ RInv(rt) /\ Sane(rt) BY DEF Inv, GroupSane
<1>1. /\ rt.records[s].physical_done /\ completions' = completions \cup {s} /\ rt' = Retire(rt, s)
      /\ UNCHANGED <<incoming, import, lane, slot, exec, eng>>
  BY DEF PublishCompletion
<1>2. /\ Sane(rt') /\ DOMAIN rt'.records = DOMAIN rt.records \ {s}
      /\ \A t \in DOMAIN rt'.records : rt'.records[t] = rt.records[t]
      /\ rt'.banks = rt.banks /\ SameFlags(rt, rt')
  BY <1>0, <1>1, RetireSane
<1>3. RingSane'
  BY <1>1, <1>2 DEF GroupSane, RingSane, RingOrdered, RingAhead, RingStops, Queued, QueuedSeq, SameFlags
<1>4. LedgerSane'
  <2>1. s < eng.next BY DEF GroupSane, LedgerSane, LedgerKnows, LedgerTyped
  <2>2. LedgerKnows'
    BY <1>1, <1>2, <2>1 DEF GroupSane, LedgerSane, LedgerKnows, Queued, QueuedSeq
  <2> QED BY <1>1, <2>2 DEF GroupSane, LedgerSane, LedgerTyped, LedgerReserves
<1>5. ASSUME NEW b \in BankIds PROVE LaneSane(b)' /\ LaneServes(b)'
  <2>1. LaneSane(b) /\ LaneServes(b) BY DEF GroupSane, LanesSane
  <2>2. ASSUME NEW t, t # s, Outstanding(b, t) PROVE Outstanding(b, t)'
    BY <1>1, <1>2, <2>2 DEF Outstanding, Queued, QueuedSeq
  <2>3. ASSUME DirectImports, rt.records[s].spec.bank_id = b
        PROVE  lane[b] # s /\ ~InPipe(b, s)
    <3>1. LaneStage(b, s, rt.records[s]) BY <2>1, <2>3 DEF LaneServes
    <3>2. rt.records[s].imported /\ Left(rt.records[s])
      BY <1>0, <1>1, <2>3 DEF Sane, RecordsSane, Left
    <3> QED BY <3>1, <3>2 DEF LaneStage
  <2>4. ASSUME DirectImports, rt.records[s].spec.bank_id # b PROVE ~Outstanding(b, s)
    <3>1. \A i \in 1..Len(incoming) : Queued(i) => QueuedSeq(i) # s
      <4> SUFFICES ASSUME NEW i \in 1..Len(incoming), Queued(i), QueuedSeq(i) = s PROVE FALSE
        OBVIOUS
      <4>1. s < QueuedSeq(i) /\ QueuedSeq(i) \in Nat
        BY <1>0, QueuedWork DEF GroupSane, RingSane, RingAhead
      <4> QED BY <4>1
    <3> QED BY <2>4, <3>1 DEF Outstanding
  <2>5. CASE DirectImports
    <3>1. lane[b] = s => s = None
      <4>1. CASE rt.records[s].spec.bank_id = b BY <2>3, <2>5, <4>1
      <4>2. CASE rt.records[s].spec.bank_id # b BY <2>1, <2>4, <2>5, <4>2 DEF LaneSane
      <4> QED BY <4>1, <4>2
    <3>2. \A i \in 1..Len(import[b]) : import[b][i] # s
      <4>1. CASE rt.records[s].spec.bank_id = b BY <2>3, <2>5, <4>1 DEF InPipe
      <4>2. CASE rt.records[s].spec.bank_id # b BY <2>1, <2>4, <2>5, <4>2 DEF LaneSane
      <4> QED BY <4>1, <4>2
    <3>3. LaneSane(b)' BY <1>1, <2>1, <2>2, <3>1, <3>2 DEF LaneSane
    <3>4. LaneServes(b)'
      BY <1>1, <1>2, <2>1, <2>5 DEF LaneServes, LaneStage, InPipe, Queued, QueuedSeq, Left
    <3> QED BY <3>3, <3>4
  <2>6. CASE ~DirectImports
    <3>1. import[b] = <<>> /\ lane[b] = None BY <2>1, <2>6 DEF LaneSane
    <3> QED BY <1>1, <2>1, <2>6, <3>1 DEF LaneSane, LaneServes
  <2> QED BY <2>5, <2>6
<1>6. ExecSane' BY <1>1, <1>2 DEF GroupSane, ExecSane, SameFlags
<1> QED BY <1>2, <1>3, <1>4, <1>5, <1>6 DEF GroupSane, LanesSane

(* Execution is closed, ends and is joined; a model job ends. *)
LEMMA ExecGroup ==
    ASSUME Inv, GroupSane, CloseExecution \/ ControlExit \/ Execution
    PROVE  GroupSane'
<1>0. TypeOK /\ RInv(rt) /\ Sane(rt) BY DEF Inv, GroupSane
<1>1. UNCHANGED <<incoming, import, lane, slot, completions, eng>>
  BY DEF CloseExecution, ControlExit, Execution, ExecuteEnd, ExecuteShutdown
<1>2. /\ Sane(rt') /\ rt'.records = rt.records /\ rt'.banks = rt.banks /\ rt'.draining = rt.draining
      /\ ExecSane'
  <2>1. CASE CloseExecution
    <3>1. rt.draining /\ DOMAIN rt.records = {} /\ rt' = Closed(rt) /\ exec' = exec /\ rt.command # "SHUTDOWN"
      BY <2>1 DEF CloseExecution, Closed
    <3>2. /\ Sane(rt') /\ rt'.records = rt.records /\ rt'.banks = rt.banks /\ rt'.draining = rt.draining
          /\ rt'.command = "SHUTDOWN"
      BY <1>0, <3>1, CloseSane
    <3>3. rt.command # "COMPUTE" BY <1>0, <3>1, Plain
    <3>4. ExecSane' BY <3>1, <3>2, <3>3 DEF GroupSane, ExecSane
    <3> QED BY <3>2, <3>4
  <2>2. CASE ControlExit
    <3>1. rt.command = "SHUTDOWN" BY <2>2 DEF ControlExit, GroupSane, ExecSane
    <3>2. rt.draining /\ DOMAIN rt.records = {} BY <1>0, <3>1 DEF Sane, CommandSane
    <3>3. rt' = rt /\ exec'.stage = "JOINED" BY <1>0, <2>2, <3>2 DEF ControlExit, TypeOK
    <3> QED BY <1>0, <3>1, <3>3 DEF ExecSane
  <2>3. CASE ExecuteEnd
    <3>1. rt' = rt /\ exec'.stage = "COMPUTED" /\ rt.command = "COMPUTE"
      BY <2>3 DEF ExecuteEnd, ModelRunning
    <3> QED BY <1>0, <3>1 DEF ExecSane
  <2>4. CASE ExecuteShutdown
    <3>1. rt' = rt /\ exec'.stage = "STOPPED" /\ rt.command = "SHUTDOWN"
      BY <1>0, <2>4 DEF ExecuteShutdown, TypeOK
    <3> QED BY <1>0, <3>1 DEF ExecSane
  <2> QED BY <2>1, <2>2, <2>3, <2>4 DEF Execution
<1>3. RingSane' /\ LedgerSane'
  BY <1>1, <1>2 DEF GroupSane, RingSane, RingOrdered, RingAhead, RingStops, Queued, QueuedSeq,
                    LedgerSane, LedgerTyped, LedgerKnows, LedgerReserves
<1>4. LanesSane'
  BY <1>1, <1>2 DEF GroupSane, LanesSane, LaneSane, LaneServes, LaneStage, Outstanding, InPipe,
                    Queued, QueuedSeq, Left
<1> QED BY <1>2, <1>3, <1>4 DEF GroupSane

(* Every step of control. *)
LEMMA ControlGroup == ASSUME Inv, Inv', GroupSane, Control PROVE GroupSane'
  BY AdvanceMoves, HandleMoves, ReceiveMoves, MovesGroup, ResultGroup, StopGroup, RegisterGroup, PublishGroup,
     ExecGroup DEF Control, JobKinds
-----------------------------------------------------------------------------
(* In direct mode the call outstanding on a lane is an EXPORT or a RELEASE of
   the Bank's current WORK, and the lane holds that WORK. *)
LEMMA LaneOwned ==
    ASSUME Inv, GroupSane, DirectImports, NEW b \in BankIds, rt.exchange[b] # "NONE",
           NEW s, s = rt.banks[b].current
    PROVE  /\ s # None /\ s \in DOMAIN rt.records /\ rt.records[s].spec.bank_id = b
           /\ rt.records[s].imported /\ ~Left(rt.records[s])
           /\ lane[b] = s /\ ~InPipe(b, s)
<1>0. TypeOK /\ RInv(rt) /\ Sane(rt) BY DEF Inv, GroupSane
<1> DEFINE st == rt.records[s]
<1>1. s # None BY <1>0 DEF Sane, BankSane
<1>2. /\ s \in DOMAIN rt.records /\ st.spec.bank_id = b /\ ~st.physical_done
      /\ st \in StateOf(st.spec) /\ rt.banks[b] \in BankType
      /\ CurrentSane(st, rt.banks[b], rt.exchange[b])
  BY <1>0, <1>1, CurrentSound
<1>3. rt.exchange[b] \in {"IMPORT", "EXPORT", "RELEASE"} BY <1>0, Plain DEF Flags
<1> HIDE DEF st
<1>4. Staged(st, rt.banks[b].phase) /\ Skipping(st) /\ Exchanging(st, rt.exchange[b])
  BY <1>2 DEF CurrentSane
<1>5. rt.banks[b].phase \in Phases BY <1>2 DEF BankType
<1>6. st.jobs["H2D"] = "NONE"
  <2>1. CASE rt.banks[b].phase = "FREE" BY <1>4, <2>1 DEF Staged, Idle, JobKinds
  <2>2. CASE rt.banks[b].phase = "FILLING" BY <1>4, <2>2 DEF Staged
  <2>3. CASE rt.banks[b].phase = "READY" BY <1>4, <2>3 DEF Staged, Idle, JobKinds
  <2>4. CASE rt.banks[b].phase = "COMPUTING" BY <1>4, <2>4 DEF Staged, Idle, JobKinds
  <2>5. CASE rt.banks[b].phase = "EXPORTING" BY <1>4, <2>5 DEF Staged, Idle, JobKinds
  <2> QED BY <1>5, <2>1, <2>2, <2>3, <2>4, <2>5 DEF Phases
<1>7. st.jobs["D2H"] = "RUNNING" BY <1>3, <1>4, <1>6 DEF Exchanging
<1>8. ~Left(st) BY <1>2, <1>7 DEF Left
<1>9. st.imported
  <2>1. CASE st.result
    <3>1. rt.banks[b].phase = "EXPORTING" BY <1>4, <1>5, <2>1 DEF Staged, Phases
    <3> QED BY <1>4, <3>1 DEF Staged
  <2>2. CASE ~st.result BY <1>4, <1>7, <2>2 DEF Skipping
  <2> QED BY <2>1, <2>2
<1>10. LaneStage(b, s, st) BY <1>2 DEF GroupSane, LanesSane, LaneServes, st
<1> QED BY <1>1, <1>2, <1>8, <1>9, <1>10 DEF LaneStage, st

(* A lane imports the next WORK on its pipe. *)
LEMMA ImportGroup ==
    ASSUME Inv, GroupSane, NEW b \in BankIds, LaneImport(b)
    PROVE  GroupSane'
<1>0. TypeOK /\ RInv(rt) /\ Sane(rt) BY DEF Inv, GroupSane
<1> PICK h : h = Head(import[b])
  OBVIOUS
<1> PICK tail : tail = Tail(import[b])
  OBVIOUS
<1> PICK pipe : pipe = import[b]
  OBVIOUS
<1>1. /\ DirectImports /\ lane[b] = None /\ import[b] # <<>>
      /\ lane' = [lane EXCEPT ![b] = h] /\ slot' = [slot EXCEPT ![b] = h]
      /\ import' = [import EXCEPT ![b] = tail]
      /\ UNCHANGED <<rt, incoming, exec, completions, eng>>
  BY DEF LaneImport, Importing
<1>2. /\ pipe \in Seq(Seqs) /\ DOMAIN import = BankIds /\ DOMAIN lane = BankIds /\ DOMAIN slot = BankIds
  BY <1>0 DEF TypeOK
<1>3. /\ Len(pipe) \in Nat /\ Len(pipe) >= 1 /\ Len(tail) = Len(pipe) - 1 /\ h = pipe[1]
      /\ \A i \in 1..(Len(pipe) - 1) : tail[i] = pipe[i + 1]
  BY <1>1, <1>2, TailElements
<1>4. /\ lane'[b] = h /\ slot'[b] = h /\ import'[b] = tail
      /\ \A c \in BankIds : c # b => lane'[c] = lane[c] /\ slot'[c] = slot[c] /\ import'[c] = import[c]
  BY <1>1, <1>2
<1>5. LaneSane(b) /\ LaneServes(b) BY DEF GroupSane, LanesSane
<1>6. /\ 1 \in 1..Len(pipe)
      /\ \A i \in 1..Len(tail) : i + 1 \in 1..Len(pipe) /\ 1 < i + 1 /\ i \in Nat /\ tail[i] = pipe[i + 1]
  BY <1>3
<1>7. h \in Seqs /\ h \in Nat /\ \A i \in 1..Len(pipe) : pipe[i] \in Nat
  BY <1>2, <1>3, <1>6 DEF Seqs
<1>8. \A i \in 1..Len(tail) : tail[i] \in Nat /\ h < tail[i]
  BY <1>3, <1>5, <1>6, <1>7 DEF LaneSane
<1>9. \A s : InPipe(b, s) <=> s = h \/ \E i \in 1..Len(tail) : tail[i] = s
  <2> SUFFICES ASSUME NEW s PROVE (\E i \in 1..Len(pipe) : pipe[i] = s)
                                      <=> s = h \/ \E i \in 1..Len(tail) : tail[i] = s
    BY DEF InPipe
  <2>1. ASSUME NEW i \in 1..Len(pipe), pipe[i] = s PROVE s = h \/ \E j \in 1..Len(tail) : tail[j] = s
    <3>1. CASE i = 1 BY <1>3, <2>1, <3>1
    <3>2. CASE i # 1
      <4>1. i - 1 \in 1..(Len(pipe) - 1) /\ (i - 1) + 1 = i BY <1>3, <3>2
      <4>2. tail[i - 1] = pipe[(i - 1) + 1] BY <1>3, <4>1
      <4> QED BY <1>3, <2>1, <4>1, <4>2
    <3> QED BY <3>1, <3>2
  <2> QED BY <1>3, <1>6, <2>1
<1>10. InPipe(b, h) BY <1>9
<1>11. \A s : InPipe(b, s)' <=> \E i \in 1..Len(tail) : tail[i] = s BY <1>4 DEF InPipe
<1>12. ~InPipe(b, h)'
  <2>1. \A i \in 1..Len(tail) : tail[i] # h BY <1>7, <1>8
  <2> QED BY <1>11, <2>1
<1>13. Outstanding(b, h) /\ h < eng.next
  <2>1. Outstanding(b, h) BY <1>3, <1>5, <1>6 DEF LaneSane
  <2>2. \A s \in DOMAIN rt.records : s < eng.next
    BY DEF GroupSane, LedgerSane, LedgerKnows, LedgerTyped
  <2>3. \A i \in 1..Len(incoming) : Queued(i) => QueuedSeq(i) < eng.next
    BY DEF GroupSane, LedgerSane, LedgerKnows, LedgerTyped
  <2> QED BY <2>1, <2>2, <2>3 DEF Outstanding
<1>14. \A c \in BankIds : \A s : Outstanding(c, s)' <=> Outstanding(c, s)
  BY <1>1 DEF Outstanding, Queued, QueuedSeq
<1>15. LaneSane(b)'
  <2>1. \A i \in 1..Len(tail) : Outstanding(b, tail[i]) BY <1>3, <1>5, <1>6 DEF LaneSane
  <2>2. \A i, j \in 1..Len(tail) : i < j => tail[i] < tail[j]
    <3>1. \A i, j \in 1..Len(pipe) : i < j => pipe[i] < pipe[j] BY <1>5 DEF LaneSane
    <3>2. \A i, j \in 1..Len(tail) : i < j => i + 1 < j + 1 BY <1>6
    <3> QED BY <1>6, <3>1, <3>2
  <2>3. \A i \in 1..Len(tail) : tail[i] # h BY <1>7, <1>8
  <2> QED BY <1>1, <1>4, <1>13, <1>14, <2>1, <2>2, <2>3 DEF LaneSane
<1>16. LaneServes(b)'
  <2>1. ASSUME NEW s \in DOMAIN rt.records, rt.records[s].spec.bank_id = b
        PROVE  LaneStage(b, s, rt.records[s])'
    <3>1. LaneStage(b, s, rt.records[s]) BY <1>1, <1>5, <2>1 DEF LaneServes
    <3>2. s # None BY <1>0, <2>1, StateFacts DEF Seqs
    <3>3. lane[b] # s BY <1>1, <3>2
    <3>4. Left(rt.records[s])' <=> Left(rt.records[s]) BY <1>1 DEF Left
    <3>5. CASE s = h BY <1>1, <1>4, <1>10, <1>12, <3>1, <3>4, <3>5 DEF LaneStage
    <3>6. CASE s # h
      <4>1. InPipe(b, s)' <=> InPipe(b, s) BY <1>9, <1>11, <3>6
      <4> QED BY <1>1, <1>4, <3>1, <3>3, <3>4, <3>6, <4>1 DEF LaneStage
    <3> QED BY <3>5, <3>6
  <2>2. ASSUME NEW i \in 1..Len(incoming), Queued(i), incoming[i].work.bank_id = b
        PROVE  InPipe(b, QueuedSeq(i))' \/ (lane'[b] = QueuedSeq(i) /\ slot'[b] = QueuedSeq(i))
    <3>1. QueuedSeq(i) # None BY <1>0, <2>2, QueuedWork DEF Seqs
    <3>2. InPipe(b, QueuedSeq(i)) BY <1>1, <1>5, <2>2, <3>1 DEF LaneServes
    <3>3. CASE QueuedSeq(i) = h BY <1>4, <3>3
    <3>4. CASE QueuedSeq(i) # h
      <4> PICK z : z = QueuedSeq(i)
        OBVIOUS
      <4>1. \E j \in 1..Len(tail) : tail[j] = z BY <1>9, <3>2, <3>4
      <4>2. z' = QueuedSeq(i)' BY <1>1 DEF QueuedSeq
      <4> QED BY <1>1, <1>4, <4>1 DEF InPipe, QueuedSeq
    <3> QED BY <3>3, <3>4
  <2> QED BY <1>1, <2>1, <2>2 DEF LaneServes, Queued, QueuedSeq, InPipe
<1>17. ASSUME NEW c \in BankIds, c # b PROVE LaneSane(c)' /\ LaneServes(c)'
  <2>1. LaneSane(c) /\ LaneServes(c) BY DEF GroupSane, LanesSane
  <2>2. LaneSane(c)' BY <1>1, <1>4, <1>14, <1>17, <2>1 DEF LaneSane
  <2>3. LaneServes(c)'
    BY <1>1, <1>4, <1>17, <2>1 DEF LaneServes, LaneStage, InPipe, Queued, QueuedSeq, Left
  <2> QED BY <2>2, <2>3
<1>18. LanesSane' BY <1>15, <1>16, <1>17 DEF LanesSane
<1>19. RingSane' /\ LedgerSane' /\ ExecSane'
  BY <1>1 DEF GroupSane, RingSane, RingOrdered, RingAhead, RingStops, Queued, QueuedSeq,
              LedgerSane, LedgerTyped, LedgerKnows, LedgerReserves, ExecSane
<1> QED BY <1>0, <1>1, <1>18, <1>19 DEF GroupSane

(* A lane serves the copy of its Bank's current WORK. *)
LEMMA ServeGroup ==
    ASSUME Inv, GroupSane, NEW b \in BankIds, LaneServe(b), Inv'
    PROVE  GroupSane'
<1>0. TypeOK /\ RInv(rt) /\ Sane(rt) /\ RInv(rt') BY DEF Inv, GroupSane
<1> PICK s, kind : s = rt.banks[b].current /\ kind = CopyOf(rt.exchange[b])
  OBVIOUS
<1>1. /\ lane' = [lane EXCEPT ![b] = None] /\ rt.exchange[b] # "NONE"
      /\ UNCHANGED <<import, slot, incoming, exec, completions, eng>>
  BY DEF LaneServe
<1>2. /\ Sane(rt') /\ s \in DOMAIN rt.records /\ rt.records[s].spec.bank_id = b
      /\ DOMAIN rt'.records = DOMAIN rt.records
      /\ \A t \in DOMAIN rt.records : t # s => rt'.records[t] = rt.records[t]
      /\ rt'.records[s].spec = rt.records[s].spec
      /\ DirectImports => rt'.records[s].jobs["D2H"] = "DONE" /\ rt'.records[s].imported
      /\ rt'.banks = rt.banks /\ rt'.draining = rt.draining /\ rt'.command = rt.command
  <2>1. rt' = Idled(SetJob(rt, s, kind, "DONE"), b) BY DEF LaneServe, Idled, CopyOf
  <2> QED BY <1>0, <1>1, <2>1, ServeSane DEF Touches
<1>3. \A t \in DOMAIN rt.records : rt'.records[t].spec = rt.records[t].spec BY <1>2
<1>4. RingSane' /\ LedgerSane' /\ ExecSane'
  <2>1. RingSane'
    BY <1>1, <1>2 DEF GroupSane, RingSane, RingOrdered, RingAhead, RingStops, Queued, QueuedSeq
  <2>2. LedgerKnows'
    BY <1>1, <1>2, <1>3 DEF GroupSane, LedgerSane, LedgerKnows, Queued, QueuedSeq
  <2>3. LedgerSane' BY <1>1, <2>2 DEF GroupSane, LedgerSane, LedgerTyped, LedgerReserves
  <2>4. ExecSane' BY <1>1, <1>2 DEF GroupSane, ExecSane
  <2> QED BY <2>1, <2>3, <2>4
<1>5. \A c \in BankIds : \A t : Outstanding(c, t)' <=> Outstanding(c, t)
  BY <1>1, <1>2, <1>3 DEF Outstanding, Queued, QueuedSeq
<1>6. lane'[b] = None /\ \A c \in BankIds : c # b => lane'[c] = lane[c]
  BY <1>0, <1>1 DEF TypeOK
<1>7. \A c \in BankIds : LaneSane(c) /\ LaneServes(c) BY DEF GroupSane, LanesSane
<1>8. \A c \in BankIds : \A i \in 1..Len(import[c]) : import[c][i] # None
  BY <1>0 DEF TypeOK, Seqs
<1>9. eng.next \in Nat /\ 0 < eng.next BY <1>0 DEF TypeOK, EngineType, Seqs, None
<1>10. \A c \in BankIds : \A t : InPipe(c, t)' <=> InPipe(c, t) BY <1>1 DEF InPipe
<1>11. ASSUME NEW c \in BankIds PROVE LaneSane(c)'
  <2>1. CASE c = b BY <1>1, <1>5, <1>6, <1>7, <1>8, <1>9, <2>1 DEF LaneSane, None
  <2>2. CASE c # b BY <1>1, <1>5, <1>6, <1>7, <2>2 DEF LaneSane
  <2> QED BY <2>1, <2>2
<1>12. ASSUME NEW c \in BankIds, c # b PROVE LaneServes(c)'
  <2>1. \A t \in DOMAIN rt.records : rt.records[t].spec.bank_id = c => rt'.records[t] = rt.records[t]
    BY <1>2, <1>12
  <2>2. ASSUME DirectImports, NEW t \in DOMAIN rt.records, rt.records[t].spec.bank_id = c
        PROVE  LaneStage(c, t, rt.records[t])'
    <3>1. LaneStage(c, t, rt.records[t]) BY <1>7, <2>2 DEF LaneServes
    <3>2. /\ rt'.records[t] = rt.records[t] /\ lane'[c] = lane[c] /\ slot' = slot
          /\ InPipe(c, t)' <=> InPipe(c, t)
      BY <1>1, <1>6, <1>10, <1>12, <2>1, <2>2
    <3> QED BY <3>1, <3>2 DEF LaneStage, Left
  <2>3. \A t \in DOMAIN rt'.records : rt'.records[t].spec.bank_id = c => t \in DOMAIN rt.records /\ rt.records[t].spec.bank_id = c
    BY <1>2, <1>3
  <2> QED BY <1>1, <1>6, <1>7, <1>12, <2>2, <2>3 DEF LaneServes, Queued, QueuedSeq, InPipe
<1>13. LaneServes(b)'
  <2> SUFFICES ASSUME DirectImports PROVE LaneServes(b)'
    BY DEF LaneServes
  <2>1. /\ s # None /\ lane[b] = s /\ ~InPipe(b, s) BY <1>1, LaneOwned
  <2>2. ASSUME NEW t \in DOMAIN rt.records, rt.records[t].spec.bank_id = b
        PROVE  LaneStage(b, t, rt.records[t])'
    <3>1. CASE t = s
      <4>1. rt'.records[s].imported /\ Left(rt'.records[s]) BY <1>2 DEF Left
      <4>2. lane'[b] # s /\ ~InPipe(b, s)' BY <1>6, <1>10, <2>1
      <4> QED BY <3>1, <4>1, <4>2 DEF LaneStage, Left
    <3>2. CASE t # s
      <4>1. LaneStage(b, t, rt.records[t]) BY <1>7, <2>2 DEF LaneServes
      <4>2. t # None BY <1>0, <2>2, StateFacts DEF Seqs
      <4>3. rt'.records[t] = rt.records[t] BY <1>2, <3>2
      <4>4. lane[b] # t /\ lane'[b] # t BY <1>6, <2>1, <3>2, <4>2
      <4>5. (InPipe(b, t) => ~rt.records[t].imported /\ ~Left(rt.records[t]))
            /\ (~InPipe(b, t) => rt.records[t].imported /\ Left(rt.records[t]))
        BY <4>1, <4>4 DEF LaneStage
      <4>6. InPipe(b, t)' <=> InPipe(b, t) BY <1>10
      <4> QED BY <4>3, <4>4, <4>5, <4>6 DEF LaneStage, Left
    <3> QED BY <3>1, <3>2
  <2>3. ASSUME NEW i \in 1..Len(incoming), Queued(i), incoming[i].work.bank_id = b
        PROVE  InPipe(b, QueuedSeq(i))
    <3>1. s < QueuedSeq(i) /\ QueuedSeq(i) \in Nat
      BY <1>0, <1>2, <2>3, QueuedWork DEF GroupSane, RingSane, RingAhead
    <3>2. lane[b] # QueuedSeq(i) BY <2>1, <3>1
    <3> QED BY <1>7, <2>3, <3>2 DEF LaneServes
  <2> QED BY <1>1, <1>2, <1>3, <2>2, <2>3 DEF LaneServes, Queued, QueuedSeq, InPipe
<1> QED BY <1>2, <1>4, <1>11, <1>12, <1>13 DEF GroupSane, LanesSane

(* Every step of the DMA process: a lane is never asked for a Bank it does not
   hold. *)
LEMMA DmaGroup == ASSUME Inv, Inv', GroupSane, Dma PROVE GroupSane'
<1>1. PICK b \in BankIds : LaneImport(b) \/ LaneUnowned(b) \/ LaneServe(b) BY DEF Dma
<1>2. ~LaneUnowned(b)
  <2> SUFFICES ASSUME LaneUnowned(b) PROVE FALSE
    OBVIOUS
  <2>1. DirectImports /\ lane[b] = None /\ rt.exchange[b] # "NONE" BY DEF LaneUnowned
  <2> QED BY <2>1, LaneOwned
<1> QED BY <1>1, <1>2, ImportGroup, ServeGroup

(***************************************************************************)
(* The Engine, and the theorems.                                           *)
(***************************************************************************)
(* The fields of the ledger, and its authorisations. *)
Framed(e) ==
    /\ DOMAIN e = {"generation", "next", "stop", "records", "epochs", "bank", "clock"}
    /\ \A s \in DOMAIN e.records : e.records[s] \in Authorised

(* What WorkLedger.refresh takes from the cached rows for one authorisation. *)
Ended(e, r) ==
    \/ e.clock = r.work.work_seq
    \/ e.bank[r.work.bank_id].epoch > r.work.bank_epoch
    \/ /\ e.bank[r.work.bank_id].epoch = r.work.bank_epoch
       /\ e.bank[r.work.bank_id].phase \in {"FREE", "EXPORTING"}
(* One authorisation after refresh. *)
Marked(e, r) == [r EXCEPT !.compute_done = @ \/ Ended(e, r)]

(* Only compute_done may change. *)
LEMMA MarkedFields ==
    ASSUME NEW e, NEW r \in Authorised
    PROVE  /\ Marked(e, r) \in Authorised /\ Marked(e, r).work = r.work
           /\ Marked(e, r).physical_done = r.physical_done
<1>1. (r.compute_done \/ Ended(e, r)) \in BOOLEAN BY DEF Authorised, Ended
<1> QED BY <1>1 DEF Marked, Authorised

(* It only marks computations as done. *)
LEMMA RefreshMarks ==
    ASSUME NEW e, Framed(e), NEW q, q = Refresh(e)
    PROVE  /\ q.next = e.next /\ q.stop = e.stop /\ q.epochs = e.epochs
           /\ DOMAIN q.records = DOMAIN e.records
           /\ \A s \in DOMAIN e.records :
                  /\ q.records[s] \in Authorised
                  /\ q.records[s].work = e.records[s].work
                  /\ q.records[s].physical_done = e.records[s].physical_done
<1>1. q.next = e.next /\ q.stop = e.stop /\ q.epochs = e.epochs BY DEF Refresh, Framed
<1>2. q.records = [s \in DOMAIN e.records |-> Marked(e, e.records[s])]
  BY DEF Refresh, Framed, Marked, Ended
<1>3. DOMAIN q.records = DOMAIN e.records
      /\ \A s \in DOMAIN e.records : q.records[s] = Marked(e, e.records[s])
  BY <1>2
<1>4. \A s \in DOMAIN e.records : e.records[s] \in Authorised BY DEF Framed
<1>5. \A s \in DOMAIN e.records :
          /\ q.records[s] \in Authorised
          /\ q.records[s].work = e.records[s].work
          /\ q.records[s].physical_done = e.records[s].physical_done
  BY <1>3, <1>4, MarkedFields
<1> QED BY <1>1, <1>3, <1>5

(* The ledger observes completions and retires what is physically done; every
   WORK control has, or will find on the ring, stays authorised. *)
Observes(e) ==
    /\ e.next = eng.next /\ e.stop = eng.stop /\ e.epochs = eng.epochs
    /\ DOMAIN e.records \subseteq DOMAIN eng.records
    /\ \A s \in DOMAIN eng.records \ DOMAIN e.records : eng.records[s].physical_done
    /\ \A s \in DOMAIN e.records :
           /\ e.records[s] \in Authorised
           /\ e.records[s].work = eng.records[s].work
           /\ e.records[s].physical_done => s \in completions
           /\ eng.records[s].physical_done => e.records[s].physical_done

(* Such a step keeps GroupSane. *)
LEMMA ObservesGroup ==
    ASSUME Inv, GroupSane, Observes(eng'), UNCHANGED <<rt, incoming, import, lane, slot, exec, completions>>
    PROVE  GroupSane'
<1> PICK e : e = eng'
  OBVIOUS
<1>0. TypeOK /\ RInv(rt) /\ Sane(rt) BY DEF Inv, GroupSane
<1>1. /\ e.next = eng.next /\ e.stop = eng.stop /\ e.epochs = eng.epochs
      /\ \A s \in DOMAIN e.records :
             /\ s \in DOMAIN eng.records /\ e.records[s] \in Authorised
             /\ e.records[s].work = eng.records[s].work
             /\ e.records[s].physical_done => s \in completions
             /\ eng.records[s].physical_done => e.records[s].physical_done
  BY DEF Observes
<1>2. \A s \in DOMAIN eng.records : s \notin completions => s \in DOMAIN e.records
  BY DEF Observes, GroupSane, LedgerSane, LedgerTyped
<1>3. RingSane' /\ LanesSane' /\ ExecSane' /\ Sane(rt')
  BY <1>1 DEF GroupSane, RingSane, RingOrdered, RingAhead, RingStops, Queued, QueuedSeq,
              LanesSane, LaneSane, LaneServes, LaneStage, Outstanding, InPipe, Left, ExecSane
<1>4. LedgerTyped' BY <1>1 DEF GroupSane, LedgerSane, LedgerTyped
<1>5. LedgerReserves' BY <1>1 DEF GroupSane, LedgerSane, LedgerReserves
<1>6. \A i \in 1..Len(incoming) : Queued(i) => QueuedSeq(i) \notin completions
  <2> SUFFICES ASSUME NEW i \in 1..Len(incoming), Queued(i), QueuedSeq(i) \in completions PROVE FALSE
    OBVIOUS
  <2>1. QueuedSeq(i) < QueuedSeq(i) /\ QueuedSeq(i) \in Nat
    BY <1>0, QueuedWork DEF GroupSane, RingSane, RingAhead
  <2> QED BY <2>1
<1>7. LedgerKnows'
  <2>1. \A s \in DOMAIN rt.records : s \notin completions BY DEF GroupSane, LedgerSane, LedgerKnows
  <2> QED BY <1>1, <1>2, <1>6, <2>1 DEF GroupSane, LedgerSane, LedgerKnows, Queued, QueuedSeq
<1> QED BY <1>3, <1>4, <1>5, <1>7 DEF GroupSane, LedgerSane

(* The refresh after an observation is part of it. *)
LEMMA RefreshObserves ==
    ASSUME NEW seen, Framed(seen), Observes(seen), NEW q, q = Refresh(seen)
    PROVE  Observes(q)
<1>1. /\ q.next = seen.next /\ q.stop = seen.stop /\ q.epochs = seen.epochs
      /\ DOMAIN q.records = DOMAIN seen.records
      /\ \A s \in DOMAIN seen.records :
             /\ q.records[s] \in Authorised
             /\ q.records[s].work = seen.records[s].work
             /\ q.records[s].physical_done = seen.records[s].physical_done
  BY RefreshMarks
<1> QED BY <1>1 DEF Observes

(* The three reads of the ledger: rows, completions, retirement. *)
LEMMA ReadsGroup == ASSUME Inv, GroupSane, EngineObserves PROVE GroupSane'
<1>0. /\ eng.next \in Nat
      /\ DOMAIN eng = {"generation", "next", "stop", "records", "epochs", "bank", "clock"}
  BY DEF Inv, TypeOK, EngineType, Seqs
<1>1. \A s \in DOMAIN eng.records :
          eng.records[s] \in Authorised /\ (eng.records[s].physical_done => s \in completions)
  BY DEF GroupSane, LedgerSane, LedgerTyped
<1>2. CASE ObserveRows
  <2> PICK seen : seen = [eng EXCEPT !.bank = [b \in BankIds |-> BankRow(b)], !.clock = exec.clock]
    OBVIOUS
  <2>1. eng' = Refresh(seen) /\ UNCHANGED <<rt, incoming, import, lane, slot, exec, completions>>
    BY <1>2 DEF ObserveRows
  <2>2. /\ DOMAIN seen = DOMAIN eng /\ seen.records = eng.records /\ seen.next = eng.next
        /\ seen.stop = eng.stop /\ seen.epochs = eng.epochs
    BY <1>0
  <2>3. Framed(seen) BY <1>0, <1>1, <2>2 DEF Framed
  <2>4. Observes(seen) BY <1>1, <2>2 DEF Observes
  <2>5. Observes(eng') BY <2>1, <2>3, <2>4, RefreshObserves
  <2> QED BY <2>1, <2>5, ObservesGroup
<1>3. ASSUME NEW s \in DOMAIN eng.records, ObserveCompletion(s) PROVE GroupSane'
  <2> PICK done : done = [eng.records[s] EXCEPT !.compute_done = TRUE, !.physical_done = TRUE]
    OBVIOUS
  <2> PICK seen : seen = [eng EXCEPT !.records = [eng.records EXCEPT ![s] = done]]
    OBVIOUS
  <2>1. /\ s \in completions /\ eng' = Refresh(seen)
        /\ UNCHANGED <<rt, incoming, import, lane, slot, exec, completions>>
    BY <1>3 DEF ObserveCompletion
  <2>2. /\ DOMAIN seen = DOMAIN eng /\ seen.next = eng.next
        /\ seen.stop = eng.stop /\ seen.epochs = eng.epochs
        /\ DOMAIN seen.records = DOMAIN eng.records
        /\ seen.records[s] = done
        /\ \A t \in DOMAIN eng.records : t # s => seen.records[t] = eng.records[t]
    BY <1>0
  <2>3. done \in Authorised /\ done.work = eng.records[s].work /\ done.physical_done
    BY <1>1 DEF Authorised
  <2>4. Framed(seen) BY <1>0, <1>1, <2>2, <2>3 DEF Framed
  <2>5. Observes(eng')
    <3>1. \A t \in DOMAIN seen.records :
              /\ seen.records[t].work = eng.records[t].work
              /\ seen.records[t].physical_done => t \in completions
              /\ eng.records[t].physical_done => seen.records[t].physical_done
      BY <1>1, <2>1, <2>2, <2>3
    <3>2. Observes(seen) BY <2>2, <2>4, <3>1 DEF Observes, Framed
    <3> QED BY <2>1, <2>4, <3>2, RefreshObserves
  <2> QED BY <2>1, <2>5, ObservesGroup
<1>4. ASSUME NEW s \in DOMAIN eng.records, RetireRecord(s) PROVE GroupSane'
  <2> PICK seen : seen = [eng EXCEPT !.records = [x \in DOMAIN eng.records \ {s} |-> eng.records[x]]]
    OBVIOUS
  <2>1. /\ eng.records[s].physical_done /\ eng' = Refresh(seen)
        /\ UNCHANGED <<rt, incoming, import, lane, slot, exec, completions>>
    BY <1>4 DEF RetireRecord
  <2>2. /\ DOMAIN seen = DOMAIN eng /\ seen.next = eng.next
        /\ seen.stop = eng.stop /\ seen.epochs = eng.epochs
        /\ DOMAIN seen.records = DOMAIN eng.records \ {s}
        /\ \A t \in DOMAIN seen.records : seen.records[t] = eng.records[t]
    BY <1>0
  <2>3. Framed(seen) BY <1>0, <1>1, <2>2 DEF Framed
  <2>4. Observes(seen) BY <1>1, <1>4, <2>2 DEF Observes, RetireRecord
  <2>5. Observes(eng') BY <2>1, <2>3, <2>4, RefreshObserves
  <2> QED BY <2>1, <2>5, ObservesGroup
<1> QED BY <1>2, <1>3, <1>4 DEF EngineObserves

(* What the ring holds after the Engine has put one more message on it. *)
LEMMA RingAppend ==
    ASSUME TypeOK, NEW m \in Messages, incoming' = Append(incoming, m)
    PROVE  /\ Len(incoming) \in Nat /\ Len(incoming') = Len(incoming) + 1
           /\ \A i \in 1..Len(incoming) : i \in 1..Len(incoming') /\ i < Len(incoming) + 1 /\ incoming'[i] = incoming[i]
           /\ incoming'[Len(incoming) + 1] = m
           /\ \A i \in 1..Len(incoming') : i \in 1..Len(incoming) \/ i = Len(incoming) + 1
           /\ \A i, j \in 1..Len(incoming') : i < j => i \in 1..Len(incoming)
<1>1. incoming \in Seq(Messages) BY DEF TypeOK
<1>2. /\ Len(incoming) \in Nat
      /\ Len(incoming') = Len(incoming) + 1
      /\ \A i \in 1..Len(incoming) : incoming'[i] = incoming[i]
      /\ incoming'[Len(incoming) + 1] = m
  BY <1>1, AppendElements
<1> QED BY <1>2

(* DRAIN or SHUTDOWN follows the WORKs. *)
LEMMA EngineStopGroup ==
    ASSUME Inv, GroupSane, NEW kind \in StopKinds, EngineStop(kind) PROVE GroupSane'
<1> PICK m : m = [kind |-> kind, work |-> NoWork]
  OBVIOUS
<1>0. TypeOK /\ RInv(rt) /\ Sane(rt) BY DEF Inv, GroupSane
<1>1. /\ eng.stop = "NO" \/ (eng.stop = "DRAIN" /\ kind = "SHUTDOWN")
      /\ incoming' = Append(incoming, m)
      /\ eng' = [eng EXCEPT !.stop = kind]
      /\ UNCHANGED <<rt, import, lane, slot, exec, completions>>
  BY DEF EngineStop
<1>2. kind \in {"DRAIN", "SHUTDOWN"} BY StopKindsAssumption
<1>3. m \in Messages /\ m.kind = kind BY <1>2 DEF Messages
<1>4. /\ \A i \in 1..Len(incoming) : i \in 1..Len(incoming') /\ incoming'[i] = incoming[i]
      /\ \A i \in 1..Len(incoming') : i \in 1..Len(incoming) \/ (i = Len(incoming) + 1 /\ incoming'[i] = m)
      /\ \A i, j \in 1..Len(incoming') : i < j => i \in 1..Len(incoming)
  BY <1>0, <1>1, <1>3, RingAppend
<1>5. /\ eng'.next = eng.next /\ eng'.stop = kind /\ eng'.epochs = eng.epochs /\ eng'.records = eng.records
  BY <1>0, <1>1 DEF TypeOK, EngineType
<1>6. \A i : Queued(i)' <=> Queued(i) BY <1>2, <1>3, <1>4 DEF Queued
<1>7. \A i : Queued(i) => i \in 1..Len(incoming) /\ incoming'[i] = incoming[i] BY <1>4 DEF Queued
<1>8. RingSane'
  <2>1. RingOrdered'
    <3> SUFFICES ASSUME NEW i \in 1..Len(incoming'), NEW j \in 1..Len(incoming'), i < j
                 PROVE  /\ incoming'[i].kind # "WORK" => incoming'[j].kind = "SHUTDOWN"
                        /\ Queued(i) /\ Queued(j) => incoming'[i].work.work_seq < incoming'[j].work.work_seq
      BY <1>6 DEF RingOrdered, QueuedSeq
    <3>1. i \in 1..Len(incoming) /\ incoming'[i] = incoming[i] BY <1>4
    <3>2. CASE j \in 1..Len(incoming)
      BY <1>4, <3>1, <3>2 DEF GroupSane, RingSane, RingOrdered, QueuedSeq
    <3>3. CASE j \notin 1..Len(incoming)
      <4>1. incoming'[j] = m /\ ~Queued(j) BY <1>4, <3>3 DEF Queued
      <4>2. incoming[i].kind # "WORK" => kind = "SHUTDOWN"
        BY <1>1, <3>1 DEF GroupSane, RingSane, RingStops
      <4> QED BY <1>3, <3>1, <4>1, <4>2
    <3> QED BY <3>2, <3>3
  <2>2. RingAhead' BY <1>1, <1>6, <1>7 DEF GroupSane, RingSane, RingAhead, QueuedSeq, Queued
  <2>3. RingStops'
    <3>1. kind # "NO" BY <1>2
    <3>2. rt.draining => kind = "SHUTDOWN" BY <1>1 DEF GroupSane, RingSane, RingStops
    <3>3. rt.draining => \A i \in 1..Len(incoming') : incoming'[i].kind = "SHUTDOWN"
      BY <1>3, <1>4, <3>2 DEF GroupSane, RingSane, RingStops
    <3> QED BY <1>1, <1>5, <3>1, <3>3 DEF RingStops
  <2> QED BY <2>1, <2>2, <2>3 DEF RingSane
<1>9. LedgerSane'
  <2>1. LedgerKnows'
    BY <1>1, <1>5, <1>6, <1>7 DEF GroupSane, LedgerSane, LedgerKnows, QueuedSeq, Queued
  <2> QED BY <1>1, <1>5, <2>1 DEF GroupSane, LedgerSane, LedgerTyped, LedgerReserves
<1>10. ASSUME NEW b \in BankIds PROVE LaneSane(b)' /\ LaneServes(b)'
  <2>1. LaneSane(b) /\ LaneServes(b) BY DEF GroupSane, LanesSane
  <2>2. ASSUME NEW s, Outstanding(b, s) PROVE Outstanding(b, s)'
    BY <1>1, <1>4, <1>6, <1>7, <2>2 DEF Outstanding, QueuedSeq
  <2>3. LaneSane(b)' BY <1>1, <1>5, <2>1, <2>2 DEF LaneSane
  <2>4. LaneServes(b)'
    BY <1>1, <1>6, <1>7, <2>1 DEF LaneServes, LaneStage, InPipe, QueuedSeq, Queued, Left
  <2> QED BY <2>3, <2>4
<1>11. ExecSane' BY <1>1 DEF GroupSane, ExecSane
<1> QED BY <1>0, <1>1, <1>8, <1>9, <1>10, <1>11 DEF GroupSane, LanesSane

(* A bounded set of numbers has a greatest one. *)
LEMMA GreatestNumber ==
    ASSUME NEW n \in Nat, NEW S \in SUBSET (0..n), S # {}
    PROVE  \E x \in S : \A y \in S : y <= x
<1> DEFINE T == {n - y : y \in S}
<1>1. \A y \in S : y \in Nat /\ y <= n /\ n - y \in Nat
  OBVIOUS
<1>2. T \in SUBSET Nat /\ T # {} BY <1>1
<1>3. PICK z \in T : \A y \in T : z <= y BY <1>2, LeastNumber
<1>4. PICK x \in S : z = n - x BY <1>3
<1>5. \A y \in S : z <= n - y BY <1>3
<1> HIDE DEF T
<1>6. \A y \in S : y <= x BY <1>1, <1>4, <1>5
<1> QED BY <1>6

(* WorkLedger.capacity: a WORK no wider than RowsBeside fits next to every
   WORK reserved on the other Bank. *)
LEMMA BesideFits ==
    ASSUME Inv, GroupSane, NEW b \in BankIds, NEW n \in 1..MaxBatchSize, n <= RowsBeside(b)
    PROVE  n <= CapacityRows /\ \A s \in Reserved(1 - b) : eng.records[s].work.rows + n <= CapacityRows
<1> DEFINE widths == {eng.records[s].work.rows : s \in Reserved(1 - b)}
<1>0. CapacityRows \in Nat /\ MaxBatchSize \in Nat /\ n \in Nat
  BY CapacityRowsAssumption, MaxBatchSizeAssumption
<1>1. \A s \in DOMAIN eng.records : eng.records[s].work.rows \in 0..CapacityRows
  BY <1>0 DEF GroupSane, LedgerSane, LedgerTyped, Authorised, Work
<1>2. widths \cup {0} \in SUBSET (0..CapacityRows) BY <1>0, <1>1 DEF Reserved
<1>3. \E x \in widths \cup {0} : \A y \in widths \cup {0} : y <= x
  <2> HIDE DEF widths
  <2> QED BY <1>0, <1>2, GreatestNumber
<1>4. \E x \in widths \cup {0} :
          /\ \A y \in widths : y <= x
          /\ RowsBeside(b) = IF CapacityRows - x < MaxBatchSize THEN CapacityRows - x ELSE MaxBatchSize
  <2> DEFINE used == CHOOSE x \in widths \cup {0} : \A y \in widths : y <= x
  <2>1. RowsBeside(b) = IF CapacityRows - used < MaxBatchSize THEN CapacityRows - used ELSE MaxBatchSize
    BY DEF RowsBeside
  <2>2. used \in widths \cup {0} /\ \A y \in widths : y <= used
    <3> HIDE DEF widths
    <3> QED BY <1>3
  <2> HIDE DEF used
  <2> QED BY <2>1, <2>2
<1>5. PICK used \in widths \cup {0} :
          /\ \A y \in widths : y <= used
          /\ RowsBeside(b) = IF CapacityRows - used < MaxBatchSize THEN CapacityRows - used ELSE MaxBatchSize
  BY <1>4
<1>6. used \in Nat /\ used <= CapacityRows
  <2> HIDE DEF widths
  <2> QED BY <1>0, <1>2, <1>5
<1>7. n <= CapacityRows - used BY <1>0, <1>5, <1>6
<1>8. \A s \in Reserved(1 - b) : eng.records[s].work.rows <= used BY <1>5
<1>9. \A s \in Reserved(1 - b) : eng.records[s].work.rows \in Nat
  BY <1>1 DEF Reserved
<1>10. n <= CapacityRows /\ \A r \in Nat : r <= used => r + n <= CapacityRows BY <1>0, <1>6, <1>7
<1> HIDE DEF widths
<1> QED BY <1>8, <1>9, <1>10

(* Recycling starts from nothing: no lane, pipe or ring holds a WORK. *)
LEMMA RecycleGroup == ASSUME Inv, GroupSane, Recycle PROVE GroupSane'
<1>0. TypeOK /\ RInv(rt) /\ Sane(rt) BY DEF Inv, GroupSane
<1>1. /\ exec.stage = "JOINED" /\ DOMAIN eng.records = {} /\ rt' = NewRuntime
      /\ slot' = [b \in BankIds |-> None] /\ completions' = {} /\ incoming' = <<>>
      /\ import' = import /\ lane' = lane
      /\ exec'.stage = "IDLE"
  BY DEF Recycle
<1>2. DOMAIN rt.records = {} BY <1>0, <1>1 DEF GroupSane, ExecSane, Sane, CommandSane
<1>3. \A i \in 1..Len(incoming) : ~Queued(i) BY <1>1 DEF GroupSane, LedgerSane, LedgerKnows
<1>4. \A b \in BankIds : \A s : ~Outstanding(b, s) BY <1>2, <1>3 DEF Outstanding
<1>5. \A b \in BankIds : lane[b] = None /\ \A i \in 1..Len(import[b]) : FALSE
  BY <1>4 DEF GroupSane, LanesSane, LaneSane
<1>6. /\ eng'.next = 1 /\ eng'.stop = "NO" /\ eng'.records = eng.records
      /\ \A b \in BankIds : eng'.epochs[b] = 0
  BY <1>0 DEF TypeOK, EngineType, Recycle
<1>7. /\ DOMAIN NewRuntime.records = {} /\ ~NewRuntime.draining
      /\ \A b \in BankIds : NewRuntime.banks[b].epoch = 0
  BY DEF NewRuntime, NewBank
<1>8. Len(incoming') = 0 BY <1>1
<1>9. RingSane' BY <1>1, <1>6, <1>7, <1>8 DEF RingSane, RingOrdered, RingAhead, RingStops
<1>10. LedgerSane'
  BY <1>1, <1>6, <1>7, <1>8 DEF LedgerSane, LedgerTyped, LedgerKnows, LedgerReserves
<1>11. \A b \in BankIds : ~DirectImports => import[b] = <<>>
  BY DEF GroupSane, LanesSane, LaneSane
<1>12. LanesSane'
  BY <1>1, <1>5, <1>6, <1>7, <1>8, <1>11 DEF LanesSane, LaneSane, LaneServes, None
<1>13. ExecSane' BY <1>1 DEF ExecSane
<1>14. Sane(rt') BY <1>1, NewRuntimeSane
<1> QED BY <1>9, <1>10, <1>12, <1>13, <1>14 DEF GroupSane

(* The ledger after Submit: one more authorisation. *)
Submitted(work) ==
    [eng EXCEPT !.next = @ + 1,
                !.epochs[work.bank_id] = work.bank_epoch,
                !.records = [s \in DOMAIN @ \cup {eng.next} |->
                                IF s = eng.next THEN NewRecord(work) ELSE @[s]]]

(* One authorisation more; the refresh marks computations only. *)
LEMMA SubmittedFields ==
    ASSUME TypeOK, LedgerSane, NEW work \in Work, NEW e, e = Refresh(Submitted(work))
    PROVE  /\ e.next = eng.next + 1 /\ e.stop = eng.stop
           /\ e.epochs[work.bank_id] = work.bank_epoch
           /\ \A c \in BankIds : c # work.bank_id => e.epochs[c] = eng.epochs[c]
           /\ DOMAIN e.records = DOMAIN eng.records \cup {eng.next}
           /\ \A s \in DOMAIN e.records :
                  /\ e.records[s] \in Authorised
                  /\ s = eng.next => e.records[s].work = work /\ ~e.records[s].physical_done
                  /\ s # eng.next => /\ e.records[s].work = eng.records[s].work
                                     /\ e.records[s].physical_done = eng.records[s].physical_done
<1> PICK seen : seen = Submitted(work)
  OBVIOUS
<1>0. /\ DOMAIN eng = {"generation", "next", "stop", "records", "epochs", "bank", "clock"}
      /\ DOMAIN eng.epochs = BankIds /\ work.bank_id \in BankIds /\ eng.next \in Nat
  BY DEF TypeOK, EngineType, Work, Seqs
<1>1. /\ DOMAIN seen = DOMAIN eng
      /\ seen.next = eng.next + 1 /\ seen.stop = eng.stop
      /\ seen.epochs = [eng.epochs EXCEPT ![work.bank_id] = work.bank_epoch]
      /\ seen.records = [s \in DOMAIN eng.records \cup {eng.next} |->
                            IF s = eng.next THEN NewRecord(work) ELSE eng.records[s]]
  BY <1>0 DEF Submitted
<1>2. NewRecord(work) \in Authorised /\ NewRecord(work).work = work /\ ~NewRecord(work).physical_done
  BY DEF NewRecord, Authorised
<1>3. /\ DOMAIN seen.records = DOMAIN eng.records \cup {eng.next}
      /\ seen.records[eng.next] = NewRecord(work)
      /\ \A s \in DOMAIN eng.records : s # eng.next => seen.records[s] = eng.records[s]
  BY <1>1
<1>4. /\ seen.epochs[work.bank_id] = work.bank_epoch
      /\ \A c \in BankIds : c # work.bank_id => seen.epochs[c] = eng.epochs[c]
  BY <1>0, <1>1
<1>5. \A s \in DOMAIN eng.records : eng.records[s] \in Authorised BY DEF LedgerSane, LedgerTyped
<1>6. DOMAIN seen = DOMAIN eng /\ seen.next = eng.next + 1 /\ seen.stop = eng.stop BY <1>1
<1>7. Framed(seen) BY <1>0, <1>2, <1>3, <1>5, <1>6 DEF Framed
<1>8. /\ e.next = seen.next /\ e.stop = seen.stop /\ e.epochs = seen.epochs
      /\ DOMAIN e.records = DOMAIN seen.records
      /\ \A s \in DOMAIN seen.records :
             /\ e.records[s] \in Authorised
             /\ e.records[s].work = seen.records[s].work
             /\ e.records[s].physical_done = seen.records[s].physical_done
  BY <1>7, RefreshMarks
<1> QED BY <1>2, <1>3, <1>4, <1>6, <1>8

(* What Submit leaves behind, in one record. *)
LEMMA SubmitEffect ==
    ASSUME Inv, GroupSane, NEW b \in BankIds, NEW op \in Operations, NEW n \in 1..MaxBatchSize,
           Submit(b, op, n)
    PROVE  \E work \in Work :
               /\ work.work_seq = eng.next /\ work.bank_id = b /\ work.rows = n
               /\ work.bank_epoch = NextEpoch(b)
               /\ incoming' = Append(incoming, [kind |-> "WORK", work |-> work])
               /\ eng' = Refresh(Submitted(work))
<1> PICK work : work = [work_seq |-> eng.next, operation |-> op, bank_id |-> b,
                        bank_epoch |-> NextEpoch(b), rows |-> n]
  OBVIOUS
<1>1. NextEpoch(b) \in Nat
  <2>1. eng.bank[b].epoch \in Nat /\ eng.epochs[b] \in Nat BY DEF Inv, TypeOK, EngineType
  <2> QED BY <2>1 DEF NextEpoch
<1>2. op \in {"TARGET_PREFILL", "TARGET_VERIFY", "DRAFT_INITIAL", "DRAFT_DECODE"}
  BY OperationsAssumption
<1>3. eng.next \in Seqs BY DEF Inv, TypeOK, EngineType
<1>4. work \in Work BY <1>1, <1>3, OperationsAssumption DEF Work
<1>5. incoming' = Append(incoming, [kind |-> "WORK", work |-> work]) BY DEF Submit
<1>6. eng' = Refresh(Submitted(work)) BY DEF Submit, Submitted
<1> QED BY <1>4, <1>5, <1>6

(* The guards of Submit, in terms of what is reserved. *)
LEMMA SubmitGuards ==
    ASSUME Inv, GroupSane, NEW b \in BankIds, NEW op \in Operations, NEW n \in 1..MaxBatchSize,
           Submit(b, op, n)
    PROVE  /\ eng.stop = "NO" /\ n <= CapacityRows
           /\ \A s \in DOMAIN eng.records :
                  ~eng.records[s].physical_done /\ eng.records[s].work.bank_id # b =>
                      eng.records[s].work.rows + n <= CapacityRows
           /\ \A s, t \in DOMAIN eng.records :
                  (/\ ~eng.records[s].physical_done /\ eng.records[s].work.bank_id = b
                   /\ ~eng.records[t].physical_done /\ eng.records[t].work.bank_id = b) => s = t
           /\ eng.epochs[b] < NextEpoch(b)
<1>1. eng.stop = "NO" /\ Chosen(b) /\ n <= RowsBeside(b) BY DEF Submit
<1>2. n <= CapacityRows /\ \A s \in Reserved(1 - b) : eng.records[s].work.rows + n <= CapacityRows
  BY <1>1, BesideFits
<1>3. \A s \in DOMAIN eng.records : eng.records[s].work.bank_id \in BankIds
  BY DEF GroupSane, LedgerSane, LedgerTyped, Authorised, Work
<1>4. \A s \in DOMAIN eng.records :
          ~eng.records[s].physical_done /\ eng.records[s].work.bank_id # b => s \in Reserved(1 - b)
  BY <1>3 DEF Reserved, BankIds
<1>5. \/ Reserved(b) = {} \/ \E s \in Reserved(b) : Reserved(b) = {s}
  BY <1>1 DEF Chosen, Open
<1>6. \A s, t \in Reserved(b) : s = t BY <1>5
<1>7. \A s \in DOMAIN eng.records :
          ~eng.records[s].physical_done /\ eng.records[s].work.bank_id = b => s \in Reserved(b)
  BY DEF Reserved
<1>8. eng.epochs[b] < NextEpoch(b)
  <2>1. eng.bank[b].epoch \in Nat /\ eng.epochs[b] \in Nat BY DEF Inv, TypeOK, EngineType
  <2> QED BY <2>1 DEF NextEpoch
<1> QED BY <1>1, <1>2, <1>4, <1>6, <1>7, <1>8

(* A WORK is authorised and sent. *)
LEMMA SubmitGroup ==
    ASSUME Inv, GroupSane, NEW b \in BankIds, NEW op \in Operations, NEW n \in 1..MaxBatchSize,
           Submit(b, op, n)
    PROVE  GroupSane'
<1> PICK s, e : s = eng.next /\ e = eng'
  OBVIOUS
<1>0. TypeOK /\ RInv(rt) /\ Sane(rt) /\ LedgerSane BY DEF Inv, GroupSane
<1>1. UNCHANGED <<rt, lane, slot, exec, completions>>
      /\ import' = IF DirectImports THEN [import EXCEPT ![b] = Append(@, eng.next)] ELSE import
  BY DEF Submit
<1>2. PICK work \in Work :
          /\ work.work_seq = s /\ work.bank_id = b /\ work.rows = n
          /\ work.bank_epoch = NextEpoch(b)
          /\ incoming' = Append(incoming, [kind |-> "WORK", work |-> work])
          /\ eng' = Refresh(Submitted(work))
  BY SubmitEffect
<1> PICK m : m = [kind |-> "WORK", work |-> work]
  OBVIOUS
<1>3. m \in Messages /\ m.kind = "WORK" /\ m.work = work BY DEF Messages
<1>4. /\ Len(incoming) \in Nat /\ Len(incoming') = Len(incoming) + 1
      /\ \A i \in 1..Len(incoming) : i \in 1..Len(incoming') /\ i < Len(incoming) + 1 /\ incoming'[i] = incoming[i]
      /\ incoming'[Len(incoming) + 1] = m
      /\ \A i \in 1..Len(incoming') : i \in 1..Len(incoming) \/ i = Len(incoming) + 1
      /\ \A i, j \in 1..Len(incoming') : i < j => i \in 1..Len(incoming)
  BY <1>0, <1>2, <1>3, RingAppend
<1>5. /\ e.next = s + 1 /\ e.stop = eng.stop
      /\ e.epochs[b] = work.bank_epoch
      /\ \A c \in BankIds : c # b => e.epochs[c] = eng.epochs[c]
      /\ DOMAIN e.records = DOMAIN eng.records \cup {s}
      /\ \A t \in DOMAIN e.records :
             /\ e.records[t] \in Authorised
             /\ t = s => e.records[t].work = work /\ ~e.records[t].physical_done
             /\ t # s => /\ e.records[t].work = eng.records[t].work
                         /\ e.records[t].physical_done = eng.records[t].physical_done
  BY <1>0, <1>2, SubmittedFields
<1>6. /\ eng.stop = "NO" /\ n <= CapacityRows
      /\ \A t \in DOMAIN eng.records :
             ~eng.records[t].physical_done /\ eng.records[t].work.bank_id # b =>
                 eng.records[t].work.rows + n <= CapacityRows
      /\ \A t, u \in DOMAIN eng.records :
             (/\ ~eng.records[t].physical_done /\ eng.records[t].work.bank_id = b
              /\ ~eng.records[u].physical_done /\ eng.records[u].work.bank_id = b) => t = u
      /\ eng.epochs[b] < work.bank_epoch
  BY <1>2, SubmitGuards
<1>7. /\ s \in Nat /\ s # None
      /\ \A c \in BankIds : eng.epochs[c] \in Nat /\ rt.banks[c].epoch \in Nat /\ rt.banks[c].epoch <= eng.epochs[c]
      /\ work.bank_epoch \in Nat
  <2>1. s \in Nat /\ s # None /\ \A c \in BankIds : eng.epochs[c] \in Nat
    BY <1>0 DEF TypeOK, EngineType, Seqs
  <2>2. \A c \in BankIds : rt.banks[c].epoch \in Nat BY <1>0, Plain DEF BankType
  <2> QED BY <1>0, <2>1, <2>2 DEF LedgerSane, LedgerKnows, Work
<1>8. \A t \in DOMAIN eng.records :
          /\ eng.records[t] \in Authorised /\ eng.records[t].work.work_seq = t /\ t < s /\ t # s
          /\ eng.records[t].work.rows <= CapacityRows
          /\ eng.records[t].work.bank_id \in BankIds /\ eng.records[t].work.bank_epoch \in Nat
          /\ eng.records[t].work.bank_epoch <= eng.epochs[eng.records[t].work.bank_id]
          /\ (eng.records[t].physical_done => t \in completions)
  <2>1. ~(s < s) BY <1>7
  <2> QED BY <1>0, <2>1 DEF LedgerSane, LedgerTyped, Authorised, Work
<1>9. \A t \in DOMAIN eng.records :
          /\ t \in DOMAIN e.records /\ e.records[t] \in Authorised
          /\ e.records[t].work = eng.records[t].work
          /\ e.records[t].physical_done = eng.records[t].physical_done
  BY <1>5, <1>8
<1>10. s \in DOMAIN e.records /\ e.records[s] \in Authorised /\ e.records[s].work = work /\ ~e.records[s].physical_done
  BY <1>5
<1>11. LedgerTyped'
  <2> SUFFICES ASSUME NEW t \in DOMAIN e.records
               PROVE  /\ e.records[t] \in Authorised
                      /\ e.records[t].work.work_seq = t /\ t < e.next
                      /\ e.records[t].work.rows <= CapacityRows
                      /\ e.records[t].work.bank_epoch <= e.epochs[e.records[t].work.bank_id]
                      /\ e.records[t].physical_done => t \in completions
    BY <1>1 DEF LedgerTyped
  <2>1. CASE t = s BY <1>2, <1>5, <1>6, <1>7, <1>10, <2>1
  <2>2. CASE t # s
    <3>1. t \in DOMAIN eng.records BY <1>5, <2>2
    <3>2. t < s + 1
      <4>1. t < s /\ t \in Nat BY <1>8, <3>1 DEF Authorised, Work, Seqs
      <4> QED BY <1>7, <4>1
    <3>3. eng.records[t].work.bank_epoch <= e.epochs[eng.records[t].work.bank_id]
      BY <1>5, <1>6, <1>7, <1>8, <3>1
    <3> QED BY <1>5, <1>8, <1>9, <3>1, <3>2, <3>3
  <2> QED BY <2>1, <2>2
<1>12. LedgerReserves'
  <2> DEFINE Ordered(t, u) == e.records[t].work.bank_id = e.records[u].work.bank_id /\ t < u =>
                                  e.records[t].work.bank_epoch < e.records[u].work.bank_epoch
             Beside(t, u) == (/\ e.records[t].work.bank_id # e.records[u].work.bank_id
                              /\ ~e.records[t].physical_done /\ ~e.records[u].physical_done) =>
                                 e.records[t].work.rows + e.records[u].work.rows <= CapacityRows
             Held(t) == ~e.records[t].physical_done
             Two(t, u, v) == (/\ e.records[t].work.bank_id = e.records[u].work.bank_id
                              /\ e.records[u].work.bank_id = e.records[v].work.bank_id
                              /\ Held(t) /\ Held(u) /\ Held(v)) => t = u \/ u = v \/ t = v
  <2>1. \A t, u \in DOMAIN eng.records : Ordered(t, u) /\ Beside(t, u)
    BY <1>0, <1>9 DEF LedgerSane, LedgerReserves
  <2>2. \A t \in DOMAIN eng.records : Ordered(t, s)
    <3> SUFFICES ASSUME NEW t \in DOMAIN eng.records, eng.records[t].work.bank_id = b
                 PROVE  eng.records[t].work.bank_epoch < work.bank_epoch
      BY <1>2, <1>9, <1>10
    <3> QED BY <1>6, <1>7, <1>8
  <2>3. \A t \in DOMAIN eng.records : ~(s < t)
    <3>1. \A t \in DOMAIN eng.records : t \in Nat /\ t < s
      BY <1>8 DEF Authorised, Work, Seqs
    <3> QED BY <1>7, <3>1
  <2>4. \A t \in DOMAIN eng.records : Ordered(s, t) BY <2>3
  <2>5. Ordered(s, s) /\ Beside(s, s) BY <1>7
  <2>6. \A t \in DOMAIN eng.records : Beside(t, s) BY <1>2, <1>6, <1>9, <1>10
  <2>7. \A t \in DOMAIN eng.records : Beside(s, t)
    <3> SUFFICES ASSUME NEW t \in DOMAIN eng.records, eng.records[t].work.bank_id # b,
                        ~eng.records[t].physical_done
                 PROVE  n + eng.records[t].work.rows <= CapacityRows
      BY <1>2, <1>9, <1>10
    <3>1. eng.records[t].work.rows + n <= CapacityRows BY <1>6
    <3>2. eng.records[t].work.rows \in Nat BY <1>8, MaxBatchSizeAssumption DEF Authorised, Work
    <3>3. CapacityRows \in Nat /\ n \in Nat BY CapacityRowsAssumption, MaxBatchSizeAssumption
    <3> QED BY <3>1, <3>2, <3>3
  <2>8. \A t, u, v \in DOMAIN eng.records : Two(t, u, v)
    BY <1>0, <1>9 DEF LedgerSane, LedgerReserves
  <2>9. \A t, u \in DOMAIN eng.records : Two(t, u, s) /\ Two(t, s, u) /\ Two(s, t, u)
    BY <1>2, <1>6, <1>9, <1>10
  <2>10. \A t, u \in DOMAIN e.records : Ordered(t, u) /\ Beside(t, u)
    <3> HIDE DEF Ordered, Beside
    <3> QED BY <1>5, <2>1, <2>2, <2>4, <2>5, <2>6, <2>7
  <2>11. \A t, u, v \in DOMAIN e.records : Two(t, u, v)
    <3>1. \A t, u : Two(t, s, s) /\ Two(s, t, s) /\ Two(s, s, t)
      OBVIOUS
    <3> HIDE DEF Two
    <3> QED BY <1>5, <2>8, <2>9, <3>1
  <2> QED BY <2>10, <2>11 DEF LedgerReserves
<1>13. \A i : Queued(i)' <=> Queued(i) \/ i = Len(incoming) + 1
  <2> SUFFICES ASSUME NEW i
               PROVE  i \in 1..Len(incoming') /\ incoming'[i].kind = "WORK" <=> Queued(i) \/ i = Len(incoming) + 1
    BY DEF Queued
  <2>1. Len(incoming) + 1 \in 1..Len(incoming') BY <1>4
  <2>2. \A j \in 1..Len(incoming) : incoming[j].kind = "WORK"
    BY <1>6 DEF GroupSane, RingSane, RingStops
  <2> QED BY <1>3, <1>4, <2>1, <2>2 DEF Queued
<1>14. \A i : Queued(i) => i \in 1..Len(incoming) /\ incoming'[i] = incoming[i] BY <1>4 DEF Queued
<1>15. \A i : Queued(i) => /\ QueuedSeq(i) \in DOMAIN eng.records /\ QueuedSeq(i) < s
                           /\ eng.records[QueuedSeq(i)].work = incoming[i].work
  BY <1>0, <1>8 DEF LedgerSane, LedgerKnows, Queued
<1>16. LedgerKnows'
  <2>1. \A t \in DOMAIN rt.records : t \in DOMAIN e.records /\ e.records[t].work = rt.records[t].spec
    BY <1>0, <1>9 DEF LedgerSane, LedgerKnows
  <2>2. \A i \in 1..Len(incoming') : Queued(i)' =>
            /\ incoming'[i].work.work_seq \in DOMAIN e.records
            /\ e.records[incoming'[i].work.work_seq].work = incoming'[i].work
    BY <1>2, <1>3, <1>4, <1>9, <1>10, <1>13, <1>14, <1>15 DEF QueuedSeq
  <2>3. \A t \in completions : t < e.next /\ t \notin DOMAIN rt.records
    <3>1. \A t \in completions : t < s /\ t \notin DOMAIN rt.records
      BY <1>0 DEF LedgerSane, LedgerKnows
    <3>2. \A t \in completions : t \in Nat BY <1>0 DEF TypeOK, Seqs
    <3> QED BY <1>5, <1>7, <3>1, <3>2
  <2>4. \A c \in BankIds : rt.banks[c].epoch <= e.epochs[c] BY <1>5, <1>6, <1>7
  <2> QED BY <1>1, <2>1, <2>2, <2>3, <2>4 DEF LedgerKnows, QueuedSeq
<1>17. LedgerSane' BY <1>11, <1>12, <1>16 DEF LedgerSane
<1>18. RingSane'
  <2>1. \A i \in 1..Len(incoming) : incoming[i].kind = "WORK"
    BY <1>6 DEF GroupSane, RingSane, RingStops
  <2>2. \A i \in 1..Len(incoming') : incoming'[i].kind = "WORK" BY <1>3, <1>4, <2>1
  <2>3. RingOrdered'
    <3> SUFFICES ASSUME NEW i \in 1..Len(incoming'), NEW j \in 1..Len(incoming'), i < j
                 PROVE  incoming'[i].work.work_seq < incoming'[j].work.work_seq
      BY <2>2 DEF RingOrdered, QueuedSeq
    <3>1. i \in 1..Len(incoming) /\ Queued(i) /\ incoming'[i] = incoming[i] BY <1>4, <2>1 DEF Queued
    <3>2. CASE j \in 1..Len(incoming)
      <4>1. Queued(j) /\ incoming'[j] = incoming[j] BY <1>4, <2>1, <3>2 DEF Queued
      <4> QED BY <3>1, <3>2, <4>1 DEF GroupSane, RingSane, RingOrdered, QueuedSeq
    <3>3. CASE j = Len(incoming) + 1
      <4>1. incoming'[j].work.work_seq = s BY <1>2, <1>3, <1>4, <3>3
      <4> QED BY <1>15, <3>1, <4>1 DEF QueuedSeq
    <3> QED BY <1>4, <3>2, <3>3
  <2>4. RingAhead'
    <3> SUFFICES ASSUME NEW i \in 1..Len(incoming')
                 PROVE  /\ \A t \in DOMAIN rt.records \cup completions : t < incoming'[i].work.work_seq
                        /\ rt.banks[incoming'[i].work.bank_id].epoch < incoming'[i].work.bank_epoch
      BY <1>1 DEF RingAhead, QueuedSeq
    <3>1. CASE i \in 1..Len(incoming)
      <4>1. Queued(i) /\ incoming'[i] = incoming[i] BY <1>4, <2>1, <3>1 DEF Queued
      <4> QED BY <3>1, <4>1 DEF GroupSane, RingSane, RingAhead, QueuedSeq
    <3>2. CASE i = Len(incoming) + 1
      <4>1. incoming'[i].work = work BY <1>3, <1>4, <3>2
      <4>2. \A t \in DOMAIN rt.records : t < s BY <1>0, <1>8 DEF LedgerSane, LedgerKnows
      <4>3. \A t \in completions : t < s BY <1>0 DEF LedgerSane, LedgerKnows
      <4>4. rt.banks[b].epoch < work.bank_epoch BY <1>6, <1>7
      <4> QED BY <1>2, <4>1, <4>2, <4>3, <4>4
    <3> QED BY <1>4, <3>1, <3>2
  <2>5. RingStops'
    <3>1. ~rt.draining BY <1>6 DEF GroupSane, RingSane, RingStops
    <3> QED BY <1>1, <2>2, <3>1 DEF RingStops
  <2> QED BY <2>3, <2>4, <2>5 DEF RingSane
<1>19. \A c \in BankIds : \A t : Outstanding(c, t) => t < s
  <2>1. \A t \in DOMAIN rt.records : t < s BY <1>0, <1>8 DEF LedgerSane, LedgerKnows
  <2> QED BY <1>15, <2>1 DEF Outstanding
<1>20. \A c \in BankIds : \A t : Outstanding(c, t) => Outstanding(c, t)'
  <2> SUFFICES ASSUME NEW c \in BankIds, NEW t, Outstanding(c, t) PROVE Outstanding(c, t)'
    OBVIOUS
  <2>1. CASE t \in DOMAIN rt.records /\ rt.records[t].spec.bank_id = c BY <1>1, <2>1 DEF Outstanding
  <2>2. CASE \E i \in 1..Len(incoming) : Queued(i) /\ QueuedSeq(i) = t /\ incoming[i].work.bank_id = c
    BY <1>4, <1>13, <1>14, <2>2 DEF Outstanding, QueuedSeq
  <2> QED BY <2>1, <2>2 DEF Outstanding
<1>21. Outstanding(b, s)'
  <2> PICK last : last = Len(incoming) + 1
    OBVIOUS
  <2>1. last \in 1..Len(incoming') /\ incoming'[last] = m BY <1>4
  <2>2. Queued(last)' BY <1>3, <2>1 DEF Queued
  <2> QED BY <1>2, <1>3, <2>1, <2>2 DEF Outstanding, QueuedSeq
<1> PICK pipe : pipe = import'[b]
  OBVIOUS
<1>22. /\ \A c \in BankIds : c # b => import'[c] = import[c]
       /\ ~DirectImports => pipe = import[b]
       /\ DirectImports =>
              /\ Len(import[b]) \in Nat /\ Len(pipe) = Len(import[b]) + 1
              /\ \A i \in 1..Len(import[b]) : i \in 1..Len(pipe) /\ i < Len(import[b]) + 1 /\ pipe[i] = import[b][i]
              /\ pipe[Len(import[b]) + 1] = s /\ Len(import[b]) + 1 \in 1..Len(pipe)
              /\ \A i \in 1..Len(pipe) : i \in 1..Len(import[b]) \/ i = Len(import[b]) + 1
              /\ \A i, j \in 1..Len(pipe) : i < j => i \in 1..Len(import[b])
  <2>1. import[b] \in Seq(Seqs) /\ s \in Seqs /\ DOMAIN import = BankIds
    BY <1>0, <1>7 DEF TypeOK, Seqs
  <2>2. CASE ~DirectImports BY <1>1, <2>2
  <2>3. CASE DirectImports
    <3>1. import' = [import EXCEPT ![b] = Append(import[b], s)] BY <1>1, <2>3
    <3>2. pipe = Append(import[b], s) /\ \A c \in BankIds : c # b => import'[c] = import[c]
      BY <2>1, <3>1
    <3>3. /\ Len(import[b]) \in Nat /\ Len(pipe) = Len(import[b]) + 1
          /\ \A i \in 1..Len(import[b]) : pipe[i] = import[b][i]
          /\ pipe[Len(import[b]) + 1] = s
      BY <2>1, <3>2, AppendElements
    <3> QED BY <2>3, <3>2, <3>3
  <2> QED BY <2>2, <2>3
<1>23. /\ \A c \in BankIds : \A t : InPipe(c, t) => InPipe(c, t)'
       /\ \A c \in BankIds : \A t : t # s => (InPipe(c, t)' => InPipe(c, t))
       /\ DirectImports => InPipe(b, s)'
  <2>1. \A c \in BankIds : \A t : c # b => (InPipe(c, t)' <=> InPipe(c, t)) BY <1>22 DEF InPipe
  <2>2. CASE ~DirectImports
    <3>1. \A t : InPipe(b, t)' <=> InPipe(b, t) BY <1>22, <2>2 DEF InPipe
    <3> QED BY <2>1, <2>2, <3>1
  <2>3. CASE DirectImports
    <3>1. \A t : InPipe(b, t) => InPipe(b, t)' BY <1>22, <2>3 DEF InPipe
    <3>2. \A t : t # s => (InPipe(b, t)' => InPipe(b, t)) BY <1>22, <2>3 DEF InPipe
    <3>3. InPipe(b, s)' BY <1>22, <2>3 DEF InPipe
    <3> QED BY <2>1, <2>3, <3>1, <3>2, <3>3
  <2> QED BY <2>2, <2>3
<1>24. ASSUME NEW c \in BankIds PROVE LaneSane(c)'
  <2>1. LaneSane(c) BY DEF GroupSane, LanesSane
  <2>2. lane[c] < e.next /\ slot[c] < e.next /\ lane[c] # s /\ slot[c] # s
    <3>1. lane[c] < s /\ slot[c] < s BY <2>1 DEF LaneSane
    <3>2. lane[c] \in Nat /\ slot[c] \in Nat BY <1>0 DEF TypeOK
    <3> QED BY <1>5, <1>7, <3>1, <3>2
  <2>3. CASE c # b \/ ~DirectImports
    <3>1. import'[c] = import[c] BY <1>22, <2>3
    <3> QED BY <1>1, <1>20, <2>1, <2>2, <3>1 DEF LaneSane
  <2>4. CASE c = b /\ DirectImports
    <3>1. \A i \in 1..Len(pipe) : Outstanding(b, pipe[i])' BY <1>20, <1>21, <1>22, <2>1, <2>4 DEF LaneSane
    <3>2. \A i \in 1..Len(import[b]) : import[b][i] < s BY <1>19, <2>1, <2>4 DEF LaneSane
    <3>3. \A i, j \in 1..Len(pipe) : i < j => pipe[i] < pipe[j]
      <4> SUFFICES ASSUME NEW i \in 1..Len(pipe), NEW j \in 1..Len(pipe), i < j PROVE pipe[i] < pipe[j]
        OBVIOUS
      <4>1. i \in 1..Len(import[b]) /\ pipe[i] = import[b][i] BY <1>22, <2>4
      <4>2. CASE j \in 1..Len(import[b]) BY <1>22, <2>1, <2>4, <4>1, <4>2 DEF LaneSane
      <4>3. CASE j = Len(import[b]) + 1 BY <1>22, <2>4, <3>2, <4>1, <4>3
      <4> QED BY <1>22, <2>4, <4>2, <4>3
    <3>4. \A i \in 1..Len(pipe) : pipe[i] # lane[b] /\ pipe[i] # slot[b]
      BY <1>22, <2>1, <2>2, <2>4 DEF LaneSane
    <3> QED BY <1>1, <1>20, <2>1, <2>2, <2>4, <3>1, <3>3, <3>4 DEF LaneSane
  <2> QED BY <2>3, <2>4
<1>25. ASSUME NEW c \in BankIds PROVE LaneServes(c)'
  <2> SUFFICES ASSUME DirectImports PROVE LaneServes(c)'
    BY DEF LaneServes
  <2>1. LaneServes(c) BY DEF GroupSane, LanesSane
  <2>2. ASSUME NEW t \in DOMAIN rt.records, rt.records[t].spec.bank_id = c
        PROVE  LaneStage(c, t, rt.records[t])'
    <3>1. LaneStage(c, t, rt.records[t]) BY <2>1, <2>2 DEF LaneServes
    <3>2. t # s BY <1>0, <1>8 DEF LedgerSane, LedgerKnows
    <3>3. InPipe(c, t)' <=> InPipe(c, t) BY <1>23, <3>2
    <3> QED BY <1>1, <3>1, <3>3 DEF LaneStage, Left
  <2>3. ASSUME NEW i \in 1..Len(incoming'), incoming'[i].work.bank_id = c, NEW t, t = incoming'[i].work.work_seq,
               Queued(i)'
        PROVE  InPipe(c, t)' \/ (lane[c] = t /\ slot[c] = t)
    <3>1. CASE i \in 1..Len(incoming) /\ Queued(i)
      <4>1. incoming'[i] = incoming[i] BY <1>14, <3>1
      <4>2. InPipe(c, t) \/ (lane[c] = t /\ slot[c] = t)
        BY <2>1, <2>3, <3>1, <4>1 DEF LaneServes, QueuedSeq
      <4> QED BY <1>23, <4>2
    <3>2. CASE i = Len(incoming) + 1
      <4>1. c = b /\ t = s BY <1>2, <1>3, <1>4, <2>3, <3>2
      <4> QED BY <1>23, <4>1
    <3> QED BY <1>4, <1>13, <2>3, <3>1, <3>2
  <2> QED BY <1>1, <2>2, <2>3 DEF LaneServes, QueuedSeq
<1>26. ExecSane' BY <1>1 DEF GroupSane, ExecSane
<1> QED BY <1>0, <1>1, <1>17, <1>18, <1>24, <1>25, <1>26 DEF GroupSane, LanesSane

(* Every step of the Engine. *)
LEMMA EngineGroup == ASSUME Inv, GroupSane, Engine PROVE GroupSane'
  BY ReadsGroup, EngineStopGroup, RecycleGroup, SubmitGroup DEF Engine
-----------------------------------------------------------------------------
(* A stuttering step, and the loop of a group that has ended. *)
LEMMA StutterGroup == ASSUME GroupSane, UNCHANGED vars PROVE GroupSane'
<1>1. /\ rt' = rt /\ incoming' = incoming /\ import' = import /\ lane' = lane /\ slot' = slot
      /\ exec' = exec /\ completions' = completions /\ eng' = eng
  BY DEF vars
<1>2. RingSane' /\ LedgerSane'
  BY <1>1 DEF GroupSane, RingSane, RingOrdered, RingAhead, RingStops, Queued, QueuedSeq,
              LedgerSane, LedgerTyped, LedgerKnows, LedgerReserves
<1>3. LanesSane' /\ ExecSane' /\ Sane(rt')
  BY <1>1 DEF GroupSane, LanesSane, LaneSane, LaneServes, LaneStage, Outstanding, InPipe, Left,
              Queued, QueuedSeq, ExecSane
<1> QED BY <1>2, <1>3 DEF GroupSane

(* Every step keeps GroupSane. *)
LEMMA GroupNext == ASSUME Inv, GroupSane, [Next]_vars PROVE Inv' /\ GroupSane'
<1>1. Inv' BY NextInv
<1> QED BY <1>1, ControlGroup, ExecGroup, DmaGroup, EngineGroup, StutterGroup DEF Next, Terminated

(* The inductive invariant of the worker group: the ledger, the ring, the
   lanes, the execution process and the Runtime agree at every moment. *)
THEOREM GroupInvariant == Spec => [](Inv /\ GroupSane)
  BY InitInv, GroupInit, GroupNext, PTL DEF Spec

(* No exception of Runtime, Banks, ProcessDMA, direct_import.serve or the
   control loop is reachable. *)
THEOREM NeverFails == Spec => []NoFailure
<1>1. GroupSane => NoFailure BY DEF GroupSane, Sane, NoFailure
<1> QED BY <1>1, GroupInvariant, PTL

(* The rows the ledger keeps beside the widest WORK of the other Bank are the
   rows Banks.allocate then finds free. *)
LEMMA RowsFound == ASSUME Inv, GroupSane PROVE RowsAvailable
<1>0. TypeOK /\ RInv(rt) /\ Sane(rt) BY DEF Inv, GroupSane
<1> SUFFICES ASSUME NEW b \in BankIds, NEW s, s = rt.banks[b].current, s # None,
                    rt.records[s].layout = {}
             PROVE  Fits(rt, rt.records[s].spec)
  BY DEF RowsAvailable
<1> PICK c \in BankIds : c # b /\ \A d \in BankIds : d = b \/ d = c
  BY DEF BankIds
<1>1. /\ s \in DOMAIN rt.records /\ rt.records[s].spec.bank_id = b /\ ~rt.records[s].physical_done
      /\ rt.records[s].spec \in Work /\ CurrentSane(rt.records[s], rt.banks[b], rt.exchange[b])
  BY <1>0, CurrentSound
<1>2. rt.banks[b].layout = {} BY <1>1 DEF CurrentSane
<1>3. rt.records[s].spec.rows \in Nat /\ CapacityRows \in Nat
  BY <1>1, CapacityRowsAssumption, MaxBatchSizeAssumption DEF Work
<1>4. PhysicalRows = rt.free_rows \cup rt.banks[c].layout
  BY <1>0, <1>2 DEF RInv, Partition, BankIds
<1>5. /\ IsFiniteSet(PhysicalRows) /\ Cardinality(PhysicalRows) = CapacityRows
      /\ IsFiniteSet(rt.free_rows) /\ IsFiniteSet(rt.banks[c].layout)
      /\ Cardinality(rt.free_rows) \in Nat /\ Cardinality(rt.banks[c].layout) \in Nat
  BY <1>4, RowsFinite, FS_Subset, FS_CardinalityType
<1>6. rt.free_rows \cap rt.banks[c].layout = {} BY <1>0, Plain
<1>7. CapacityRows = Cardinality(rt.free_rows) + Cardinality(rt.banks[c].layout)
  <2>1. Cardinality(rt.free_rows \cap rt.banks[c].layout) = 0 BY <1>6, FS_EmptySet
  <2>2. Cardinality(rt.free_rows \cup rt.banks[c].layout)
            = Cardinality(rt.free_rows) + Cardinality(rt.banks[c].layout)
              - Cardinality(rt.free_rows \cap rt.banks[c].layout)
    BY <1>5, FS_Union
  <2> QED BY <1>4, <1>5, <2>1, <2>2
<1>8. rt.records[s].spec.rows + Cardinality(rt.banks[c].layout) <= CapacityRows
  <2>1. CASE rt.banks[c].current = None
    <3>1. rt.banks[c].layout = {} BY <1>0, <2>1 DEF Sane, BankSane
    <3>2. Cardinality(rt.banks[c].layout) = 0 BY <3>1, FS_EmptySet
    <3> QED BY <1>0, <1>1, <1>3, <3>2 DEF Sane, WidthsFit
  <2>2. CASE rt.banks[c].current # None
    <3> PICK t : t = rt.banks[c].current
      OBVIOUS
    <3>1. /\ t \in DOMAIN rt.records /\ rt.records[t].spec.bank_id = c /\ ~rt.records[t].physical_done
          /\ rt.records[t].spec \in Work /\ CurrentSane(rt.records[t], rt.banks[c], rt.exchange[c])
      BY <1>0, <2>2, CurrentSound
    <3>2. Cardinality(rt.banks[c].layout) <= rt.records[t].spec.rows BY <3>1, Zenon DEF CurrentSane
    <3>3. rt.records[s].spec.rows + rt.records[t].spec.rows <= CapacityRows
      BY <1>0, <1>1, <3>1 DEF Sane, WidthsFit
    <3>4. rt.records[t].spec.rows \in Nat BY <3>1, MaxBatchSizeAssumption DEF Work
    <3> QED BY <1>3, <1>5, <3>2, <3>3, <3>4
  <2> QED BY <2>1, <2>2
<1>9. rt.records[s].spec.rows <= Cardinality(rt.free_rows) BY <1>3, <1>5, <1>7, <1>8
<1> QED BY <1>9 DEF Fits

(* Whenever a current WORK still needs its rows, Banks.allocate has them. *)
THEOREM RowsAlwaysAvailable == Spec => []RowsAvailable
  BY RowsFound, GroupInvariant, PTL

(* While the model runs a WORK, the lane of its Bank holds that WORK and no
   copy is outstanding. *)
LEMMA ComputeAlone == ASSUME Inv, GroupSane PROVE ComputeOwnsBank
<1>0. TypeOK /\ RInv(rt) /\ Sane(rt) BY DEF Inv, GroupSane
<1> SUFFICES ASSUME ModelRunning, NEW s, s = rt.compute, NEW b, b = rt.records[s].spec.bank_id
             PROVE  /\ rt.exchange[b] = "NONE"
                    /\ lane[b] = IF DirectImports THEN s ELSE None
  BY DEF ComputeOwnsBank
<1>1. rt.command = "COMPUTE" /\ s \in DOMAIN rt.records /\ rt.records[s].jobs["COMPUTE"] = "RUNNING"
  BY <1>0, Plain DEF ModelRunning
<1>2. b \in BankIds /\ s # None /\ rt.banks[b].current = s
  <2>1. ~NoJobs(rt.records[s]) BY <1>1 DEF NoJobs, JobKinds
  <2> QED BY <1>0, <1>1, <2>1, StateFacts DEF Seqs
<1>3. /\ ~rt.records[s].physical_done /\ CurrentSane(rt.records[s], rt.banks[b], rt.exchange[b])
      /\ rt.banks[b].phase = "COMPUTING"
  BY <1>0, <1>2, CurrentSound
<1>4. rt.records[s].imported /\ rt.records[s].jobs["D2H"] = "NONE" /\ rt.records[s].jobs["H2D"] = "NONE"
  BY <1>3, Zenon DEF CurrentSane, Staged, Idle, JobKinds
<1>5. rt.exchange[b] = "NONE"
  <2>1. rt.exchange[b] \in {"NONE", "IMPORT", "EXPORT", "RELEASE"} BY <1>0, <1>2, Plain DEF Flags
  <2> QED BY <1>3, <1>4, <2>1, Zenon DEF CurrentSane, Exchanging
<1>6. CASE DirectImports
  <2>1. LaneStage(b, s, rt.records[s]) BY <1>1, <1>2, <1>6 DEF GroupSane, LanesSane, LaneServes
  <2>2. ~Left(rt.records[s]) BY <1>3, <1>4, Zenon DEF Left
  <2> QED BY <1>4, <1>5, <1>6, <2>1, <2>2 DEF LaneStage
<1>7. CASE ~DirectImports BY <1>2, <1>5, <1>7 DEF GroupSane, LanesSane, LaneSane
<1> QED BY <1>6, <1>7

(* direct_import.serve: what the head of a pipe waits for has left the Bank. *)
LEMMA HeadIsLeast ==
    ASSUME TypeOK, NEW b \in BankIds, LaneSane(b), import[b] # <<>>, NEW s \in Nat, s < Head(import[b])
    PROVE  ~InPipe(b, s)
<1> PICK pipe : pipe = import[b]
  OBVIOUS
<1>1. pipe \in Seq(Seqs) BY DEF TypeOK
<1>2. Len(pipe) \in Nat /\ Len(pipe) >= 1 /\ Head(pipe) = pipe[1] BY <1>1, TailElements
<1>3. \A i, j \in 1..Len(pipe) : i < j => pipe[i] < pipe[j] BY DEF LaneSane
<1>4. \A i \in 1..Len(pipe) : pipe[i] \in Nat BY <1>1 DEF Seqs
<1>5. 1 \in 1..Len(pipe) BY <1>2
<1>6. \A i \in 1..Len(pipe) : i = 1 \/ pipe[1] < pipe[i] BY <1>2, <1>3, <1>5
<1>7. \A i \in 1..Len(pipe) : pipe[i] # s BY <1>2, <1>4, <1>5, <1>6
<1> QED BY <1>7 DEF InPipe

(* Import after export, and no lost import receipt. *)
LEMMA ImportsOrdered == ASSUME Inv, GroupSane PROVE ImportAfterExport /\ ReceiptNotLost
<1>0. TypeOK /\ RInv(rt) /\ Sane(rt) BY DEF Inv, GroupSane
<1>1. ASSUME NEW b \in BankIds, Importing(b), NEW s \in DOMAIN rt.records,
             rt.records[s].spec.bank_id = b, s < Head(import[b])
      PROVE  rt.records[s].physical_done \/ rt.records[s].jobs["D2H"] = "DONE"
  <2>1. DirectImports /\ lane[b] = None /\ import[b] # <<>> BY <1>1 DEF Importing
  <2>2. s \in Nat /\ s # None BY <1>0, <1>1, StateFacts DEF Seqs
  <2>3. LaneSane(b) /\ LaneStage(b, s, rt.records[s])
    BY <1>1, <2>1 DEF GroupSane, LanesSane, LaneServes
  <2>4. ~InPipe(b, s) BY <1>0, <1>1, <2>1, <2>2, <2>3, HeadIsLeast
  <2>5. lane[b] # s BY <2>1, <2>2
  <2> QED BY <2>3, <2>4, <2>5 DEF LaneStage, Left
<1>2. ASSUME DirectImports, NEW s \in DOMAIN rt.records, NEW b, b = rt.records[s].spec.bank_id
      PROVE  rt.records[s].imported \/ InPipe(b, s) \/ slot[b] = s
  <2>1. b \in BankIds BY <1>0, <1>2, StateFacts
  <2>2. LaneStage(b, s, rt.records[s]) BY <1>2, <2>1 DEF GroupSane, LanesSane, LaneServes
  <2> QED BY <2>2 DEF LaneStage
<1>3. ImportAfterExport BY <1>1 DEF ImportAfterExport
<1>4. ReceiptNotLost BY <1>2 DEF ReceiptNotLost, InPipe
<1> QED BY <1>3, <1>4

(* The memory of a Bank has one user at a time. *)
THEOREM BanksNeverShared == Spec => []BankExclusive
<1>1. Inv /\ GroupSane => BankExclusive BY ComputeAlone, ImportsOrdered DEF BankExclusive
<1> QED BY <1>1, GroupInvariant, PTL

(* What is outstanding has no completion. *)
LEMMA OutstandingOpen ==
    ASSUME Inv, GroupSane, NEW b \in BankIds, NEW s, Outstanding(b, s)
    PROVE  s \notin completions
<1>1. \A i \in 1..Len(incoming) : Queued(i) => QueuedSeq(i) \notin completions
  <2> SUFFICES ASSUME NEW i \in 1..Len(incoming), Queued(i), QueuedSeq(i) \in completions PROVE FALSE
    OBVIOUS
  <2>1. QueuedSeq(i) < QueuedSeq(i) /\ QueuedSeq(i) \in Nat
    BY QueuedWork DEF Inv, GroupSane, RingSane, RingAhead
  <2> QED BY <2>1
<1>2. \A t \in DOMAIN rt.records : t \notin completions BY DEF GroupSane, LedgerSane, LedgerKnows
<1> QED BY <1>1, <1>2 DEF Outstanding

(* A published completion is final. *)
LEMMA NothingAfterCompletion == ASSUME Inv, GroupSane PROVE CompletionFinal
<1>0. TypeOK /\ RInv(rt) /\ Sane(rt) BY DEF Inv, GroupSane
<1> SUFFICES ASSUME NEW s \in completions
             PROVE  /\ s \notin DOMAIN rt.records
                    /\ \A b \in BankIds : /\ s \notin {rt.banks[b].current, rt.banks[b].pending, lane[b]}
                                          /\ \A i \in 1..Len(import[b]) : import[b][i] # s
                    /\ rt.compute # s
  BY DEF CompletionFinal
<1>1. s # None /\ s \notin DOMAIN rt.records
  BY <1>0 DEF TypeOK, Seqs, GroupSane, LedgerSane, LedgerKnows
<1>2. \A b \in BankIds : /\ rt.banks[b].current = None \/ rt.banks[b].current \in DOMAIN rt.records
                         /\ rt.banks[b].pending = None \/ rt.banks[b].pending \in DOMAIN rt.records
  BY <1>0 DEF TypeOK, RuntimeType
<1>3. \A b \in BankIds : /\ lane[b] = None \/ lane[b] # s
                         /\ \A i \in 1..Len(import[b]) : import[b][i] # s
  BY OutstandingOpen DEF GroupSane, LanesSane, LaneSane
<1>4. rt.compute = None \/ rt.compute \in DOMAIN rt.records
  BY <1>0, Plain DEF Sane, CommandSane
<1> QED BY <1>1, <1>2, <1>3, <1>4

(* After PublishCompletion no queue, Bank, lane, model job or record of the
   group refers to the WORK any more. *)
THEOREM CompletionsFinal == Spec => []CompletionFinal
  BY NothingAfterCompletion, GroupInvariant, PTL

(* What the execution process leaves behind when it stops. *)
LEMMA NothingStranded == ASSUME Inv, GroupSane PROVE CleanStop
<1>0. TypeOK /\ RInv(rt) /\ Sane(rt) BY DEF Inv, GroupSane
<1> SUFFICES ASSUME exec.stage \in {"STOPPED", "JOINED"}
             PROVE  /\ rt.free_rows = PhysicalRows
                    /\ \A b \in BankIds : lane[b] = None /\ import[b] = <<>>
                    /\ \A i \in 1..Len(incoming) : incoming[i].kind # "WORK"
  BY DEF CleanStop
<1>1. rt.draining /\ DOMAIN rt.records = {}
  BY <1>0 DEF GroupSane, ExecSane, Sane, CommandSane
<1>2. \A i \in 1..Len(incoming) : incoming[i].kind # "WORK"
  BY <1>1 DEF GroupSane, RingSane, RingStops
<1>3. \A b \in BankIds : \A s : ~Outstanding(b, s) BY <1>1, <1>2 DEF Outstanding, Queued
<1>4. \A b \in BankIds : lane[b] = None /\ \A i \in 1..Len(import[b]) : FALSE
  BY <1>3 DEF GroupSane, LanesSane, LaneSane
<1>5. \A b \in BankIds : import[b] = <<>>
  <2> SUFFICES ASSUME NEW b \in BankIds, import[b] # <<>> PROVE FALSE
    OBVIOUS
  <2>1. import[b] \in Seq(Seqs) BY <1>0 DEF TypeOK
  <2>2. Len(import[b]) \in Nat /\ Len(import[b]) >= 1 BY <2>1, TailElements
  <2>3. 1 \in 1..Len(import[b]) BY <2>2
  <2> QED BY <1>4, <2>3
<1>6. \A b \in BankIds : rt.banks[b].current = None
  BY <1>0, <1>1 DEF TypeOK, RuntimeType
<1>7. \A b \in BankIds : rt.banks[b].layout = {} BY <1>0, <1>6 DEF Sane, BankSane
<1>8. rt.free_rows = PhysicalRows BY <1>0, <1>7 DEF RInv, Partition, BankIds
<1> QED BY <1>2, <1>4, <1>5, <1>8

(* ControlRuntime closes execution only when nothing is left: rows, lanes,
   pipes and ring are empty when it stops. *)
THEOREM StopsAreClean == Spec => []CleanStop
  BY NothingStranded, GroupInvariant, PTL
-----------------------------------------------------------------------------
(***************************************************************************)
(* WorkLedger.refresh infers from rows it reads late that a computation has *)
(* ended.  Within the first generation of a group the inference is sound:   *)
(* the rows are those of this group, so a Bank that is past the epoch of a  *)
(* WORK, or has drained it, has computed it.  (After a recycle the cached   *)
(* rows of the old group are read against the new ledger, and it is not.)   *)
(***************************************************************************)
(* The WORK has been computed, or skipped, and control knows. *)
Over(s) ==
    \/ s \in completions
    \/ s \in DOMAIN rt.records /\ (rt.records[s].physical_done \/ rt.records[s].result)

(* Where an authorised WORK is. *)
Accounted(s, work) ==
    /\ work.work_seq = s
    /\ \/ s \in completions
       \/ s \in DOMAIN rt.records /\ rt.records[s].spec = work
       \/ \E i \in 1..Len(incoming) : Queued(i) /\ incoming[i].work = work

(* The compute clock names the WORK that has just been computed. *)
ClockOver ==
    /\ exec.stage = "COMPUTED" => exec.clock = rt.compute
    /\ exec.stage # "COMPUTED" /\ exec.clock # None => Over(exec.clock)

(* The cached rows are behind the real ones. *)
RowsOver(e) ==
    /\ e.clock # None => ComputeOver(e.clock)
    /\ \A b \in BankIds : e.bank[b].epoch <= rt.banks[b].epoch

(* The cached row of its Bank says the WORK has been drained from it. *)
Drained(e, work) ==
    /\ e.bank[work.bank_id].epoch = work.bank_epoch
    /\ e.bank[work.bank_id].phase \in {"FREE", "EXPORTING"}

(* What the ledger believes of each WORK is true. *)
LedgerOver(e) ==
    /\ RowsOver(e)
    /\ \A s \in DOMAIN e.records :
           e.records[s].compute_done \/ Drained(e, e.records[s].work) => ComputeOver(s)

(* The invariant of the first generation. *)
ClockSane ==
    /\ ClockOver
    /\ \A s \in DOMAIN eng.records : Accounted(s, eng.records[s].work)
    /\ LedgerOver(eng)

(* A Bank past the epoch of a WORK, or at it and draining or free, has done
   with the WORK. *)
LEMMA PassedOver ==
    ASSUME Inv, GroupSane, NEW s, NEW work \in Work, Accounted(s, work),
           NEW b, b = work.bank_id,
           \/ rt.banks[b].epoch > work.bank_epoch
           \/ rt.banks[b].epoch = work.bank_epoch /\ rt.banks[b].phase \in {"FREE", "EXPORTING"}
    PROVE  Over(s)
<1>0. TypeOK /\ RInv(rt) /\ Sane(rt) BY DEF Inv, GroupSane
<1>1. b \in BankIds /\ work.bank_epoch \in Nat /\ rt.banks[b].epoch \in Nat
  BY <1>0, Plain DEF Work, BankType
<1>2. \A i \in 1..Len(incoming) : Queued(i) => incoming[i].work # work
  <2> SUFFICES ASSUME NEW i \in 1..Len(incoming), Queued(i), incoming[i].work = work PROVE FALSE
    OBVIOUS
  <2>1. rt.banks[b].epoch < work.bank_epoch BY DEF GroupSane, RingSane, RingAhead
  <2> QED BY <1>1, <2>1
<1>3. ASSUME s \in DOMAIN rt.records, rt.records[s].spec = work, ~rt.records[s].physical_done
      PROVE  rt.records[s].result
  <2>1. s \in {rt.banks[b].current, rt.banks[b].pending} BY <1>0, <1>3 DEF Sane, RecordsSane
  <2>2. s # None BY <1>0, <1>3, StateFacts DEF Seqs, None
  <2>3. CASE s = rt.banks[b].current
    <3>1. CurrentSane(rt.records[s], rt.banks[b], rt.exchange[b])
      BY <1>0, <1>1, <2>2, <2>3, CurrentSound
    <3>2. IF rt.banks[b].layout = {} THEN rt.banks[b].epoch < work.bank_epoch
          ELSE rt.banks[b].epoch = work.bank_epoch
      BY <1>3, <3>1 DEF CurrentSane
    <3>3. rt.banks[b].layout # {} /\ rt.banks[b].epoch = work.bank_epoch BY <1>1, <3>2
    <3>4. rt.banks[b].phase # "FREE" BY <3>1, <3>3 DEF CurrentSane
    <3>5. rt.banks[b].phase = "EXPORTING" BY <1>1, <3>3, <3>4
    <3> QED BY <3>1, <3>5 DEF CurrentSane, Staged
  <2>4. CASE s = rt.banks[b].pending
    <3> PICK c : c = rt.banks[b].current
      OBVIOUS
    <3>1. c # None BY <1>0, <1>1, <2>2, <2>4 DEF RInv, Owned
    <3>2. rt.records[c].spec.bank_epoch < work.bank_epoch
      BY <1>0, <1>1, <1>3, <2>2, <2>4 DEF Sane, BankSane
    <3>3. /\ CurrentSane(rt.records[c], rt.banks[b], rt.exchange[b])
          /\ rt.records[c].spec \in Work
      BY <1>0, <1>1, <3>1, CurrentSound
    <3> PICK n : n = rt.records[c].spec.bank_epoch
      OBVIOUS
    <3>5. n \in Nat BY <3>3, Zenon DEF Work
    <3>6. rt.banks[b].epoch < n \/ rt.banks[b].epoch = n BY <3>3, Zenon DEF CurrentSane
    <3>4. rt.banks[b].epoch <= rt.records[c].spec.bank_epoch /\ rt.records[c].spec.bank_epoch \in Nat
      BY <1>1, <3>5, <3>6
    <3> QED BY <1>1, <3>2, <3>4
  <2> QED BY <2>1, <2>3, <2>4
<1> QED BY <1>2, <1>3 DEF Accounted, Over

(* What refresh infers of a WORK is true. *)
LEMMA EndedOver ==
    ASSUME Inv, GroupSane, NEW e, RowsOver(e), NEW s, NEW r \in Authorised,
           Accounted(s, r.work), Drained(e, r.work) => ComputeOver(s), Ended(e, r),
           \A b \in BankIds : e.bank[b].epoch \in Nat
    PROVE  ComputeOver(s)
<1> DEFINE b == r.work.bank_id
<1>0. TypeOK /\ RInv(rt) BY DEF Inv, GroupSane
<1>1. /\ r.work \in Work /\ b \in BankIds /\ r.work.bank_epoch \in Nat /\ r.work.work_seq = s
      /\ r.work.work_seq # None
  BY DEF Authorised, Work, Seqs, None, Accounted
<1>2. CASE e.clock = r.work.work_seq BY <1>1, <1>2 DEF RowsOver
<1>3. CASE e.bank[b].epoch > r.work.bank_epoch
  <2>1. rt.banks[b].epoch \in Nat /\ e.bank[b].epoch \in Nat /\ e.bank[b].epoch <= rt.banks[b].epoch
    BY <1>0, <1>1, Plain DEF BankType, RowsOver
  <2>2. rt.banks[b].epoch > r.work.bank_epoch BY <1>1, <1>3, <2>1
  <2>3. Over(s) BY <1>1, <2>2, PassedOver
  <2> QED BY <2>3 DEF Over, ComputeOver
<1>4. CASE Drained(e, r.work) BY <1>4
<1> QED BY <1>2, <1>3, <1>4 DEF Ended, Drained

(* The fields of refresh that matter here. *)
LEMMA RefreshInfers ==
    ASSUME NEW e, Framed(e), NEW q, q = Refresh(e)
    PROVE  /\ q.generation = e.generation /\ q.bank = e.bank /\ q.clock = e.clock
           /\ DOMAIN q.records = DOMAIN e.records
           /\ \A s \in DOMAIN e.records :
                  /\ q.records[s].work = e.records[s].work
                  /\ q.records[s].compute_done => e.records[s].compute_done \/ Ended(e, e.records[s])
<1>1. q.generation = e.generation /\ q.bank = e.bank /\ q.clock = e.clock BY DEF Refresh, Framed
<1>2. q.records = [s \in DOMAIN e.records |-> Marked(e, e.records[s])]
  BY DEF Refresh, Framed, Marked, Ended
<1>3. DOMAIN q.records = DOMAIN e.records
      /\ \A s \in DOMAIN e.records : q.records[s] = Marked(e, e.records[s])
  BY <1>2
<1>4. \A s \in DOMAIN e.records : e.records[s] \in Authorised BY DEF Framed
<1>5. ASSUME NEW r \in Authorised
      PROVE  Marked(e, r).work = r.work /\ (Marked(e, r).compute_done => r.compute_done \/ Ended(e, r))
  BY DEF Marked, Authorised
<1> QED BY <1>1, <1>3, <1>4, <1>5

(* A refresh of a ledger that is right leaves it right. *)
LEMMA RefreshOver ==
    ASSUME Inv, GroupSane, NEW e, Framed(e), LedgerOver(e), \A b \in BankIds : e.bank[b].epoch \in Nat,
           \A s \in DOMAIN e.records : Accounted(s, e.records[s].work) \/ ~Ended(e, e.records[s]),
           NEW q, q = Refresh(e)
    PROVE  LedgerOver(q)
<1>1. /\ q.bank = e.bank /\ q.clock = e.clock /\ DOMAIN q.records = DOMAIN e.records
      /\ \A s \in DOMAIN e.records :
             /\ q.records[s].work = e.records[s].work
             /\ q.records[s].compute_done => e.records[s].compute_done \/ Ended(e, e.records[s])
  BY RefreshInfers
<1>2. RowsOver(q) BY <1>1 DEF LedgerOver, RowsOver
<1>3. ASSUME NEW s \in DOMAIN e.records, Ended(e, e.records[s]) PROVE ComputeOver(s)
  <2>1. e.records[s] \in Authorised BY DEF Framed
  <2>2. Drained(e, e.records[s].work) => ComputeOver(s) BY DEF LedgerOver
  <2> QED BY <1>3, <2>1, <2>2, EndedOver DEF LedgerOver
<1>4. \A s \in DOMAIN q.records : Drained(q, q.records[s].work) => Drained(e, e.records[s].work)
  BY <1>1 DEF Drained
<1> QED BY <1>1, <1>2, <1>3, <1>4 DEF LedgerOver

(* What control, execution and the lanes preserve of the WORKs. *)
Keeps ==
    /\ eng' = eng /\ completions \subseteq completions'
    /\ \A s \in DOMAIN rt.records :
           \/ s \in completions'
           \/ /\ s \in DOMAIN rt'.records /\ rt'.records[s].spec = rt.records[s].spec
              /\ rt.records[s].physical_done => rt'.records[s].physical_done
              /\ rt.records[s].result => rt'.records[s].result
    /\ \A i \in 1..Len(incoming) : Queued(i) =>
           \/ \E j \in 1..Len(incoming') : Queued(j)' /\ incoming'[j] = incoming[i]
           \/ QueuedSeq(i) \in DOMAIN rt'.records /\ rt'.records[QueuedSeq(i)].spec = incoming[i].work
    /\ \A b \in BankIds : rt.banks[b].epoch <= rt'.banks[b].epoch

(* How the clock moves: a computation ends, or its result is taken. *)
Ticks ==
    \/ /\ exec'.clock = exec.clock
       /\ exec'.stage = "COMPUTED" => exec.stage = "COMPUTED" /\ rt'.compute = rt.compute
       /\ exec.stage = "COMPUTED" /\ exec'.stage # "COMPUTED" =>
              rt.compute \in DOMAIN rt'.records /\ rt'.records[rt.compute].result
    \/ /\ exec.stage # "COMPUTED" /\ exec'.stage = "COMPUTED" /\ exec'.clock = rt'.compute
       /\ rt' = rt

(* A step that evolves the WORKs keeps them. *)
LEMMA EvolvesKeeps ==
    ASSUME TypeOK, RInv(rt), RInv(rt'), Evolves(rt, rt', slot),
           UNCHANGED <<incoming, completions, eng>>
    PROVE  Keeps
<1>1. \A s \in DOMAIN rt.records :
          /\ s \in DOMAIN rt'.records /\ rt'.records[s].spec = rt.records[s].spec
          /\ rt.records[s].physical_done => rt'.records[s].physical_done
          /\ rt.records[s].result => rt'.records[s].result
  BY DEF Evolves, StateEvolves
<1>2. ASSUME NEW b \in BankIds PROVE rt.banks[b].epoch <= rt'.banks[b].epoch
  <2>1. rt.banks[b].epoch \in Nat /\ rt'.banks[b].epoch \in Nat BY Plain DEF BankType
  <2>2. EpochEvolves(rt, rt', b) BY DEF Evolves
  <2>3. CASE rt'.banks[b].epoch = rt.banks[b].epoch BY <2>1, <2>3
  <2>4. CASE rt'.banks[b].epoch # rt.banks[b].epoch
    <3> PICK s \in DOMAIN rt.records : /\ rt'.banks[b].epoch = rt.records[s].spec.bank_epoch
                                       /\ rt.banks[b].epoch < rt.records[s].spec.bank_epoch
      BY <2>2, <2>4 DEF EpochEvolves
    <3> QED BY <2>1
  <2> QED BY <2>3, <2>4
<1>3. \A i \in 1..Len(incoming) : Queued(i) => \E j \in 1..Len(incoming') : Queued(j)' /\ incoming'[j] = incoming[i]
  BY DEF Queued
<1> QED BY <1>1, <1>2, <1>3 DEF Keeps

(* The steps of control that only move WORKs on. *)
LEMMA MovesKeeps == ASSUME Inv, Inv', GroupSane, Moves PROVE Keeps /\ Ticks
<1>0. TypeOK /\ RInv(rt) /\ RInv(rt') BY DEF Inv
<1>1. Keeps BY <1>0, EvolvesKeeps DEF Moves
<1>2. exec' = exec BY DEF Moves
<1>3. exec.stage = "COMPUTED" => rt'.compute = rt.compute BY DEF Moves, Kept, GroupSane, ExecSane
<1> QED BY <1>1, <1>2, <1>3 DEF Ticks

(* The model result. *)
LEMMA ResultKeeps == ASSUME Inv, Inv', GroupSane, HandleResult PROVE Keeps /\ Ticks
<1>0. TypeOK /\ RInv(rt) /\ RInv(rt') BY DEF Inv
<1>1. /\ rt.command = "COMPUTE" /\ Evolves(rt, rt', slot) /\ rt'.records[rt.compute].result
      /\ UNCHANGED <<incoming, completions, eng>>
      /\ exec'.stage = "IDLE" /\ exec'.clock = exec.clock
  BY ResultEvolves
<1>2. Keeps BY <1>0, <1>1, EvolvesKeeps
<1>3. rt.compute \in DOMAIN rt'.records BY <1>0, <1>1, Plain DEF Evolves
<1> QED BY <1>1, <1>2, <1>3 DEF Ticks

(* DRAIN and SHUTDOWN. *)
LEMMA StopKeeps == ASSUME Inv, Inv', GroupSane, PopStop PROVE Keeps /\ Ticks
<1>0. TypeOK /\ RInv(rt) /\ Sane(rt) /\ RInv(rt') BY DEF Inv, GroupSane
<1>1. /\ incoming # <<>> /\ incoming' = Tail(incoming) /\ Head(incoming).kind \in {"DRAIN", "SHUTDOWN"}
      /\ UNCHANGED <<slot, exec, completions, eng>>
  BY DEF PopStop
<1>2. /\ 1 \in 1..Len(incoming) /\ incoming[1].kind \in {"DRAIN", "SHUTDOWN"} /\ Head(incoming) = incoming[1]
  BY <1>0, <1>1, RingTail
<1>3. rt' = Stop(rt, Head(incoming).kind)
  <2>1. rt.draining => Head(incoming).kind = "SHUTDOWN"
    BY <1>2 DEF GroupSane, RingSane, RingStops
  <2> QED BY <2>1 DEF PopStop
<1>4. /\ DOMAIN rt'.records = DOMAIN rt.records /\ rt'.banks = rt.banks /\ rt'.compute = rt.compute
      /\ \A s \in DOMAIN rt.records :
             StateEvolves(rt.records[s], rt'.records[s], slot[rt.records[s].spec.bank_id] = s)
  BY <1>0, <1>3, StopSane
<1>5. \A i \in 1..Len(incoming) : ~Queued(i)
  BY <1>2 DEF GroupSane, RingSane, RingOrdered, Queued
<1>6. \A b \in BankIds : rt.banks[b].epoch <= rt'.banks[b].epoch
  <2>1. \A b \in BankIds : rt.banks[b].epoch \in Nat BY <1>0, Plain DEF BankType
  <2> QED BY <1>4, <2>1
<1>7. Keeps BY <1>1, <1>4, <1>5, <1>6 DEF Keeps, StateEvolves
<1> QED BY <1>1, <1>4, <1>7 DEF Ticks

(* The next WORK of the ring. *)
LEMMA RegisterKeeps == ASSUME Inv, Inv', GroupSane, Register PROVE Keeps /\ Ticks
<1> PICK work, s, b : work = Head(incoming).work /\ s = work.work_seq /\ b = work.bank_id
  OBVIOUS
<1>0. TypeOK /\ RInv(rt) /\ Sane(rt) /\ RInv(rt') BY DEF Inv, GroupSane
<1>1. /\ incoming # <<>> /\ incoming' = Tail(incoming) /\ Head(incoming).kind = "WORK"
      /\ Cardinality(DOMAIN rt.records) < MaxOutstanding
      /\ rt' = Accept(rt, work)
      /\ UNCHANGED <<import, lane, slot, exec, completions, eng>>
  BY DEF Register
<1>2. Queued(1) /\ QueuedSeq(1) = s /\ incoming[1].work = work /\ b \in BankIds
  BY <1>1, HeadAccepted
<1>3. Acceptable(rt, work, s, b)
  <2>1. Cardinality(DOMAIN rt.records) \in Nat BY <1>0, RecordsFinite DEF GroupSane
  <2> QED BY <1>1, <2>1, HeadAccepted DEF Acceptable
<1>4. /\ DOMAIN rt'.records = DOMAIN rt.records \cup {s} /\ rt'.records[s] = NewState(work)
      /\ \A t \in DOMAIN rt.records : rt'.records[t] = rt.records[t]
      /\ \A c \in BankIds : rt'.banks[c].epoch = rt.banks[c].epoch
      /\ rt'.compute = rt.compute
  BY <1>0, <1>1, <1>3, AcceptSane
<1>5. rt'.records[s].spec = work BY <1>4, NewStateFields
<1>6. ASSUME NEW i \in 1..Len(incoming), Queued(i)
      PROVE  \/ \E j \in 1..Len(incoming') : Queued(j)' /\ incoming'[j] = incoming[i]
             \/ QueuedSeq(i) \in DOMAIN rt'.records /\ rt'.records[QueuedSeq(i)].spec = incoming[i].work
  <2>1. i = 1 \/ (i - 1 \in 1..Len(incoming') /\ incoming'[i - 1] = incoming[i])
    BY <1>0, <1>1, RingTail
  <2>2. CASE i = 1 BY <1>2, <1>4, <1>5, <2>2
  <2>3. ASSUME NEW j, j \in 1..Len(incoming'), incoming'[j] = incoming[i] PROVE Queued(j)'
    BY <1>6, <2>3 DEF Queued
  <2> QED BY <2>1, <2>2, <2>3
<1>7. \A c \in BankIds : rt.banks[c].epoch <= rt'.banks[c].epoch
  <2>1. \A c \in BankIds : rt.banks[c].epoch \in Nat BY <1>0, Plain DEF BankType
  <2> QED BY <1>4, <2>1
<1>8. eng' = eng /\ completions' = completions /\ exec' = exec BY <1>1
<1>9. Keeps BY <1>4, <1>6, <1>7, <1>8 DEF Keeps
<1> QED BY <1>4, <1>8, <1>9 DEF Ticks

(* A completion takes the place of its record. *)
LEMMA PublishKeeps ==
    ASSUME Inv, GroupSane, NEW s \in DOMAIN rt.records, PublishCompletion(s) PROVE Keeps /\ Ticks
<1>0. TypeOK /\ RInv(rt) /\ Sane(rt) BY DEF Inv, GroupSane
<1>1. /\ rt.records[s].physical_done /\ completions' = completions \cup {s} /\ rt' = Retire(rt, s)
      /\ incoming' = incoming /\ exec' = exec /\ eng' = eng
  BY DEF PublishCompletion
<1>2. /\ DOMAIN rt'.records = DOMAIN rt.records \ {s}
      /\ \A t \in DOMAIN rt'.records : rt'.records[t] = rt.records[t]
      /\ rt'.banks = rt.banks /\ rt'.compute = rt.compute
  BY <1>0, <1>1, RetireSane DEF SameFlags
<1>3. \A c \in BankIds : rt.banks[c].epoch <= rt'.banks[c].epoch
  <2>1. \A c \in BankIds : rt.banks[c].epoch \in Nat BY <1>0, Plain DEF BankType
  <2> QED BY <1>2, <2>1
<1>4. Keeps BY <1>1, <1>2, <1>3 DEF Keeps, Queued
<1> QED BY <1>1, <1>2, <1>4 DEF Ticks

(* Execution and its end. *)
LEMMA ExecKeeps ==
    ASSUME Inv, GroupSane, CloseExecution \/ ControlExit \/ Execution PROVE Keeps /\ Ticks
<1>0. TypeOK /\ RInv(rt) /\ Sane(rt) BY DEF Inv, GroupSane
<1>1. incoming' = incoming /\ completions' = completions /\ eng' = eng
  BY DEF CloseExecution, ControlExit, Execution, ExecuteEnd, ExecuteShutdown
<1>2. /\ rt'.records = rt.records /\ rt'.banks = rt.banks /\ Ticks
  <2>1. CASE CloseExecution
    <3>1. rt.draining /\ DOMAIN rt.records = {} /\ rt' = Closed(rt) /\ exec' = exec
      BY <2>1 DEF CloseExecution, Closed
    <3>2. rt'.records = rt.records /\ rt'.banks = rt.banks /\ rt'.compute = rt.compute
      BY <1>0, <3>1, CloseSane
    <3> QED BY <3>1, <3>2 DEF Ticks
  <2>2. CASE ControlExit
    <3>1. exec.stage = "STOPPED" /\ rt.command = "SHUTDOWN" BY <2>2 DEF ControlExit, GroupSane, ExecSane
    <3>2. rt.draining /\ DOMAIN rt.records = {} BY <1>0, <3>1 DEF Sane, CommandSane
    <3>3. rt' = rt /\ exec'.stage = "JOINED" /\ exec'.clock = exec.clock
      BY <1>0, <2>2, <3>2 DEF ControlExit, TypeOK
    <3> QED BY <3>1, <3>3 DEF Ticks
  <2>3. CASE ExecuteEnd
    <3>1. rt' = rt /\ exec'.stage = "COMPUTED" /\ exec'.clock = rt.compute /\ exec.stage = "IDLE"
      BY <2>3 DEF ExecuteEnd, ModelRunning
    <3> QED BY <3>1 DEF Ticks
  <2>4. CASE ExecuteShutdown
    <3>1. rt' = rt /\ exec'.stage = "STOPPED" /\ exec.stage = "IDLE" /\ exec'.clock = exec.clock
      BY <1>0, <2>4 DEF ExecuteShutdown, TypeOK
    <3> QED BY <3>1 DEF Ticks
  <2> QED BY <2>1, <2>2, <2>3, <2>4 DEF Execution
<1>3. \A c \in BankIds : rt.banks[c].epoch <= rt'.banks[c].epoch
  <2>1. \A c \in BankIds : rt.banks[c].epoch \in Nat BY <1>0, Plain DEF BankType
  <2> QED BY <1>2, <2>1
<1>4. Keeps BY <1>1, <1>2, <1>3 DEF Keeps, Queued
<1> QED BY <1>2, <1>4

(* The lanes. *)
LEMMA DmaKeeps == ASSUME Inv, Inv', GroupSane, Dma PROVE Keeps /\ Ticks
<1>0. TypeOK /\ RInv(rt) /\ Sane(rt) /\ RInv(rt') BY DEF Inv, GroupSane
<1>1. PICK b \in BankIds : LaneImport(b) \/ LaneUnowned(b) \/ LaneServe(b) BY DEF Dma
<1>2. incoming' = incoming /\ completions' = completions /\ eng' = eng /\ exec' = exec
  BY <1>1 DEF LaneImport, LaneUnowned, LaneServe
<1>3. /\ DOMAIN rt'.records = DOMAIN rt.records /\ rt'.banks = rt.banks /\ rt'.compute = rt.compute
      /\ \A t \in DOMAIN rt.records :
             /\ rt'.records[t].spec = rt.records[t].spec
             /\ rt'.records[t].physical_done = rt.records[t].physical_done
             /\ rt'.records[t].result = rt.records[t].result
  <2>1. CASE LaneImport(b) BY <2>1 DEF LaneImport
  <2>2. CASE LaneUnowned(b)
    <3>1. DirectImports /\ lane[b] = None /\ rt.exchange[b] # "NONE" BY <2>2 DEF LaneUnowned
    <3> QED BY <3>1, LaneOwned
  <2>3. CASE LaneServe(b)
    <3> PICK s, kind : s = rt.banks[b].current /\ kind = CopyOf(rt.exchange[b])
      OBVIOUS
    <3>1. rt' = Idled(SetJob(rt, s, kind, "DONE"), b) /\ rt.exchange[b] # "NONE"
      BY <2>3 DEF LaneServe, Idled, CopyOf
    <3>2. /\ Touches(rt, rt', b, s) /\ rt'.banks = rt.banks /\ rt'.compute = rt.compute
          /\ rt'.records[s].spec = rt.records[s].spec
          /\ rt'.records[s].physical_done = rt.records[s].physical_done
          /\ rt'.records[s].result = rt.records[s].result
      BY <1>0, <3>1, ServeSane
    <3> QED BY <3>2 DEF Touches
  <2> QED BY <1>1, <2>1, <2>2, <2>3
<1>4. \A c \in BankIds : rt.banks[c].epoch <= rt'.banks[c].epoch
  <2>1. \A c \in BankIds : rt.banks[c].epoch \in Nat BY <1>0, Plain DEF BankType
  <2> QED BY <1>3, <2>1
<1>5. Keeps BY <1>2, <1>3, <1>4 DEF Keeps, Queued
<1> QED BY <1>2, <1>3, <1>5 DEF Ticks

(* Every step that is not the Engine's. *)
LEMMA WorkerKeeps ==
    ASSUME Inv, Inv', GroupSane, Control \/ Execution \/ Dma PROVE Keeps /\ Ticks
<1>1. ASSUME Control PROVE Keeps /\ Ticks
  BY <1>1, AdvanceMoves, HandleMoves, ReceiveMoves, MovesKeeps, ResultKeeps, StopKeeps, RegisterKeeps,
     PublishKeeps, ExecKeeps DEF Control, JobKinds
<1> QED BY <1>1, ExecKeeps, DmaKeeps

(* What has been computed stays computed. *)
LEMMA OverStays ==
    ASSUME Inv, GroupSane, ClockOver, Keeps, Ticks, NEW s
    PROVE  /\ Over(s) => Over(s)'
           /\ ComputeOver(s) => ComputeOver(s)'
<1>0. RInv(rt) BY DEF Inv
<1>1. Over(s) => Over(s)' BY DEF Keeps, Over
<1>2. ASSUME s \in DOMAIN rt.records, exec.clock = s PROVE ComputeOver(s)'
  <2>1. s # None BY <1>0, <1>2, StateFacts DEF Seqs, None
  <2>2. CASE exec'.clock = exec.clock BY <1>2, <2>2 DEF Keeps, ComputeOver
  <2>3. CASE exec.stage # "COMPUTED"
    <3>1. Over(s) BY <1>2, <2>1, <2>3 DEF ClockOver
    <3> QED BY <1>1, <3>1 DEF Over, ComputeOver
  <2> QED BY <2>2, <2>3 DEF Ticks
<1>3. ComputeOver(s) => Over(s) \/ (s \in DOMAIN rt.records /\ exec.clock = s) BY DEF ComputeOver, Over
<1>4. Over(s)' => ComputeOver(s)' BY DEF Over, ComputeOver
<1> QED BY <1>1, <1>2, <1>3, <1>4

(* The worker's steps leave the ledger right. *)
LEMMA WorkerClock ==
    ASSUME Inv, Inv', GroupSane, ClockSane, Control \/ Execution \/ Dma
    PROVE  eng' = eng /\ ClockSane'
<1>0. TypeOK /\ RInv(rt) /\ RInv(rt') /\ Sane(rt) /\ ClockOver BY DEF Inv, GroupSane, ClockSane
<1>1. Keeps /\ Ticks BY WorkerKeeps
<1>2. eng' = eng BY <1>1 DEF Keeps
<1>3. \A s : (Over(s) => Over(s)') /\ (ComputeOver(s) => ComputeOver(s)') BY <1>0, <1>1, OverStays
<1>4. ClockOver'
  <2>1. ASSUME exec'.stage = "COMPUTED" PROVE exec'.clock = rt'.compute
    BY <1>0, <1>1, <2>1 DEF Ticks, ClockOver
  <2>2. ASSUME exec'.stage # "COMPUTED", exec'.clock # None PROVE Over(exec.clock)'
    <3>1. exec'.clock = exec.clock BY <1>1, <2>2 DEF Ticks
    <3>2. CASE exec.stage = "COMPUTED"
      <4>1. rt.compute \in DOMAIN rt'.records /\ rt'.records[rt.compute].result /\ exec.clock = rt.compute
        BY <1>0, <1>1, <2>2, <3>2 DEF Ticks, ClockOver
      <4> PICK c : c = exec.clock
        OBVIOUS
      <4>2. Over(c)' BY <4>1 DEF Over
      <4> QED BY <3>1, <4>2
    <3>3. CASE exec.stage # "COMPUTED"
      <4> PICK c : c = exec.clock
        OBVIOUS
      <4>1. Over(c) BY <1>0, <2>2, <3>1, <3>3 DEF ClockOver
      <4>2. Over(c)' BY <1>3, <4>1
      <4> QED BY <3>1, <4>2
    <3> QED BY <3>2, <3>3
  <2> QED BY <2>1, <2>2 DEF ClockOver
<1>5. ASSUME NEW s, NEW work, Accounted(s, work) PROVE Accounted(s, work)'
  <2>1. work.work_seq = s BY <1>5 DEF Accounted
  <2>2. CASE s \in completions BY <1>1, <2>1, <2>2 DEF Keeps, Accounted
  <2>3. CASE s \in DOMAIN rt.records /\ rt.records[s].spec = work
    <3>1. s \in completions' \/ (s \in DOMAIN rt'.records /\ rt'.records[s].spec = work)
      BY <1>1, <2>3 DEF Keeps
    <3> QED BY <2>1, <3>1 DEF Accounted
  <2>4. CASE \E i \in 1..Len(incoming) : Queued(i) /\ incoming[i].work = work
    <3>1. PICK i \in 1..Len(incoming) : Queued(i) /\ incoming[i].work = work BY <2>4
    <3>2. QueuedSeq(i) = s BY <2>1, <3>1 DEF QueuedSeq
    <3>3. \/ \E j \in 1..Len(incoming') : Queued(j)' /\ incoming'[j] = incoming[i]
          \/ s \in DOMAIN rt'.records /\ rt'.records[s].spec = work
      BY <1>1, <3>1, <3>2 DEF Keeps
    <3> QED BY <2>1, <3>1, <3>3 DEF Accounted
  <2> QED BY <1>5, <2>2, <2>3, <2>4 DEF Accounted
<1>6. (\A s \in DOMAIN eng.records : Accounted(s, eng.records[s].work))'
  <2> PICK e : e = eng
    OBVIOUS
  <2>1. ASSUME NEW s \in DOMAIN e.records, NEW work, work = e.records[s].work PROVE Accounted(s, work)'
    <3>1. Accounted(s, work) BY <2>1 DEF ClockSane
    <3> QED BY <1>5, <3>1
  <2>2. \A s \in DOMAIN e.records : Accounted(s, e.records[s].work)' BY <2>1 DEF Accounted
  <2> QED BY <1>2, <2>2 DEF Accounted
<1>7. LedgerOver(eng)'
  <2>1. ASSUME NEW b \in BankIds PROVE eng.bank[b].epoch <= rt'.banks[b].epoch
    <3>1. /\ eng.bank[b].epoch \in Nat /\ rt.banks[b].epoch \in Nat /\ rt'.banks[b].epoch \in Nat
      BY <1>0, Plain DEF TypeOK, EngineType, BankType
    <3>2. eng.bank[b].epoch <= rt.banks[b].epoch BY DEF ClockSane, LedgerOver, RowsOver
    <3>3. rt.banks[b].epoch <= rt'.banks[b].epoch BY <1>1 DEF Keeps
    <3> QED BY <3>1, <3>2, <3>3
  <2>2. eng.clock # None => ComputeOver(eng.clock) BY DEF ClockSane, LedgerOver, RowsOver
  <2> PICK c : c = eng.clock
    OBVIOUS
  <2>3. c # None => ComputeOver(c)' BY <1>3, <2>2
  <2>4. RowsOver(eng)' BY <1>2, <2>1, <2>3 DEF RowsOver, ComputeOver
  <2>5. \A s \in DOMAIN eng.records :
            eng.records[s].compute_done \/ Drained(eng, eng.records[s].work) => ComputeOver(s)'
    BY <1>3 DEF ClockSane, LedgerOver
  <2>6. \A s \in DOMAIN eng'.records :
            eng'.records[s].compute_done \/ Drained(eng', eng'.records[s].work) => ComputeOver(s)'
    BY <1>2, <2>5
  <2> QED BY <2>4, <2>6 DEF LedgerOver, Drained
<1> QED BY <1>2, <1>4, <1>6, <1>7 DEF ClockSane

(* The rows and the records a step of the Engine reads are the worker's. *)
LEMMA EngineClock ==
    ASSUME ClockOver, UNCHANGED <<rt, exec, completions>>, NEW e, e = eng', LedgerOver(e),
           \A s \in DOMAIN e.records : Accounted(s, e.records[s].work)'
    PROVE  ClockSane'
<1>1. rt' = rt /\ exec' = exec /\ completions' = completions
  OBVIOUS
<1>2. ClockOver' BY <1>1 DEF ClockOver, Over
<1>3. LedgerOver(eng)' BY <1>1 DEF LedgerOver, RowsOver, Drained, ComputeOver
<1>4. (\A s \in DOMAIN eng.records : Accounted(s, eng.records[s].work))'
  BY DEF Accounted
<1> QED BY <1>2, <1>3, <1>4 DEF ClockSane

(* Such a step, with the refresh that ends it. *)
LEMMA ReadClock ==
    ASSUME Inv, GroupSane, ClockSane, NEW seen, Framed(seen), LedgerOver(seen),
           \A b \in BankIds : seen.bank[b].epoch \in Nat,
           \A s \in DOMAIN seen.records : Accounted(s, seen.records[s].work),
           eng' = Refresh(seen), UNCHANGED <<rt, incoming, exec, completions>>
    PROVE  eng'.generation = seen.generation /\ ClockSane'
<1> PICK e : e = eng'
  OBVIOUS
<1>1. /\ e.generation = seen.generation /\ DOMAIN e.records = DOMAIN seen.records
      /\ \A s \in DOMAIN seen.records : e.records[s].work = seen.records[s].work
  BY RefreshInfers
<1>2. LedgerOver(e) BY RefreshOver
<1>3. rt' = rt /\ incoming' = incoming /\ exec' = exec /\ completions' = completions
  OBVIOUS
<1>4. \A s \in DOMAIN e.records : Accounted(s, e.records[s].work)'
  BY <1>1, <1>3 DEF Accounted, Queued
<1>5. ClockSane' BY <1>2, <1>3, <1>4, EngineClock DEF ClockSane
<1> QED BY <1>1, <1>5

(* The compute clock, when the Engine reads it. *)
LEMMA ClockRead ==
    ASSUME Inv, GroupSane, ClockOver, exec.clock # None PROVE ComputeOver(exec.clock)
<1>0. RInv(rt) BY DEF Inv
<1>1. CASE exec.stage = "COMPUTED"
  <2>1. rt.compute \in DOMAIN rt.records BY <1>0, <1>1, Plain DEF GroupSane, ExecSane
  <2> QED BY <1>1, <2>1 DEF ClockOver, ComputeOver
<1>2. CASE exec.stage # "COMPUTED" BY <1>2 DEF ClockOver, Over, ComputeOver
<1> QED BY <1>1, <1>2

(* The three reads of the ledger. *)
LEMMA ReadsClock ==
    ASSUME Inv, GroupSane, ClockSane, EngineObserves
    PROVE  eng'.generation = eng.generation /\ ClockSane'
<1>0. /\ TypeOK /\ RInv(rt) /\ ClockOver /\ LedgerOver(eng)
      /\ \A s \in DOMAIN eng.records : Accounted(s, eng.records[s].work)
      /\ DOMAIN eng = {"generation", "next", "stop", "records", "epochs", "bank", "clock"}
      /\ \A b \in BankIds : eng.bank[b].epoch \in Nat
  BY DEF Inv, ClockSane, TypeOK, EngineType
<1>1. \A s \in DOMAIN eng.records : eng.records[s] \in Authorised
  BY DEF GroupSane, LedgerSane, LedgerTyped
<1>2. CASE ObserveRows
  <2> PICK seen : seen = [eng EXCEPT !.bank = [b \in BankIds |-> BankRow(b)], !.clock = exec.clock]
    OBVIOUS
  <2>1. eng' = Refresh(seen) /\ UNCHANGED <<rt, incoming, exec, completions>>
    BY <1>2 DEF ObserveRows
  <2>2. /\ DOMAIN seen = DOMAIN eng /\ seen.records = eng.records
        /\ seen.generation = eng.generation
        /\ seen.clock = exec.clock /\ \A b \in BankIds : seen.bank[b] = BankRow(b)
    BY <1>0
  <2>3. Framed(seen) BY <1>0, <1>1, <2>2 DEF Framed
  <2>4. \A b \in BankIds : rt.banks[b].epoch \in Nat /\ seen.bank[b].epoch = rt.banks[b].epoch
    BY <1>0, <2>2, Plain DEF BankType, BankRow
  <2>5. RowsOver(seen)
    <3>1. seen.clock # None => ComputeOver(seen.clock) BY <1>0, <2>2, ClockRead
    <3>2. \A b \in BankIds : seen.bank[b].epoch <= rt.banks[b].epoch BY <2>4
    <3> QED BY <3>1, <3>2 DEF RowsOver
  <2>6. ASSUME NEW s \in DOMAIN seen.records, Drained(seen, seen.records[s].work) PROVE ComputeOver(s)
    <3> PICK work, b : work = seen.records[s].work /\ b = work.bank_id
      OBVIOUS
    <3>1. work \in Work /\ b \in BankIds /\ Accounted(s, work) BY <1>0, <1>1, <2>2 DEF Authorised, Work
    <3>2. rt.banks[b].epoch = work.bank_epoch BY <2>4, <2>6, <3>1 DEF Drained
    <3>3. seen.bank[b].phase = IF rt.banks[b].phase \in {"FREE", "EXPORTING"} THEN rt.banks[b].phase ELSE "BUSY"
      BY <2>2, <3>1 DEF BankRow
    <3>4. rt.banks[b].phase \in {"FREE", "EXPORTING"} BY <2>6, <3>3 DEF Drained
    <3>5. Over(s) BY <3>1, <3>2, <3>4, PassedOver
    <3> QED BY <3>5 DEF Over, ComputeOver
  <2>7. LedgerOver(seen) BY <1>0, <2>2, <2>5, <2>6 DEF LedgerOver
  <2> QED BY <1>0, <2>1, <2>2, <2>3, <2>4, <2>7, ReadClock
<1>3. ASSUME NEW s \in DOMAIN eng.records, ObserveCompletion(s)
      PROVE  eng'.generation = eng.generation /\ ClockSane'
  <2> PICK done : done = [eng.records[s] EXCEPT !.compute_done = TRUE, !.physical_done = TRUE]
    OBVIOUS
  <2> PICK seen : seen = [eng EXCEPT !.records = [eng.records EXCEPT ![s] = done]]
    OBVIOUS
  <2>1. /\ s \in completions /\ eng' = Refresh(seen)
        /\ UNCHANGED <<rt, incoming, exec, completions>>
    BY <1>3 DEF ObserveCompletion
  <2>2. /\ DOMAIN seen = DOMAIN eng /\ seen.generation = eng.generation
        /\ seen.bank = eng.bank /\ seen.clock = eng.clock
        /\ DOMAIN seen.records = DOMAIN eng.records
        /\ seen.records[s] = done
        /\ \A t \in DOMAIN eng.records : t # s => seen.records[t] = eng.records[t]
    BY <1>0
  <2>3. done \in Authorised /\ done.work = eng.records[s].work BY <1>1 DEF Authorised
  <2>4. Framed(seen) BY <1>0, <1>1, <2>2, <2>3 DEF Framed
  <2>5. LedgerOver(seen)
    <3>1. RowsOver(seen) BY <1>0, <2>2 DEF LedgerOver, RowsOver
    <3>2. ComputeOver(s) BY <2>1 DEF ComputeOver
    <3>3. \A t \in DOMAIN eng.records : Drained(seen, eng.records[t].work) => Drained(eng, eng.records[t].work)
      BY <2>2 DEF Drained
    <3> QED BY <1>0, <2>2, <2>3, <3>1, <3>2, <3>3 DEF LedgerOver
  <2>6. \A t \in DOMAIN seen.records : Accounted(t, seen.records[t].work)
    BY <1>0, <2>2, <2>3
  <2> QED BY <1>0, <2>1, <2>2, <2>4, <2>5, <2>6, ReadClock
<1>4. ASSUME NEW s \in DOMAIN eng.records, RetireRecord(s)
      PROVE  eng'.generation = eng.generation /\ ClockSane'
  <2> PICK seen : seen = [eng EXCEPT !.records = [x \in DOMAIN eng.records \ {s} |-> eng.records[x]]]
    OBVIOUS
  <2>1. eng' = Refresh(seen) /\ UNCHANGED <<rt, incoming, exec, completions>>
    BY <1>4 DEF RetireRecord
  <2>2. /\ DOMAIN seen = DOMAIN eng /\ seen.generation = eng.generation
        /\ seen.bank = eng.bank /\ seen.clock = eng.clock
        /\ DOMAIN seen.records = DOMAIN eng.records \ {s}
        /\ \A t \in DOMAIN seen.records : seen.records[t] = eng.records[t]
    BY <1>0
  <2>3. Framed(seen) BY <1>0, <1>1, <2>2 DEF Framed
  <2>4. LedgerOver(seen) BY <1>0, <2>2 DEF LedgerOver, RowsOver, Drained
  <2> QED BY <1>0, <2>1, <2>2, <2>3, <2>4, ReadClock
<1> QED BY <1>2, <1>3, <1>4 DEF EngineObserves

(* What is accounted for stays so when the ring grows. *)
LEMMA AppendAccounted ==
    ASSUME TypeOK, NEW m \in Messages, incoming' = Append(incoming, m), UNCHANGED <<rt, completions>>
    PROVE  /\ \A s, work : Accounted(s, work) => Accounted(s, work)'
           /\ m.kind = "WORK" => Accounted(m.work.work_seq, m.work)'
<1>1. /\ Len(incoming) \in Nat /\ Len(incoming') = Len(incoming) + 1
      /\ \A i \in 1..Len(incoming) : i \in 1..Len(incoming') /\ incoming'[i] = incoming[i]
      /\ incoming'[Len(incoming) + 1] = m
  BY RingAppend
<1>2. ASSUME NEW s, NEW work, Accounted(s, work) PROVE Accounted(s, work)'
  BY <1>1, <1>2 DEF Accounted, Queued
<1>3. ASSUME m.kind = "WORK" PROVE Accounted(m.work.work_seq, m.work)'
  <2> PICK n : n = Len(incoming) + 1
    OBVIOUS
  <2>1. n \in 1..Len(incoming') /\ incoming'[n] = m BY <1>1
  <2>2. Queued(n)' BY <1>3, <2>1 DEF Queued
  <2> QED BY <2>1, <2>2 DEF Accounted
<1> QED BY <1>2, <1>3

(* The rows the ledger has seen say nothing of a WORK it has not sent. *)
LEMMA FreshRecord ==
    ASSUME Inv, GroupSane, ClockSane, NEW b \in BankIds, NEW work \in Work,
           work.work_seq = eng.next, work.bank_id = b, work.bank_epoch = NextEpoch(b)
    PROVE  ~Ended(eng, NewRecord(work)) /\ ~Drained(eng, work)
<1>0. TypeOK BY DEF Inv
<1>1. NewRecord(work).work = work BY DEF NewRecord
<1>2. eng.clock # eng.next
  <2> SUFFICES ASSUME eng.clock = eng.next PROVE FALSE
    OBVIOUS
  <2>1. eng.next # None /\ eng.next \in Nat BY <1>0 DEF TypeOK, EngineType, Seqs, None
  <2>2. ComputeOver(eng.next) BY <2>1 DEF ClockSane, LedgerOver, RowsOver
  <2>3. eng.next \in completions \/ eng.next \in DOMAIN rt.records BY <2>2 DEF ComputeOver
  <2>4. eng.next < eng.next
    BY <2>3 DEF GroupSane, LedgerSane, LedgerKnows, LedgerTyped
  <2> QED BY <2>1, <2>4
<1>3. eng.bank[b].epoch < work.bank_epoch
  <2>1. eng.bank[b].epoch \in Nat /\ eng.epochs[b] \in Nat BY <1>0 DEF TypeOK, EngineType
  <2>2. CASE eng.bank[b].epoch > eng.epochs[b] BY <2>1, <2>2 DEF NextEpoch
  <2>3. CASE ~(eng.bank[b].epoch > eng.epochs[b]) BY <2>1, <2>3 DEF NextEpoch
  <2> QED BY <2>2, <2>3
<1>4. eng.bank[b].epoch \in Nat /\ work.bank_epoch \in Nat BY <1>0 DEF TypeOK, EngineType, Work
<1>5. eng.bank[b].epoch # work.bank_epoch /\ ~(eng.bank[b].epoch > work.bank_epoch) BY <1>3, <1>4
<1> QED BY <1>1, <1>2, <1>5 DEF Ended, Drained

(* A WORK is authorised and sent. *)
LEMMA SubmitClock ==
    ASSUME Inv, GroupSane, ClockSane,
           NEW b \in BankIds, NEW op \in Operations, NEW n \in 1..MaxBatchSize, Submit(b, op, n)
    PROVE  eng'.generation = eng.generation /\ ClockSane'
<1>0. /\ TypeOK /\ ClockOver /\ LedgerOver(eng)
      /\ \A s \in DOMAIN eng.records : Accounted(s, eng.records[s].work)
      /\ DOMAIN eng = {"generation", "next", "stop", "records", "epochs", "bank", "clock"}
      /\ \A c \in BankIds : eng.bank[c].epoch \in Nat
  BY DEF Inv, ClockSane, TypeOK, EngineType
<1>1. \A s \in DOMAIN eng.records : eng.records[s] \in Authorised /\ s < eng.next
  BY DEF GroupSane, LedgerSane, LedgerTyped
<1>2. eng.next \notin DOMAIN eng.records /\ eng.next \in Nat
  <2>1. eng.next \in Nat BY <1>0 DEF TypeOK, EngineType, Seqs
  <2> QED BY <1>1, <2>1
<1> PICK work \in Work : /\ work.work_seq = eng.next /\ work.bank_id = b /\ work.rows = n
                         /\ work.bank_epoch = NextEpoch(b)
                         /\ incoming' = Append(incoming, [kind |-> "WORK", work |-> work])
                         /\ eng' = Refresh(Submitted(work))
  BY SubmitEffect
<1> PICK seen : seen = Submitted(work)
  OBVIOUS
<1> PICK e : e = eng'
  OBVIOUS
<1> PICK m : m = [kind |-> "WORK", work |-> work]
  OBVIOUS
<1>3. rt' = rt /\ exec' = exec /\ completions' = completions BY DEF Submit
<1>4. /\ DOMAIN seen = DOMAIN eng /\ seen.generation = eng.generation
      /\ seen.bank = eng.bank /\ seen.clock = eng.clock
      /\ seen.records = [s \in DOMAIN eng.records \cup {eng.next} |->
                            IF s = eng.next THEN NewRecord(work) ELSE eng.records[s]]
  BY <1>0 DEF Submitted
<1>5. /\ DOMAIN seen.records = DOMAIN eng.records \cup {eng.next}
      /\ seen.records[eng.next] = NewRecord(work)
      /\ \A s \in DOMAIN eng.records : seen.records[s] = eng.records[s]
  BY <1>2, <1>4
<1>6. NewRecord(work) \in Authorised /\ NewRecord(work).work = work /\ ~NewRecord(work).compute_done
  BY DEF NewRecord, Authorised
<1>7. Framed(seen)
  <2>1. DOMAIN seen = DOMAIN eng BY <1>4
  <2> QED BY <1>0, <1>1, <1>5, <1>6, <2>1 DEF Framed
<1>8. ~Ended(eng, NewRecord(work)) /\ ~Drained(eng, work) BY FreshRecord
<1>9. seen.generation = eng.generation /\ seen.bank = eng.bank /\ seen.clock = eng.clock BY <1>4
<1>10. \A r : (Ended(seen, r) <=> Ended(eng, r)) /\ \A w : (Drained(seen, w) <=> Drained(eng, w))
  BY <1>9 DEF Ended, Drained
<1>11. LedgerOver(seen)
  <2>1. RowsOver(seen) BY <1>0, <1>9 DEF LedgerOver, RowsOver
  <2>2. ASSUME NEW s \in DOMAIN seen.records,
               seen.records[s].compute_done \/ Drained(seen, seen.records[s].work)
        PROVE  ComputeOver(s)
    <3>1. s # eng.next BY <1>5, <1>6, <1>8, <1>10, <2>2
    <3>2. s \in DOMAIN eng.records /\ seen.records[s] = eng.records[s] BY <1>5, <3>1
    <3> QED BY <1>0, <1>10, <2>2, <3>2 DEF LedgerOver
  <2> QED BY <2>1, <2>2 DEF LedgerOver
<1>12. \A s \in DOMAIN seen.records : Accounted(s, seen.records[s].work) \/ ~Ended(seen, seen.records[s])
  BY <1>0, <1>5, <1>8, <1>10
<1>13. \A c \in BankIds : seen.bank[c].epoch \in Nat BY <1>0, <1>9
<1>14. LedgerOver(e) BY <1>7, <1>11, <1>12, <1>13, RefreshOver
<1>15. /\ e.generation = eng.generation /\ DOMAIN e.records = DOMAIN seen.records
       /\ \A s \in DOMAIN seen.records : e.records[s].work = seen.records[s].work
  BY <1>7, <1>9, RefreshInfers
<1>16. m \in Messages /\ m.kind = "WORK" /\ m.work = work /\ incoming' = Append(incoming, m)
  BY DEF Messages
<1>17. /\ \A s, w : Accounted(s, w) => Accounted(s, w)'
       /\ m.kind = "WORK" => Accounted(m.work.work_seq, m.work)'
  BY <1>0, <1>3, <1>16, AppendAccounted
<1>18. ASSUME NEW s \in DOMAIN e.records PROVE Accounted(s, e.records[s].work)'
  <2>0. e.records[s].work = seen.records[s].work /\ s \in DOMAIN seen.records BY <1>15
  <2>1. CASE s = eng.next
    <3>1. e.records[s].work = work BY <1>5, <1>6, <2>0, <2>1
    <3>2. Accounted(work.work_seq, work)' BY <1>16, <1>17
    <3> QED BY <2>1, <3>1, <3>2 DEF Accounted
  <2>2. CASE s # eng.next
    <3> PICK w : w = eng.records[s].work
      OBVIOUS
    <3>1. e.records[s].work = w /\ Accounted(s, w) BY <1>0, <1>5, <2>0, <2>2
    <3>2. Accounted(s, w)' BY <1>17, <3>1
    <3> QED BY <3>1, <3>2 DEF Accounted
  <2> QED BY <2>1, <2>2
<1>19. ClockSane' BY <1>0, <1>3, <1>14, <1>18, EngineClock
<1> QED BY <1>15, <1>19

(* DRAIN or SHUTDOWN is sent. *)
LEMMA EngineStopClock ==
    ASSUME Inv, GroupSane, ClockSane, NEW kind \in StopKinds, EngineStop(kind)
    PROVE  eng'.generation = eng.generation /\ ClockSane'
<1> PICK m : m = [kind |-> kind, work |-> NoWork]
  OBVIOUS
<1> PICK e : e = eng'
  OBVIOUS
<1>0. /\ TypeOK /\ ClockOver /\ LedgerOver(eng)
      /\ \A s \in DOMAIN eng.records : Accounted(s, eng.records[s].work)
      /\ DOMAIN eng = {"generation", "next", "stop", "records", "epochs", "bank", "clock"}
  BY DEF Inv, ClockSane, TypeOK, EngineType
<1>1. /\ incoming' = Append(incoming, m) /\ e = [eng EXCEPT !.stop = kind]
      /\ UNCHANGED <<rt, exec, completions>>
  BY DEF EngineStop
<1>2. e.generation = eng.generation /\ e.records = eng.records /\ e.bank = eng.bank /\ e.clock = eng.clock
  BY <1>0, <1>1
<1>3. m \in Messages BY StopKindsAssumption DEF Messages
<1>4. \A s, w : Accounted(s, w) => Accounted(s, w)' BY <1>0, <1>1, <1>3, AppendAccounted
<1>5. LedgerOver(e) BY <1>0, <1>2 DEF LedgerOver, RowsOver, Drained
<1>6. \A s \in DOMAIN e.records : Accounted(s, e.records[s].work)'
  <2> SUFFICES ASSUME NEW s \in DOMAIN e.records PROVE Accounted(s, e.records[s].work)'
    OBVIOUS
  <2> PICK w : w = eng.records[s].work
    OBVIOUS
  <2>1. e.records[s].work = w /\ Accounted(s, w) BY <1>0, <1>2
  <2>2. Accounted(s, w)' BY <1>4, <2>1
  <2> QED BY <2>1, <2>2 DEF Accounted
<1>7. ClockSane' BY <1>0, <1>1, <1>5, <1>6, EngineClock
<1> QED BY <1>2, <1>7

(* A step that changes nothing. *)
LEMMA StutterClock == ASSUME ClockSane, UNCHANGED vars PROVE ClockSane'
<1>1. /\ rt' = rt /\ incoming' = incoming /\ exec' = exec /\ completions' = completions /\ eng' = eng
  BY DEF vars
<1> QED BY <1>1 DEF ClockSane, ClockOver, Over, Accounted, Queued, LedgerOver, RowsOver, Drained, ComputeOver

(* A new group. *)
LEMMA ClockInit == Init => eng.generation = 1 /\ ClockSane
<1> SUFFICES ASSUME Init PROVE eng.generation = 1 /\ ClockSane
  OBVIOUS
<1>1. /\ eng.generation = 1 /\ DOMAIN eng.records = {} /\ eng.clock = None
      /\ \A b \in BankIds : eng.bank[b].epoch = 0
      /\ exec.stage = "IDLE" /\ exec.clock = None
  BY DEF Init
<1>2. \A b \in BankIds : rt.banks[b].epoch = 0 BY DEF Init, NewRuntime, NewBank
<1> QED BY <1>1, <1>2 DEF ClockSane, ClockOver, LedgerOver, RowsOver

(* The invariant of the ledger's inference, generation by generation. *)
FirstGeneration ==
    /\ eng.generation \in Nat /\ eng.generation >= 1
    /\ eng.generation = 1 => ClockSane

(* Every step but Recycle stays in its generation. *)
LEMMA SameGeneration ==
    ASSUME Inv, Inv', GroupSane, [Next]_vars, ~Recycle PROVE eng'.generation = eng.generation
<1>0. DOMAIN eng = {"generation", "next", "stop", "records", "epochs", "bank", "clock"}
      /\ \A s \in DOMAIN eng.records : eng.records[s] \in Authorised
  BY DEF Inv, TypeOK, EngineType, GroupSane, LedgerSane, LedgerTyped
<1>1. ASSUME Control \/ Execution \/ Dma PROVE eng' = eng BY <1>1, WorkerKeeps DEF Keeps
<1>2. ASSUME NEW q, eng' = Refresh(q), DOMAIN q = DOMAIN eng, q.generation = eng.generation
      PROVE  eng'.generation = eng.generation
  BY <1>0, <1>2 DEF Refresh
<1>3. CASE ObserveRows BY <1>0, <1>2, <1>3 DEF ObserveRows
<1>4. ASSUME NEW s, ObserveCompletion(s) PROVE eng'.generation = eng.generation
  BY <1>0, <1>2, <1>4 DEF ObserveCompletion
<1>5. ASSUME NEW s, RetireRecord(s) PROVE eng'.generation = eng.generation
  BY <1>0, <1>2, <1>5 DEF RetireRecord
<1>6. ASSUME NEW b \in BankIds, NEW op \in Operations, NEW n \in 1..MaxBatchSize, Submit(b, op, n)
      PROVE  eng'.generation = eng.generation
  BY <1>0, <1>2, <1>6 DEF Submit
<1>7. ASSUME NEW kind, EngineStop(kind) PROVE eng'.generation = eng.generation
  BY <1>0, <1>7 DEF EngineStop
<1>8. CASE UNCHANGED vars BY <1>8 DEF vars
<1> QED BY <1>1, <1>3, <1>4, <1>5, <1>6, <1>7, <1>8 DEF Next, Terminated, Engine, EngineObserves

(* Every step keeps the invariant. *)
LEMMA GenerationNext ==
    ASSUME Inv, Inv', GroupSane, FirstGeneration, [Next]_vars PROVE FirstGeneration'
<1>1. CASE Recycle
  <2>0. DOMAIN eng = {"generation", "next", "stop", "records", "epochs", "bank", "clock"}
    BY DEF Inv, TypeOK, EngineType
  <2>1. eng'.generation = eng.generation + 1 BY <1>1, <2>0 DEF Recycle
  <2> QED BY <2>1 DEF FirstGeneration
<1>2. CASE ~Recycle
  <2>1. eng'.generation = eng.generation BY <1>2, SameGeneration
  <2>2. ASSUME eng.generation = 1 PROVE ClockSane'
    <3>1. ClockSane BY <2>2 DEF FirstGeneration
    <3> QED BY <1>2, <3>1, WorkerClock, ReadsClock, SubmitClock, EngineStopClock, StutterClock
            DEF Next, Terminated, Engine
  <2> QED BY <2>1, <2>2 DEF FirstGeneration
<1> QED BY <1>1, <1>2

(* WorkLedger.refresh never takes a WORK of the first generation for computed
   before it is; the Engine may therefore reuse its pending Bank. *)
THEOREM FirstGenerationSound == Spec => [](eng.generation = 1 => ComputeDoneSound)
<1>1. FirstGeneration => (eng.generation = 1 => ComputeDoneSound)
  BY DEF FirstGeneration, ClockSane, LedgerOver, ComputeDoneSound
<1>2. Init => FirstGeneration BY ClockInit DEF FirstGeneration
<1> QED BY <1>1, <1>2, InitInv, GroupInit, GroupNext, GenerationNext, PTL DEF Spec

=============================================================================
