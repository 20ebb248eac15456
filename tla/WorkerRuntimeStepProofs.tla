--------------------- MODULE WorkerRuntimeStepProofs ---------------------
(***************************************************************************)
(* Sane is preserved by every step of the control process: Runtime._finish,*)
(* _advance, _handle, _receive, _submit, the lane's replies, the execution *)
(* process's reply, _cleanup and the stop.  With it the lemmas show how a  *)
(* State evolves (Evolves), which the ledger's proofs need.                *)
(***************************************************************************)
EXTENDS WorkerRuntimeProofs

(* The current WORK and what Sane knows of its jobs. *)
LEMMA NoJobsIdle ==
    ASSUME NEW r, RInv(r), Sane(r), NEW b \in BankIds, NEW s, s # None, s = r.banks[b].current,
           NoJobs(r.records[s])
    PROVE  /\ r.exchange[b] = "NONE"
           /\ r.banks[b].phase \in {"FREE", "FILLING", "READY"}
           /\ r.compute # s
<1>1. /\ CurrentSane(r.records[s], r.banks[b], r.exchange[b])
      /\ r.banks[b] \in BankType
      /\ (r.banks[b].phase = "COMPUTING") <=> (r.compute = s)
  BY CurrentSound
<1>2. r.exchange[b] \in {"NONE", "IMPORT", "EXPORT", "RELEASE"} BY Plain DEF Flags
<1>3. r.records[s].jobs["D2H"] = "NONE" /\ r.records[s].jobs["H2D"] = "NONE" /\ r.records[s].jobs["COMPUTE"] = "NONE"
  BY DEF NoJobs, JobKinds
<1>4. r.exchange[b] = "NONE" BY <1>1, <1>2, <1>3, Zenon DEF CurrentSane, Exchanging
<1>5. r.banks[b].phase # "COMPUTING" /\ r.banks[b].phase # "EXPORTING"
  BY <1>1, <1>3, Zenon DEF CurrentSane, Staged
<1> QED BY <1>1, <1>4, <1>5 DEF BankType, Phases

(* Runtime._finish of a WORK all of whose members are skipped, by the lane. *)
LEMMA FinishByLane ==
    ASSUME NEW r, RInv(r), Sane(r), NEW b \in BankIds, NEW s, s # None, s = r.banks[b].current,
           NoJobs(r.records[s]), AllSkipped(r.records[s]), DirectImports, r.records[s].imported,
           NEW receipts, NEW q, RInv(q), q = Exchange(r, s, "D2H", "RELEASE")
    PROVE  Sane(q) /\ Evolves(r, q, receipts)
<1> DEFINE state == r.records[s]
           bank == r.banks[b]
           st == WithJob(state, "D2H", "RUNNING")
<1>1. /\ s \in DOMAIN r.records /\ state.spec.bank_id = b /\ ~state.physical_done
      /\ state \in StateOf(state.spec) /\ bank \in BankType
      /\ CurrentSane(state, bank, r.exchange[b])
      /\ (bank.phase = "COMPUTING") <=> (r.compute = s)
  BY CurrentSound
<1>2. r.exchange[b] = "NONE" /\ bank.phase \in {"FREE", "FILLING", "READY"} BY NoJobsIdle
<1>3. /\ st.spec = state.spec /\ st.layout = state.layout /\ st.outcomes = state.outcomes
      /\ st.captured = state.captured /\ st.metadata = state.metadata /\ st.plan = state.plan
      /\ st.result = state.result /\ st.imported = state.imported
      /\ st.physical_done = state.physical_done
      /\ st.jobs["D2H"] = "RUNNING" /\ st.jobs["H2D"] = "NONE"
      /\ st.jobs["METADATA"] = "NONE" /\ st.jobs["COMPUTE"] = "NONE"
      /\ state.jobs["D2H"] = "NONE"
  BY <1>1, Zenon DEF WithJob, StateOf, JobKinds, NoJobs
<1>4. /\ Touches(r, q, b, s) /\ q.records[s] = st
      /\ q.banks = r.banks /\ q.exchange[b] = "RELEASE"
      /\ q.compute = r.compute /\ q.command = r.command /\ q.failed = r.failed
  BY <1>1, <1>2, ExchangeTouches
<1> HIDE DEF st
<1>5. Live(st) = Live(state) /\ AllSkipped(st)
  BY <1>3, Zenon DEF Live, AllSkipped
<1>6. CurrentSane(st, bank, "RELEASE")
  <2>1. Staged(st, bank.phase) BY <1>1, <1>2, <1>3, Zenon DEF CurrentSane, Staged, Idle, JobKinds
  <2>2. Skipping(st) BY <1>3, <1>5 DEF Skipping, Idle, JobKinds
  <2>3. Planned(st) BY <1>1, <1>3, <1>5, Zenon DEF CurrentSane, Planned
  <2>4. Exchanging(st, "RELEASE") BY <1>3 DEF Exchanging
  <2> QED BY <1>1, <1>3, <2>1, <2>2, <2>3, <2>4, Zenon DEF CurrentSane
<1>7. Sane(q)
  <2>1. ~st.physical_done BY <1>1, <1>3
  <2>2. CurrentSane(q.records[s], q.banks[b], q.exchange[b]) BY <1>4, <1>6
  <2> QED BY <1>4, <2>1, <2>2, SaneStay
<1>8. StateEvolves(state, st, receipts[b] = s) BY <1>3 DEF StateEvolves, Left
<1> QED BY <1>1, <1>4, <1>7, <1>8, EvolvesChange, Zenon

(* The WORK waiting in a Bank. *)
LEMMA PendingSound ==
    ASSUME NEW r, RInv(r), Sane(r), NEW b \in BankIds, NEW t, t # None, t = r.banks[b].pending
    PROVE  /\ t \in DOMAIN r.records
           /\ t # r.banks[b].current /\ r.banks[b].current # None
           /\ r.records[t].spec.bank_id = b
           /\ ~r.records[t].physical_done
           /\ r.records[t].spec \in Work
           /\ r.records[t] \in StateOf(r.records[t].spec)
           /\ Fresh(r.records[t])
           /\ r.records[r.banks[b].current].spec.bank_epoch < r.records[t].spec.bank_epoch
           /\ r.compute # t
<1>1. /\ t \in DOMAIN r.records
      /\ t # r.banks[b].current /\ r.banks[b].current # None
      /\ r.records[t].spec.bank_id = b
      /\ ~r.records[t].physical_done
  BY DEF RInv, RuntimeType, Owned
<1>2. BankSane(r, b) BY DEF Sane
<1>3. /\ Fresh(r.records[t])
      /\ r.records[r.banks[b].current].spec.bank_epoch < r.records[t].spec.bank_epoch
  BY <1>2 DEF BankSane
<1>4. r.compute # t
  <2>1. r.records[t].jobs["COMPUTE"] = "NONE" BY <1>3 DEF Fresh, NoJobs, JobKinds
  <2>2. r.compute # None => r.command = "COMPUTE" BY DEF Sane, CommandSane
  <2> QED BY <2>1, <2>2, Plain
<1> QED BY <1>1, <1>3, <1>4, StateFacts

(* The State of a WORK that is physically done. *)
Done(st) == [st EXCEPT !.physical_done = TRUE]

(* Done changes physical_done only. *)
LEMMA DoneFields ==
    ASSUME NEW work, NEW st \in StateOf(work)
    PROVE  /\ Done(st).spec = st.spec /\ Done(st).physical_done /\ Done(st).outcomes = st.outcomes
           /\ Done(st).imported = st.imported /\ Done(st).result = st.result
           /\ Done(st).jobs = st.jobs
  BY DEF StateOf, Done

(* Runtime._release: the rows of the current WORK return and the WORK waiting
   behind it becomes current.  p is r, or r without the job that has ended. *)
LEMMA ReleaseSane ==
    ASSUME NEW r, RInv(r), Sane(r), NEW b \in BankIds, NEW s, s # None, s = r.banks[b].current,
           NEW p, RInv(p), Touches(r, p, b, s),
           p.banks = r.banks, p.exchange = r.exchange, p.compute = r.compute,
           p.command = r.command, p.failed = r.failed,
           p.records[s].layout = r.records[s].layout, NoJobs(p.records[s]),
           Live(p.records[s]) = {}, DirectImports => p.records[s].imported,
           r.exchange[b] = "NONE", r.compute # s,
           NEW q, RInv(q), q = Release(p, s)
    PROVE  /\ Sane(q) /\ Touches(r, q, b, s) /\ q.banks[b].epoch = r.banks[b].epoch
           /\ q.records[s] = Done(p.records[s])
<1> DEFINE state == p.records[s]
           bank == p.banks[b]
           next == [bank EXCEPT !.current = bank.pending, !.pending = None]
           freed == [next EXCEPT !.layout = {}, !.phase = "FREE"]
           st == Done(state)
           new == IF state.layout = {} THEN next ELSE freed
           m == Put(p, s, st, new)
<1>1. /\ s \in DOMAIN r.records /\ r.records[s].spec.bank_id = b /\ ~r.records[s].physical_done
      /\ r.records[s].spec \in Work
      /\ CurrentSane(r.records[s], r.banks[b], r.exchange[b])
      /\ r.banks[b] \in BankType
  BY CurrentSound
<1>2. s \in DOMAIN p.records /\ state.spec.bank_id = b /\ state \in StateOf(state.spec) /\ bank \in BankType
  <2>1. s \in DOMAIN p.records BY <1>1 DEF Touches
  <2> QED BY <1>1, <2>1, StateFacts, Zenon DEF Touches
<1>3. bank.layout = state.layout BY <1>1, Zenon DEF CurrentSane
<1>4. /\ q.records = m.records /\ q.banks = m.banks /\ q.exchange = m.exchange
      /\ q.compute = m.compute /\ q.command = m.command /\ q.failed = m.failed
      /\ q.draining = m.draining /\ q.shutting_down = m.shutting_down
  <2>1. \/ state.layout = {} /\ q = Put(p, s, st, next)
        \/ state.layout # {} /\ q = [Put(p, s, st, freed) EXCEPT !.free_rows = p.free_rows \cup bank.layout]
    BY <1>2, <1>3, Zenon DEF Release, Done
  <2> HIDE DEF next, freed, st, bank
  <2>2. q = m \/ q = [m EXCEPT !.free_rows = p.free_rows \cup bank.layout] BY <2>1, Zenon
  <2>3. DOMAIN m = DOMAIN p BY DEF Put
  <2> HIDE DEF m, new
  <2> QED BY <2>2, <2>3, Plain
<1>5. /\ st.spec = state.spec /\ st.physical_done /\ st.outcomes = state.outcomes
      /\ st.imported = state.imported
  BY <1>2, DoneFields
<1>6. /\ new.current = bank.pending /\ new.pending = None /\ new.layout = {} /\ new.phase = "FREE"
      /\ new.epoch = bank.epoch
  <2>1. state.layout = {} => bank.phase = "FREE" BY <1>1, <1>3, Zenon DEF CurrentSane
  <2> QED BY <1>2, <1>3, <2>1, Zenon DEF BankType
<1> HIDE DEF new, st, m
<1>7. /\ Touches(p, m, b, s) /\ m.records[s] = st /\ m.banks[b] = new /\ m.exchange = p.exchange
      /\ m.compute = p.compute /\ m.command = p.command /\ m.failed = p.failed
  BY <1>2, <1>5, PutTouches DEF m
<1>8. /\ Touches(r, q, b, s) /\ q.records[s] = st /\ q.banks[b] = new /\ q.exchange = r.exchange
      /\ q.compute = r.compute /\ q.command = r.command /\ q.failed = r.failed
  <2>1. Touches(r, q, b, s) BY <1>4, <1>7 DEF Touches
  <2> QED BY <1>4, <1>7, <2>1
<1>9. Live(q.records[s]) = {} /\ (DirectImports => q.records[s].imported) /\ q.records[s].physical_done
  <2>1. Live(st) = Live(state) BY <1>5, Zenon DEF Live
  <2> QED BY <1>5, <1>8, <2>1
<1>10. BankSane(q, b)
  <2> DEFINE t == r.banks[b].pending
  <2>0. new.current = t BY <1>6
  <2>1. CASE t = None
    <3>1. q.banks[b].current = None /\ q.banks[b].pending = None BY <1>6, <1>8, <2>0, <2>1
    <3> QED BY <1>6, <1>8, <3>1 DEF BankSane
  <2>2. CASE t # None
    <3> HIDE DEF t
    <3>1. /\ t \in DOMAIN r.records /\ t # s /\ r.records[t].spec \in Work
          /\ Fresh(r.records[t]) /\ r.records[s].spec.bank_epoch < r.records[t].spec.bank_epoch
          /\ r.compute # t
      BY <2>2, PendingSound DEF t
    <3>2. Fresh(r.records[t]) BY <3>1
    <3>3. q.records[t] = r.records[t] BY <1>8, <3>1, Zenon DEF Touches
    <3>4. r.banks[b].epoch < r.records[t].spec.bank_epoch
      <4>1. /\ r.banks[b].epoch \in Nat /\ r.records[s].spec.bank_epoch \in Nat
            /\ r.records[t].spec.bank_epoch \in Nat
        BY <1>1, <3>1, Zenon DEF BankType, Work
      <4>2. \/ r.banks[b].epoch < r.records[s].spec.bank_epoch
            \/ r.banks[b].epoch = r.records[s].spec.bank_epoch
        BY <1>1, Zenon DEF CurrentSane
      <4> QED BY <3>1, <4>1, <4>2
    <3>5. CurrentSane(r.records[t], new, "NONE")
      <4>1. Staged(r.records[t], "FREE") /\ Skipping(r.records[t])
        BY <3>2 DEF Fresh, Staged, Skipping, Idle, NoJobs, JobKinds
      <4>2. Planned(r.records[t]) BY <3>2 DEF Fresh, Planned
      <4>3. Exchanging(r.records[t], "NONE") BY <3>2 DEF Fresh, NoJobs, Exchanging, JobKinds
      <4>4. Cardinality({}) <= r.records[t].spec.rows
        BY <3>1, FS_EmptySet, MaxBatchSizeAssumption DEF Work
      <4>5. r.records[t].layout = {} BY <3>2 DEF Fresh
      <4> QED BY <1>6, <3>4, <4>1, <4>2, <4>3, <4>4, <4>5 DEF CurrentSane
    <3>6. q.compute # t BY <1>8, <3>1
    <3> QED BY <1>6, <1>8, <2>0, <2>2, <3>3, <3>5, <3>6 DEF BankSane
  <2> QED BY <2>1, <2>2
<1>11. CommandSane(q)
  BY <1>8 DEF Sane, CommandSane, Touches
<1>12. ~q.failed BY <1>8 DEF Sane
<1>13. Respects(r, q, b, s)
  BY <1>6, <1>8, <1>9, <1>10, <1>11, <1>12 DEF Respects
<1>14. Sane(q) BY <1>13, SaneChange
<1> QED BY <1>6, <1>8, <1>14 DEF st

(* Runtime._advance: a WORK none of whose members will run. *)
LEMMA FinishSkippedSane ==
    ASSUME NEW r, RInv(r), Sane(r), NEW b \in BankIds, NEW s, s # None, s = r.banks[b].current,
           AllSkipped(r.records[s]),
           NEW receipts, NEW q, RInv(q), q = FinishSkipped(r, s)
    PROVE  Sane(q) /\ Evolves(r, q, receipts)
<1>1. CASE q = r BY <1>1, EvolvesNot
<1>2. CASE NoJobs(r.records[s]) /\ DirectImports /\ r.records[s].imported /\ q = Exchange(r, s, "D2H", "RELEASE")
  BY <1>2, FinishByLane
<1>3. CASE NoJobs(r.records[s]) /\ ~DirectImports /\ q = Release(r, s)
  <2>1. /\ s \in DOMAIN r.records /\ r.records[s].spec.bank_id = b /\ ~r.records[s].physical_done
        /\ r.records[s] \in StateOf(r.records[s].spec)
    BY CurrentSound
  <2>2. Live(r.records[s]) = {} BY DEF AllSkipped, Live, Skipped
  <2>3. Touches(r, r, b, s) BY DEF Touches
  <2>4. /\ Sane(q) /\ Touches(r, q, b, s) /\ q.banks[b].epoch = r.banks[b].epoch
        /\ q.records[s] = Done(r.records[s])
    BY <1>3, <2>2, <2>3, NoJobsIdle, ReleaseSane
  <2>5. StateEvolves(r.records[s], q.records[s], receipts[b] = s)
    BY <1>3, <2>1, <2>4, DoneFields DEF StateEvolves
  <2> QED BY <2>1, <2>4, <2>5, EvolvesChange
<1> QED BY <1>1, <1>2, <1>3, Zenon DEF FinishSkipped, Finish

(* Runtime._advance from the compiled plan on. *)
LEMMA PrepareSane ==
    ASSUME NEW r, RInv(r), Sane(r), NEW b \in BankIds, NEW s, s # None, s = r.banks[b].current,
           r.records[s].layout # {}, ~AllSkipped(r.records[s]),
           NEW receipts, NEW p, p = SetState(r, s, Compile(r.records[s])),
           NEW q, RInv(q), q = JoinImport(p, s)
    PROVE  Sane(q) /\ Evolves(r, q, receipts)
<1>1. RInv(p) /\ Sane(p) /\ Evolves(r, p, receipts) BY CompileSane
<1>3. p.records[s].layout = r.records[s].layout BY CompileSane
<1>4. ~AllSkipped(p.records[s]) BY CompileSane
<1>5. p.banks[b].current = s BY CompileSane
<1>2. Sane(q) /\ Evolves(p, q, receipts) BY <1>1, <1>3, <1>4, <1>5, JoinImportSane, Zenon
<1> QED BY <1>1, <1>2, EvolvesAgain, Zenon

(* Runtime._advance. *)
LEMMA AdvanceSane ==
    ASSUME NEW r, RInv(r), Sane(r), NEW b \in BankIds, NEW receipts,
           NEW q, RInv(q), q = Advance(r, b, receipts[b])
    PROVE  Sane(q) /\ Evolves(r, q, receipts)
<1> DEFINE s == r.banks[b].current
           received == TakeReceipt(r, s, receipts[b])
           laidOut == LayOut(received, s)
           compiled == SetState(laidOut, s, Compile(laidOut.records[s]))
<1>1. CASE s = None BY <1>1, EvolvesNot DEF Advance
<1>2. CASE s # None
  <2> HIDE DEF received, laidOut, compiled
  <2>1. RInv(received) /\ received.banks[b].current = s BY <1>2, TakeReceiptInv DEF received
  <2>2. Sane(received) /\ Evolves(r, received, receipts) BY <1>2, TakeReceiptSane DEF received
  <2>3. CASE AllSkipped(received.records[s])
    <3>1. q = FinishSkipped(received, s) BY <1>2, <2>3 DEF Advance, received
    <3>2. Sane(q) /\ Evolves(received, q, receipts) BY <1>2, <2>1, <2>2, <2>3, <3>1, FinishSkippedSane
    <3> QED BY <2>1, <2>2, <3>2, EvolvesAgain
  <2>4. CASE ~AllSkipped(received.records[s])
    <3>1. /\ RInv(laidOut) /\ Sane(laidOut) /\ Evolves(received, laidOut, receipts)
          /\ ~AllSkipped(laidOut.records[s]) /\ laidOut.banks[b].current = s
      BY <1>2, <2>1, <2>2, <2>4, LayOutSane DEF laidOut
    <3>2. Evolves(r, laidOut, receipts) BY <2>1, <2>2, <3>1, EvolvesAgain
    <3>3. CASE laidOut.records[s].layout = {}
      <4>1. q = laidOut BY <1>2, <2>4, <3>3 DEF Advance, received, laidOut
      <4> QED BY <3>1, <3>2, <4>1
    <3>4. CASE laidOut.records[s].layout # {}
      <4>1. ~laidOut.failed BY <3>1 DEF Sane
      <4>2. q = JoinImport(compiled, s)
        BY <1>2, <2>4, <3>4, <4>1, Zenon DEF Advance, Prepare, received, laidOut, compiled, SetState
      <4>3. compiled = SetState(laidOut, s, Compile(laidOut.records[s])) BY DEF compiled
      <4>4. Sane(q) /\ Evolves(laidOut, q, receipts)
        BY <1>2, <3>1, <3>4, <4>2, <4>3, PrepareSane
      <4> QED BY <2>1, <3>1, <3>2, <4>4, EvolvesAgain
    <3> QED BY <3>3, <3>4
  <2> QED BY <2>3, <2>4
<1> QED BY <1>1, <1>2

-----------------------------------------------------------------------------
(* Runtime._dispatch_compute. *)
LEMMA DispatchSane ==
    ASSUME NEW r, RInv(r), Sane(r), NEW receipts, NEW q, RInv(q), q = DispatchCompute(r)
    PROVE  Sane(q) /\ Evolves(r, q, receipts)
<1> DEFINE s == Oldest(Eligible(r))
           state == r.records[s]
           b == state.spec.bank_id
           st == WithJob(state, "COMPUTE", "RUNNING")
           bank == [r.banks[b] EXCEPT !.phase = "COMPUTING"]
           p == Put(r, s, st, bank)
<1>1. CASE q = r BY <1>1, EvolvesNot
<1>2. CASE Eligible(r) # {} /\ r.compute = None
  <2> HIDE DEF s
  <2>1. s \in Eligible(r) BY <1>2, OldestEligible DEF s
  <2>2. /\ s \in DOMAIN r.records /\ r.banks[b].current = s /\ r.banks[b].phase = "READY"
        /\ state.plan # {} /\ NoJobs(state) /\ Live(state) # {}
    BY <2>1 DEF Eligible
  <2>3. b \in BankIds /\ s # None BY <2>2, StateFacts DEF Seqs
  <2> HIDE DEF b
  <2>4. /\ state.spec.bank_id = b /\ ~state.physical_done
        /\ state \in StateOf(state.spec) /\ r.banks[b] \in BankType
        /\ CurrentSane(state, r.banks[b], r.exchange[b])
    BY <2>2, <2>3, CurrentSound
  <2>5. r.exchange[b] = "NONE" BY <2>2, <2>3, NoJobsIdle
  <2>6. r.command = "NONE"
    <3>1. r.command # "SHUTDOWN" /\ r.command # "COMPUTE" BY <1>2, <2>2 DEF Sane, CommandSane
    <3> QED BY <3>1, Plain DEF Flags
  <2>7. q = [p EXCEPT !.compute = s, !.command = "COMPUTE"]
    BY <1>2, <2>6 DEF DispatchCompute, s, b, WithJob
  <2>8. /\ st.spec = state.spec /\ st.layout = state.layout /\ st.outcomes = state.outcomes
        /\ st.captured = state.captured /\ st.metadata = state.metadata /\ st.plan = state.plan
        /\ st.result = state.result /\ st.imported = state.imported
        /\ st.physical_done = state.physical_done
        /\ st.jobs["COMPUTE"] = "RUNNING" /\ st.jobs["H2D"] = "NONE"
        /\ st.jobs["METADATA"] = "NONE" /\ st.jobs["D2H"] = "NONE"
        /\ state.jobs["D2H"] = "NONE" /\ state.jobs["H2D"] = "NONE"
    BY <2>2, <2>4 DEF WithJob, StateOf, JobKinds, NoJobs
  <2>9. /\ bank.current = s /\ bank.pending = r.banks[b].pending /\ bank.phase = "COMPUTING"
        /\ bank.layout = r.banks[b].layout /\ bank.epoch = r.banks[b].epoch
    BY <2>2, <2>4 DEF BankType
  <2> HIDE DEF st, bank, p
  <2>10. /\ Touches(r, p, b, s) /\ p.records[s] = st /\ p.banks[b] = bank /\ p.exchange = r.exchange
         /\ p.failed = r.failed
    BY <2>2, <2>3, <2>4, <2>8, PutTouches DEF p
  <2>11. DOMAIN p = DOMAIN r BY DEF p, Put
  <2>12. /\ q.records = p.records /\ q.banks = p.banks /\ q.exchange = p.exchange
         /\ q.compute = s /\ q.command = "COMPUTE" /\ q.failed = p.failed
         /\ q.draining = p.draining /\ q.shutting_down = p.shutting_down
    BY <2>7, <2>11, Plain
  <2>13. /\ Touches(r, q, b, s) /\ q.records[s] = st /\ q.banks[b] = bank /\ q.exchange = r.exchange
         /\ q.failed = r.failed
    <3>1. Touches(r, q, b, s) BY <2>10, <2>12 DEF Touches
    <3> QED BY <2>10, <2>12, <3>1
  <2>14. Live(st) = Live(state) BY <2>8 DEF Live
  <2>15. CurrentSane(st, bank, "NONE")
    <3>1. st.plan = Live(st) /\ st.plan # {}
      BY <2>2, <2>4, <2>8, <2>14 DEF CurrentSane, Planned
    <3>2. Staged(st, "COMPUTING")
      BY <2>2, <2>4, <2>8, <3>1 DEF CurrentSane, Staged, Idle, JobKinds
    <3>3. Skipping(st) /\ Exchanging(st, "NONE") BY <2>8 DEF Skipping, Exchanging
    <3>4. Planned(st) BY <2>4, <2>8, <2>14 DEF CurrentSane, Planned
    <3> QED BY <2>2, <2>4, <2>8, <2>9, <3>2, <3>3, <3>4 DEF CurrentSane
  <2>16. BankSane(q, b)
    <3> DEFINE t == r.banks[b].pending
    <3>1. t # None => /\ Fresh(q.records[t])
                      /\ q.records[s].spec.bank_epoch < q.records[t].spec.bank_epoch
      <4> SUFFICES ASSUME t # None
                   PROVE  /\ Fresh(q.records[t])
                          /\ q.records[s].spec.bank_epoch < q.records[t].spec.bank_epoch
        OBVIOUS
      <4>1. /\ t \in DOMAIN r.records /\ t # s /\ Fresh(r.records[t])
            /\ r.records[s].spec.bank_epoch < r.records[t].spec.bank_epoch
        BY <2>2, <2>3, PendingSound
      <4> QED BY <2>8, <2>13, <4>1 DEF Touches
    <3> QED BY <2>3, <2>5, <2>9, <2>12, <2>13, <2>15, <3>1 DEF BankSane
  <2>17. CommandSane(q) BY <2>3, <2>12 DEF CommandSane
  <2>18. Respects(r, q, b, s)
    <3>1. ~q.failed BY <2>13 DEF Sane
    <3>2. ~q.records[s].physical_done BY <2>4, <2>8, <2>13
    <3> QED BY <1>2, <2>2, <2>3, <2>9, <2>12, <2>13, <2>16, <2>17, <3>1, <3>2 DEF Respects
  <2>19. Sane(q) BY <2>18, SaneChange
  <2>20. StateEvolves(state, st, receipts[b] = s) BY <2>8 DEF StateEvolves, Left
  <2>21. Evolves(r, q, receipts) BY <2>2, <2>3, <2>4, <2>9, <2>13, <2>20, EvolvesChange
  <2> QED BY <2>19, <2>21
<1> QED BY <1>1, <1>2 DEF DispatchCompute

(* One Bank of Runtime.step: its advance and the dispatch after it. *)
LEMMA StepBankSane ==
    ASSUME NEW r, RInv(r), Sane(r), NEW b \in BankIds, NEW receipts,
           NEW q, q = StepBank(r, b, receipts[b])
    PROVE  RInv(q) /\ Sane(q) /\ Evolves(r, q, receipts)
<1> DEFINE advanced == Advance(r, b, receipts[b])
<1>1. RInv(advanced) BY AdvanceInv
<1>2. Sane(advanced) /\ Evolves(r, advanced, receipts) BY <1>1, AdvanceSane
<1>3. q = DispatchCompute(advanced)
  <2>1. ~r.failed /\ ~advanced.failed BY <1>2 DEF Sane
  <2> QED BY <2>1 DEF StepBank
<1> HIDE DEF advanced
<1>4. RInv(q) BY <1>1, <1>3, DispatchInv
<1>5. Sane(q) /\ Evolves(advanced, q, receipts) BY <1>1, <1>2, <1>3, <1>4, DispatchSane
<1> QED BY <1>1, <1>2, <1>4, <1>5, EvolvesAgain

-----------------------------------------------------------------------------
(* A WORK with a job is the current one of its Bank. *)
LEMMA JobCurrent ==
    ASSUME NEW r, RInv(r), NEW s \in DOMAIN r.records, NEW kind \in JobKinds, r.records[s].jobs[kind] # "NONE"
    PROVE  /\ s # None /\ r.records[s].spec.bank_id \in BankIds
           /\ r.banks[r.records[s].spec.bank_id].current = s
  BY StateFacts DEF NoJobs, Seqs

(* The fields of WithJob. *)
LEMMA WithJobFields ==
    ASSUME NEW work, NEW st \in StateOf(work), NEW kind \in JobKinds, NEW status
    PROVE  /\ WithJob(st, kind, status).spec = st.spec
           /\ WithJob(st, kind, status).layout = st.layout
           /\ WithJob(st, kind, status).outcomes = st.outcomes
           /\ WithJob(st, kind, status).captured = st.captured
           /\ WithJob(st, kind, status).metadata = st.metadata
           /\ WithJob(st, kind, status).plan = st.plan
           /\ WithJob(st, kind, status).result = st.result
           /\ WithJob(st, kind, status).imported = st.imported
           /\ WithJob(st, kind, status).physical_done = st.physical_done
           /\ WithJob(st, kind, status).jobs[kind] = status
           /\ \A k \in JobKinds : k # kind => WithJob(st, kind, status).jobs[k] = st.jobs[k]
  BY DEF WithJob, StateOf

(* Clearing the job that has ended. *)
LEMMA ClearJob ==
    ASSUME NEW r, RInv(r), NEW b \in BankIds, NEW s, s # None, s = r.banks[b].current,
           NEW kind \in JobKinds, NEW status \in JobStates,
           kind = "COMPUTE" => status = "NONE" /\ r.command # "COMPUTE",
           NEW p, p = SetJob(r, s, kind, status)
    PROVE  /\ RInv(p) /\ Touches(r, p, b, s) /\ p.records[s] = WithJob(r.records[s], kind, status)
           /\ p.banks = r.banks /\ p.exchange = r.exchange
           /\ p.compute = r.compute /\ p.command = r.command /\ p.failed = r.failed
<1> DEFINE st == WithJob(r.records[s], kind, status)
<1>1. RInv(p) BY SetJobInv
<1>2. p = SetState(r, s, st) BY DEF SetJob, SetState, WithJob
<1>3. s \in DOMAIN r.records /\ r.records[s] \in StateOf(r.records[s].spec)
  BY CurrentFacts DEF BankIds
<1>4. st.spec = r.records[s].spec BY <1>3, WithJobFields
<1> HIDE DEF st
<1>5. /\ Touches(r, p, b, s) /\ p.records[s] = st
      /\ p.banks = r.banks /\ p.exchange = r.exchange
      /\ p.compute = r.compute /\ p.command = r.command /\ p.failed = r.failed
  BY <1>2, <1>3, <1>4, SetStateTouches
<1> QED BY <1>1, <1>5 DEF st

(* The metadata of a WORK is on the device. *)
Described(st) == [st EXCEPT !.metadata = TRUE]
(* A State whose imports are on the device. *)
Imported(st) == [st EXCEPT !.imported = TRUE]

(* Runtime._handle of the METADATA job: the Bank may become READY. *)
LEMMA HandleMetadataSane ==
    ASSUME NEW r, RInv(r), Sane(r), NEW s \in DOMAIN r.records, r.records[s].jobs["METADATA"] # "NONE",
           NEW receipts, NEW q, RInv(q), q = Handle(r, s, "METADATA")
    PROVE  Sane(q) /\ Evolves(r, q, receipts)
<1> DEFINE state == r.records[s]
           b == state.spec.bank_id
           idle == WithJob(state, "METADATA", "NONE")
           st == Described(idle)
           p == SetJob(r, s, "METADATA", "NONE")
<1>1. s # None /\ b \in BankIds /\ r.banks[b].current = s BY JobCurrent DEF JobKinds
<1> HIDE DEF b
<1>2. /\ state.spec.bank_id = b /\ ~state.physical_done
      /\ state \in StateOf(state.spec) /\ r.banks[b] \in BankType
      /\ CurrentSane(state, r.banks[b], r.exchange[b])
  BY <1>1, CurrentSound
<1>3. /\ RInv(p) /\ Touches(r, p, b, s) /\ p.records[s] = idle
      /\ p.banks = r.banks /\ p.exchange = r.exchange
      /\ p.compute = r.compute /\ p.command = r.command /\ p.failed = r.failed
  BY <1>1, ClearJob DEF JobKinds, JobStates
<1>4. q = SetState(p, s, Described(p.records[s]))
  BY DEF Handle, Apply, SetState, Described
<1> HIDE DEF p
<1>5. idle \in StateOf(state.spec) BY <1>2 DEF WithJob, StateOf, JobKinds, JobStates
<1>6. /\ idle.spec = state.spec /\ idle.layout = state.layout /\ idle.outcomes = state.outcomes
      /\ idle.captured = state.captured /\ idle.plan = state.plan
      /\ idle.result = state.result /\ idle.imported = state.imported
      /\ idle.physical_done = state.physical_done
      /\ idle.jobs["METADATA"] = "NONE" /\ idle.jobs["H2D"] = state.jobs["H2D"]
      /\ idle.jobs["COMPUTE"] = state.jobs["COMPUTE"] /\ idle.jobs["D2H"] = state.jobs["D2H"]
  BY <1>2, WithJobFields DEF JobKinds
<1> HIDE DEF idle
<1>7. /\ st.spec = state.spec /\ st.layout = state.layout /\ st.outcomes = state.outcomes
      /\ st.captured = state.captured /\ st.plan = state.plan
      /\ st.result = state.result /\ st.imported = state.imported
      /\ st.physical_done = state.physical_done /\ st.metadata
      /\ st.jobs["METADATA"] = "NONE" /\ st.jobs["H2D"] = state.jobs["H2D"]
      /\ st.jobs["COMPUTE"] = state.jobs["COMPUTE"] /\ st.jobs["D2H"] = state.jobs["D2H"]
  BY <1>5, <1>6 DEF Described, StateOf
<1> HIDE DEF st
<1>8. /\ Touches(r, q, b, s) /\ q.records[s] = st
      /\ q.banks = r.banks /\ q.exchange = r.exchange
      /\ q.compute = r.compute /\ q.command = r.command /\ q.failed = r.failed
  <2>1. s \in DOMAIN p.records /\ p.records[s].spec = state.spec BY <1>3 DEF Touches
  <2>2. q = SetState(p, s, st) BY <1>3, <1>4 DEF st
  <2>3. st.spec = p.records[s].spec BY <1>7, <2>1
  <2>4. /\ Touches(p, q, b, s) /\ q.records[s] = st
        /\ q.banks = p.banks /\ q.exchange = p.exchange
        /\ q.compute = p.compute /\ q.command = p.command /\ q.failed = p.failed
    BY <1>1, <1>3, <2>1, <2>2, <2>3, SetStateTouches
  <2>5. Touches(r, q, b, s) BY <1>3, <2>4 DEF Touches
  <2> QED BY <1>3, <2>4, <2>5
<1>9. r.banks[b].phase = "FILLING"
  <2>1. r.banks[b].phase \in Phases BY <1>2 DEF BankType
  <2> QED BY <1>2, <2>1 DEF CurrentSane, Staged, Idle, Phases, JobKinds
<1>10. Live(st) = Live(state) /\ (AllSkipped(state) => AllSkipped(st))
  BY <1>7 DEF Live, AllSkipped
<1>11. CurrentSane(st, r.banks[b], r.exchange[b])
  <2>1. Staged(st, "FILLING") BY <1>2, <1>7, <1>9 DEF CurrentSane, Staged, Idle, JobKinds
  <2>2. Skipping(st) BY <1>2, <1>7, <1>10 DEF CurrentSane, Skipping, Idle, JobKinds
  <2>3. Planned(st) BY <1>2, <1>7, <1>10 DEF CurrentSane, Planned
  <2>4. Exchanging(st, r.exchange[b]) BY <1>2, <1>7 DEF CurrentSane, Exchanging
  <2> QED BY <1>2, <1>7, <1>9, <2>1, <2>2, <2>3, <2>4 DEF CurrentSane
<1>12. Sane(q)
  <2>1. ~q.records[s].physical_done BY <1>2, <1>7, <1>8
  <2>2. CurrentSane(q.records[s], q.banks[b], q.exchange[b]) BY <1>8, <1>11
  <2> QED BY <1>1, <1>8, <2>1, <2>2, SaneStay
<1>13. StateEvolves(state, st, receipts[b] = s) BY <1>7 DEF StateEvolves, Left
<1> QED BY <1>1, <1>2, <1>8, <1>12, <1>13, EvolvesChange

(* The host-to-device copy of control has ended. *)
LEMMA HandleCopySane ==
    ASSUME NEW r, RInv(r), Sane(r), NEW s \in DOMAIN r.records, r.records[s].jobs["H2D"] = "DONE",
           NEW receipts, NEW q, RInv(q), q = Handle(r, s, "H2D")
    PROVE  Sane(q) /\ Evolves(r, q, receipts)
<1> DEFINE state == r.records[s]
           b == state.spec.bank_id
           idle == WithJob(state, "H2D", "NONE")
           st == Imported(idle)
           p == SetJob(r, s, "H2D", "NONE")
           bank == [r.banks[b] EXCEPT !.phase = "READY"]
<1>1. s # None /\ b \in BankIds /\ r.banks[b].current = s BY JobCurrent DEF JobKinds
<1> HIDE DEF b
<1>2. /\ state.spec.bank_id = b /\ ~state.physical_done
      /\ state \in StateOf(state.spec) /\ r.banks[b] \in BankType
      /\ CurrentSane(state, r.banks[b], r.exchange[b])
  BY <1>1, CurrentSound
<1>3. /\ RInv(p) /\ Touches(r, p, b, s) /\ p.records[s] = idle
      /\ p.banks = r.banks /\ p.exchange = r.exchange
      /\ p.compute = r.compute /\ p.command = r.command /\ p.failed = r.failed
  BY <1>1, ClearJob DEF JobKinds, JobStates
<1>4. q = Put(p, s, Imported(p.records[s]), [p.banks[p.records[s].spec.bank_id] EXCEPT !.phase = "READY"])
  BY DEF Handle, Apply, Imported
<1> HIDE DEF p
<1>5. idle \in StateOf(state.spec) BY <1>2 DEF WithJob, StateOf, JobKinds, JobStates
<1>6. /\ idle.spec = state.spec /\ idle.layout = state.layout /\ idle.outcomes = state.outcomes
      /\ idle.captured = state.captured /\ idle.plan = state.plan
      /\ idle.result = state.result /\ idle.metadata = state.metadata
      /\ idle.physical_done = state.physical_done
      /\ idle.jobs["H2D"] = "NONE" /\ idle.jobs["METADATA"] = state.jobs["METADATA"]
      /\ idle.jobs["COMPUTE"] = state.jobs["COMPUTE"] /\ idle.jobs["D2H"] = state.jobs["D2H"]
  BY <1>2, WithJobFields DEF JobKinds
<1> HIDE DEF idle
<1>7. /\ st.spec = state.spec /\ st.layout = state.layout /\ st.outcomes = state.outcomes
      /\ st.captured = state.captured /\ st.plan = state.plan
      /\ st.result = state.result /\ st.imported /\ st.metadata = state.metadata
      /\ st.physical_done = state.physical_done
      /\ st.jobs["H2D"] = "NONE" /\ st.jobs["METADATA"] = state.jobs["METADATA"]
      /\ st.jobs["COMPUTE"] = state.jobs["COMPUTE"] /\ st.jobs["D2H"] = state.jobs["D2H"]
  BY <1>5, <1>6 DEF Imported, StateOf
<1>8. /\ bank.phase = "READY" /\ bank.current = s /\ bank.pending = r.banks[b].pending
      /\ bank.layout = r.banks[b].layout /\ bank.epoch = r.banks[b].epoch
  BY <1>1, <1>2 DEF BankType
<1>9. q = Put(p, s, st, bank) BY <1>2, <1>3, <1>4, <1>6
<1> HIDE DEF st, bank
<1>10. /\ Touches(r, q, b, s) /\ q.records[s] = st
       /\ q.banks[b] = bank /\ q.exchange = r.exchange
       /\ q.compute = r.compute /\ q.command = r.command /\ q.failed = r.failed
  <2>1. s \in DOMAIN p.records /\ p.records[s].spec = state.spec BY <1>3 DEF Touches
  <2>2. st.spec = p.records[s].spec /\ st.spec.bank_id = b BY <1>2, <1>7, <2>1
  <2>3. /\ Touches(p, q, b, s) /\ q.records[s] = st
        /\ q.banks[b] = bank /\ q.exchange = p.exchange
        /\ q.compute = p.compute /\ q.command = p.command /\ q.failed = p.failed
    BY <1>1, <1>3, <1>9, <2>1, <2>2, PutTouches
  <2>4. Touches(r, q, b, s) BY <1>3, <2>3 DEF Touches
  <2> QED BY <1>3, <2>3, <2>4
<1>11. r.banks[b].phase = "FILLING" /\ ~DirectImports
  <2>1. r.banks[b].phase \in Phases BY <1>2 DEF BankType
  <2> QED BY <1>2, <2>1 DEF CurrentSane, Staged, Idle, Phases, JobKinds
<1>12. /\ state.metadata /\ state.jobs["METADATA"] = "NONE" /\ state.jobs["COMPUTE"] = "NONE"
       /\ state.jobs["D2H"] = "NONE" /\ ~state.result
  BY <1>2, <1>11 DEF CurrentSane, Staged, Skipping, Idle, JobKinds
<1>13. Live(st) = Live(state) BY <1>7 DEF Live
<1>14. CurrentSane(st, bank, r.exchange[b])
  <2>1. Staged(st, "READY") BY <1>7, <1>12 DEF Staged, Idle, JobKinds
  <2>2. Skipping(st) BY <1>7, <1>12 DEF Skipping
  <2>3. Planned(st) BY <1>2, <1>7, <1>13 DEF CurrentSane, Planned
  <2>4. Exchanging(st, r.exchange[b]) BY <1>2, <1>7 DEF CurrentSane, Exchanging
  <2> QED BY <1>2, <1>7, <1>8, <1>11, <2>1, <2>2, <2>3, <2>4 DEF CurrentSane
<1>15. Sane(q)
  <2>1. ~q.records[s].physical_done BY <1>2, <1>7, <1>10
  <2>2. CurrentSane(q.records[s], q.banks[b], q.exchange[b]) BY <1>10, <1>14
  <2>3. q.banks[b].phase # "COMPUTING" /\ r.banks[b].phase # "COMPUTING" BY <1>8, <1>10, <1>11
  <2> QED BY <1>1, <1>8, <1>10, <2>1, <2>2, <2>3, SaneStay
<1>16. StateEvolves(state, st, receipts[b] = s) BY <1>7, <1>11 DEF StateEvolves
<1> QED BY <1>1, <1>2, <1>8, <1>10, <1>15, <1>16, EvolvesChange

(* The export (or the release of a skipped WORK) has ended. *)
LEMMA HandleExportSane ==
    ASSUME NEW r, RInv(r), Sane(r), NEW s \in DOMAIN r.records, r.records[s].jobs["D2H"] = "DONE",
           NEW receipts, NEW q, RInv(q), q = Handle(r, s, "D2H")
    PROVE  Sane(q) /\ Evolves(r, q, receipts)
<1> DEFINE state == r.records[s]
           b == state.spec.bank_id
           idle == WithJob(state, "D2H", "NONE")
           p == SetJob(r, s, "D2H", "NONE")
<1>1. s # None /\ b \in BankIds /\ r.banks[b].current = s BY JobCurrent DEF JobKinds
<1> HIDE DEF b
<1>2. /\ state.spec.bank_id = b /\ ~state.physical_done
      /\ state \in StateOf(state.spec) /\ r.banks[b] \in BankType
      /\ CurrentSane(state, r.banks[b], r.exchange[b])
      /\ ((r.banks[b].phase = "COMPUTING") <=> (r.compute = s))
  BY <1>1, CurrentSound
<1>3. /\ RInv(p) /\ Touches(r, p, b, s) /\ p.records[s] = idle
      /\ p.banks = r.banks /\ p.exchange = r.exchange
      /\ p.compute = r.compute /\ p.command = r.command /\ p.failed = r.failed
  BY <1>1, ClearJob DEF JobKinds, JobStates
<1>4. q = Release(p, s) BY DEF Handle, Apply
<1> HIDE DEF p
<1>5. idle \in StateOf(state.spec) BY <1>2 DEF WithJob, StateOf, JobKinds, JobStates
<1>6. /\ idle.spec = state.spec /\ idle.layout = state.layout /\ idle.outcomes = state.outcomes
      /\ idle.result = state.result /\ idle.imported = state.imported
      /\ idle.jobs["D2H"] = "NONE" /\ idle.jobs["METADATA"] = state.jobs["METADATA"]
      /\ idle.jobs["COMPUTE"] = state.jobs["COMPUTE"] /\ idle.jobs["H2D"] = state.jobs["H2D"]
  BY <1>2, WithJobFields DEF JobKinds
<1> HIDE DEF idle
<1>7. Idle(state, {"D2H"}) /\ state.imported /\ Live(state) = {} /\ r.banks[b].phase # "COMPUTING"
  <2>1. CASE state.result
    <3>1. r.banks[b].phase \in Phases BY <1>2 DEF BankType
    <3>2. r.banks[b].phase = "EXPORTING" BY <1>2, <2>1, <3>1 DEF CurrentSane, Staged, Phases
    <3> QED BY <1>2, <3>2 DEF CurrentSane, Staged
  <2>2. CASE ~state.result
    <3>1. AllSkipped(state) /\ state.imported /\ Idle(state, {"D2H"})
      BY <1>2, <2>2 DEF CurrentSane, Skipping
    <3>2. Live(state) = {} BY <3>1 DEF Live, AllSkipped, Skipped
    <3>3. r.banks[b].phase # "COMPUTING" BY <1>2, <3>1 DEF CurrentSane, Staged, Idle, JobKinds
    <3> QED BY <3>1, <3>2, <3>3
  <2> QED BY <2>1, <2>2
<1>8. NoJobs(idle) BY <1>6, <1>7 DEF NoJobs, Idle, JobKinds
<1>9. Live(idle) = {} BY <1>6, <1>7 DEF Live
<1>10. r.exchange[b] = "NONE"
  <2>1. state.jobs["H2D"] = "NONE" BY <1>7 DEF Idle, JobKinds
  <2>2. r.exchange[b] \in {"NONE", "IMPORT", "EXPORT", "RELEASE"} BY <1>1, Plain DEF Flags
  <2> QED BY <1>2, <2>1, <2>2 DEF CurrentSane, Exchanging
<1>11. /\ Sane(q) /\ Touches(r, q, b, s) /\ q.banks[b].epoch = r.banks[b].epoch
       /\ q.records[s] = Done(p.records[s])
  <2>1. p.records[s].layout = r.records[s].layout /\ NoJobs(p.records[s]) /\ Live(p.records[s]) = {}
    BY <1>3, <1>6, <1>8, <1>9
  <2>2. DirectImports => p.records[s].imported BY <1>3, <1>6, <1>7
  <2>3. r.compute # s BY <1>2, <1>7
  <2> QED BY <1>1, <1>3, <1>4, <1>10, <2>1, <2>2, <2>3, ReleaseSane
<1>12. StateEvolves(state, q.records[s], receipts[b] = s)
  <2>1. /\ q.records[s].spec = state.spec /\ q.records[s].physical_done
        /\ q.records[s].result = state.result /\ q.records[s].imported = state.imported
    BY <1>3, <1>5, <1>6, <1>11, DoneFields
  <2> QED BY <2>1 DEF StateEvolves, Left
<1> QED BY <1>1, <1>2, <1>11, <1>12, EvolvesChange

(* The State of a WORK whose live members have been executed. *)
Executed(st) ==
    [st EXCEPT !.result = TRUE,
               !.outcomes = [i \in DOMAIN @ |-> IF i \in st.plan THEN "EXECUTED" ELSE @[i]]]

(* Executed changes the result and the outcomes of the planned members. *)
LEMMA ExecutedFields ==
    ASSUME NEW work, NEW st \in StateOf(work), st.plan = Live(st)
    PROVE  /\ Executed(st) \in StateOf(work)
           /\ Executed(st).spec = st.spec /\ Executed(st).layout = st.layout
           /\ Executed(st).captured = st.captured /\ Executed(st).plan = st.plan
           /\ Executed(st).metadata = st.metadata /\ Executed(st).imported = st.imported
           /\ Executed(st).physical_done = st.physical_done /\ Executed(st).jobs = st.jobs
           /\ Executed(st).result /\ Live(Executed(st)) = {}
<1>1. /\ Executed(st) \in StateOf(work)
      /\ Executed(st).spec = st.spec /\ Executed(st).layout = st.layout
      /\ Executed(st).captured = st.captured /\ Executed(st).plan = st.plan
      /\ Executed(st).metadata = st.metadata /\ Executed(st).imported = st.imported
      /\ Executed(st).physical_done = st.physical_done /\ Executed(st).jobs = st.jobs
      /\ Executed(st).result
  BY DEF Executed, StateOf, Outcomes
<1>2. Executed(st).outcomes = [i \in DOMAIN st.outcomes |-> IF i \in st.plan THEN "EXECUTED" ELSE st.outcomes[i]]
  BY DEF Executed, StateOf
<1>3. Live(Executed(st)) = {} BY <1>2 DEF Live
<1> QED BY <1>1, <1>3

(* The result has been taken off the ring of the execution process. *)
Answered(r) == [r EXCEPT !.command = "NONE"]

(* ControlRuntime.step: the model result of the WORK in the compute slot. *)
LEMMA HandleResultSane ==
    ASSUME NEW r, RInv(r), Sane(r), r.command = "COMPUTE", NEW s, s = r.compute,
           NEW receipts, NEW e, e = Answered(r),
           NEW q, RInv(q), q = Handle(e, s, "COMPUTE")
    PROVE  Sane(q) /\ Evolves(r, q, receipts) /\ q.records[s].result
<1> DEFINE state == r.records[s]
           b == state.spec.bank_id
           idle == WithJob(state, "COMPUTE", "NONE")
           executed == Executed(idle)
           p == SetJob(e, s, "COMPUTE", "NONE")
           f == [p EXCEPT !.compute = None]
           done == SetState(f, s, executed)
           st == WithJob(executed, "D2H", "RUNNING")
           exported == Exchange(done, s, "D2H", "EXPORT")
           bank == [r.banks[b] EXCEPT !.phase = "EXPORTING"]
<1>1. s \in DOMAIN r.records /\ state.jobs["COMPUTE"] = "RUNNING" BY Plain
<1>2. s # None /\ b \in BankIds /\ r.banks[b].current = s BY <1>1, JobCurrent DEF JobKinds
<1>3. /\ DOMAIN e = DOMAIN r /\ e.records = r.records /\ e.banks = r.banks
      /\ e.free_rows = r.free_rows /\ Flags(e) /\ e.command = "NONE"
      /\ e.exchange = r.exchange /\ e.compute = r.compute /\ e.failed = r.failed
      /\ e.draining = r.draining /\ e.shutting_down = r.shutting_down
  BY Plain DEF Flags, Answered
<1>4. RInv(e) BY <1>3, FlagsInv
<1> HIDE DEF b
<1>5. /\ state.spec.bank_id = b /\ ~state.physical_done
      /\ state \in StateOf(state.spec) /\ r.banks[b] \in BankType
      /\ CurrentSane(state, r.banks[b], r.exchange[b])
      /\ ((r.banks[b].phase = "COMPUTING") <=> (r.compute = s))
  BY <1>2, CurrentSound
<1>6. /\ RInv(p) /\ Touches(e, p, b, s) /\ p.records[s] = idle
      /\ p.banks = r.banks /\ p.exchange = r.exchange
      /\ p.compute = r.compute /\ p.command = "NONE" /\ p.failed = r.failed
  <2>1. s = e.banks[b].current /\ (e.command # "COMPUTE") /\ e.records[s] = state BY <1>2, <1>3
  <2>2. "COMPUTE" \in JobKinds /\ "NONE" \in JobStates BY DEF JobKinds, JobStates
  <2>3. p = SetJob(e, s, "COMPUTE", "NONE") /\ s # None /\ b \in BankIds BY <1>2
  <2> HIDE DEF p, idle, state
  <2>4. RInv(p) BY <1>4, <2>1, <2>2, <2>3, ClearJob
  <2>5. Touches(e, p, b, s) BY <1>4, <2>1, <2>2, <2>3, ClearJob
  <2>6. p.records[s] = WithJob(e.records[s], "COMPUTE", "NONE") BY <1>4, <2>1, <2>2, <2>3, ClearJob
  <2>7. /\ p.banks = e.banks /\ p.exchange = e.exchange
        /\ p.compute = e.compute /\ p.command = e.command /\ p.failed = e.failed
    BY <1>4, <2>1, <2>2, <2>3, ClearJob
  <2> QED BY <1>3, <2>1, <2>4, <2>5, <2>6, <2>7 DEF idle
<1>7. q = ApplyCompute(p, s) BY DEF Handle, Apply
<1> HIDE DEF p
<1>8. /\ ~state.result /\ state.metadata /\ state.imported /\ Idle(state, {"COMPUTE"})
      /\ state.plan = Live(state)
      /\ r.banks[b].phase = "COMPUTING"
  BY <1>5 DEF CurrentSane, Staged
<1>9. /\ idle.spec = state.spec /\ idle.layout = state.layout /\ idle.outcomes = state.outcomes
      /\ idle.captured = state.captured /\ idle.plan = state.plan
      /\ idle.imported = state.imported /\ idle.metadata = state.metadata
      /\ idle.physical_done = state.physical_done
      /\ \A k \in JobKinds : idle.jobs[k] = "NONE"
      /\ idle \in StateOf(state.spec)
  <2>1. /\ idle.spec = state.spec /\ idle.layout = state.layout /\ idle.outcomes = state.outcomes
        /\ idle.captured = state.captured /\ idle.plan = state.plan
        /\ idle.imported = state.imported /\ idle.metadata = state.metadata
        /\ idle.physical_done = state.physical_done
        /\ idle.jobs["COMPUTE"] = "NONE"
        /\ \A k \in JobKinds : k # "COMPUTE" => idle.jobs[k] = state.jobs[k]
    BY <1>5, WithJobFields DEF JobKinds
  <2>2. idle \in StateOf(state.spec) BY <1>5 DEF WithJob, StateOf, JobKinds, JobStates
  <2> QED BY <1>8, <2>1, <2>2 DEF Idle
<1>10. Live(idle) = idle.plan BY <1>8, <1>9 DEF Live
<1> HIDE DEF idle
<1>11. /\ executed \in StateOf(state.spec)
       /\ executed.spec = state.spec /\ executed.layout = state.layout
       /\ executed.captured = state.captured /\ executed.plan = state.plan
       /\ executed.metadata = state.metadata /\ executed.imported = state.imported
       /\ executed.physical_done = state.physical_done
       /\ executed.result /\ Live(executed) = {} /\ executed.jobs = idle.jobs
  BY <1>9, <1>10, ExecutedFields
<1> HIDE DEF executed
<1>12. /\ DOMAIN f = DOMAIN p /\ f.records = p.records /\ f.banks = p.banks /\ f.free_rows = p.free_rows
       /\ Flags(f) /\ f.command = p.command /\ f.compute = None /\ f.exchange = p.exchange
       /\ f.failed = p.failed /\ f.draining = p.draining /\ f.shutting_down = p.shutting_down
  BY <1>6, Plain DEF Flags, None
<1>13. RInv(f) BY <1>6, <1>12, FlagsInv
<1> HIDE DEF f
<1>14. s \in DOMAIN f.records /\ f.records[s] = idle
  BY <1>1, <1>3, <1>6, <1>12 DEF Touches
<1>15. RInv(done)
  <2>1. f.records[s].spec.bank_id = b /\ f.banks[b].current = s /\ f.records[s].spec = state.spec
    BY <1>2, <1>5, <1>6, <1>9, <1>12, <1>14
  <2>2. executed.jobs["COMPUTE"] # "DONE" BY <1>9, <1>11 DEF JobKinds
  <2>3. executed.physical_done = f.records[s].physical_done BY <1>9, <1>11, <1>14
  <2>4. f.command # "COMPUTE" BY <1>6, <1>12
  <2>5. StateUpdate(f, s, executed)
    BY <1>2, <1>11, <1>14, <2>1, <2>2, <2>3, <2>4 DEF StateUpdate
  <2> QED BY <1>13, <2>5, StateInv
<1>16. /\ Touches(f, done, b, s) /\ done.records[s] = executed
       /\ done.banks = f.banks /\ done.exchange = f.exchange
       /\ done.compute = f.compute /\ done.command = f.command /\ done.failed = f.failed
  <2>1. executed.spec = f.records[s].spec BY <1>9, <1>11, <1>14
  <2> QED BY <1>2, <1>13, <1>14, <2>1, SetStateTouches
<1>17. done = [p EXCEPT !.compute = None, !.records[s] = executed]
  BY <1>6, Plain DEF done, f, SetState
<1> HIDE DEF done
<1>18. r.exchange[b] = "NONE"
  <2>1. state.jobs["H2D"] = "NONE" /\ state.jobs["D2H"] = "NONE" BY <1>8 DEF Idle, JobKinds
  <2>2. r.exchange[b] \in {"NONE", "IMPORT", "EXPORT", "RELEASE"} BY <1>2, Plain DEF Flags
  <2> QED BY <1>5, <2>1, <2>2 DEF CurrentSane, Exchanging
<1>19. /\ Touches(done, exported, b, s) /\ exported.records[s] = st
       /\ exported.banks = done.banks /\ exported.exchange[b] = "EXPORT"
       /\ exported.compute = done.compute /\ exported.command = done.command /\ exported.failed = done.failed
  <2>1. s \in DOMAIN done.records /\ done.records[s].spec.bank_id = b /\ done.records[s].spec = state.spec
    BY <1>5, <1>11, <1>14, <1>16 DEF Touches
  <2>2. done.exchange[b] = "NONE" /\ done.records[s] = executed BY <1>6, <1>12, <1>16, <1>18
  <2>3. done.records[s] \in StateOf(done.records[s].spec) BY <1>11, <2>1, <2>2
  <2> QED BY <1>2, <1>15, <2>1, <2>2, <2>3, ExchangeTouches
<1>20. DOMAIN exported = DOMAIN done /\ exported.banks = [c \in BankIds |-> r.banks[c]]
  <2>1. done.exchange[b] = "NONE" BY <1>6, <1>12, <1>16, <1>18
  <2>2. r.banks = [c \in BankIds |-> r.banks[c]] BY Plain
  <2>3. DOMAIN exported = DOMAIN done BY <1>5, <1>11, <1>16, <2>1 DEF Exchange
  <2> QED BY <1>6, <1>12, <1>16, <1>19, <2>2, <2>3
<1>21. q = SetPhase(exported, b, "EXPORTING")
  <2>1. ~exported.failed BY <1>6, <1>12, <1>16, <1>19 DEF Sane
  <2>2. p.records[s] = idle /\ idle.spec.bank_id = b BY <1>5, <1>6, <1>9
  <2> QED BY <1>7, <1>10, <1>17, <2>1, <2>2 DEF ApplyCompute, SetPhase, executed, Executed, exported
<1>22. /\ bank.phase = "EXPORTING" /\ bank.current = s /\ bank.pending = r.banks[b].pending
       /\ bank.layout = r.banks[b].layout /\ bank.epoch = r.banks[b].epoch
  BY <1>2, <1>5 DEF BankType
<1> HIDE DEF exported
<1>23. /\ q.records = exported.records /\ q.banks = [r.banks EXCEPT ![b] = bank]
       /\ q.exchange = exported.exchange /\ q.compute = None /\ q.command = "NONE"
       /\ q.failed = r.failed
       /\ q.draining = exported.draining /\ q.shutting_down = exported.shutting_down
  <2>1. DOMAIN exported = DOMAIN r BY <1>15, <1>20, Plain
  <2>2. exported.banks = r.banks BY <1>6, <1>12, <1>16, <1>19
  <2>3. exported.compute = None /\ exported.command = "NONE" /\ exported.failed = r.failed
    BY <1>6, <1>12, <1>16, <1>19
  <2> QED BY <1>21, <2>1, <2>2, <2>3, Plain DEF SetPhase
<1> HIDE DEF bank
<1>24. /\ st.spec = state.spec /\ st.layout = state.layout /\ st.outcomes = executed.outcomes
       /\ st.captured = state.captured /\ st.plan = state.plan
       /\ st.metadata = state.metadata /\ st.imported = state.imported
       /\ st.physical_done = state.physical_done /\ st.result
       /\ st.jobs["D2H"] = "RUNNING" /\ st.jobs["H2D"] = "NONE"
       /\ st.jobs["METADATA"] = "NONE" /\ st.jobs["COMPUTE"] = "NONE"
  BY <1>9, <1>11, WithJobFields DEF JobKinds
<1> HIDE DEF st
<1>25. /\ Touches(r, q, b, s) /\ q.records[s] = st /\ q.banks[b] = bank
       /\ q.exchange[b] = "EXPORT"
  <2>1. q.banks[b] = bank /\ \A c \in BankIds : c # b => q.banks[c] = r.banks[c]
    BY <1>2, <1>23, Plain
  <2>2. /\ DOMAIN q.records = DOMAIN r.records
        /\ \A t \in DOMAIN r.records : t # s => q.records[t] = r.records[t]
    BY <1>3, <1>6, <1>12, <1>16, <1>19, <1>23 DEF Touches
  <2>3. q.records[s] = st /\ q.exchange[b] = "EXPORT" BY <1>19, <1>23
  <2>4. \A c \in BankIds : c # b => q.exchange[c] = r.exchange[c]
    BY <1>3, <1>6, <1>12, <1>16, <1>19, <1>23 DEF Touches
  <2>5. q.draining = r.draining /\ q.shutting_down = r.shutting_down
    BY <1>3, <1>6, <1>12, <1>16, <1>19, <1>23 DEF Touches
  <2> QED BY <1>24, <2>1, <2>2, <2>3, <2>4, <2>5 DEF Touches
<1>26. Live(st) = {} BY <1>11, <1>24 DEF Live
<1>27. CurrentSane(st, bank, "EXPORT")
  <2>1. Staged(st, "EXPORTING") BY <1>8, <1>24, <1>26 DEF Staged, Idle, JobKinds
  <2>2. Skipping(st) /\ Exchanging(st, "EXPORT") BY <1>24 DEF Skipping, Exchanging
  <2>3. Planned(st) BY <1>5, <1>24, <1>26 DEF CurrentSane, Planned
  <2> QED BY <1>5, <1>8, <1>22, <1>24, <2>1, <2>2, <2>3 DEF CurrentSane
<1>28. BankSane(q, b)
  <2> DEFINE t == r.banks[b].pending
  <2>1. t # None => /\ Fresh(q.records[t])
                    /\ q.records[s].spec.bank_epoch < q.records[t].spec.bank_epoch
    <3> SUFFICES ASSUME t # None
                 PROVE  /\ Fresh(q.records[t])
                        /\ q.records[s].spec.bank_epoch < q.records[t].spec.bank_epoch
      OBVIOUS
    <3>1. /\ t \in DOMAIN r.records /\ t # s /\ Fresh(r.records[t])
          /\ r.records[s].spec.bank_epoch < r.records[t].spec.bank_epoch
      BY <1>2, PendingSound
    <3> QED BY <1>24, <1>25, <3>1 DEF Touches
  <2>2. (bank.phase = "COMPUTING") <=> (q.compute = bank.current) BY <1>2, <1>22, <1>23
  <2> QED BY <1>2, <1>22, <1>25, <1>27, <2>1, <2>2 DEF BankSane
<1>29. CommandSane(q) BY <1>23 DEF CommandSane
<1>30. Respects(r, q, b, s)
  <2>1. ~q.failed BY <1>23 DEF Sane
  <2>2. ~q.records[s].physical_done BY <1>5, <1>24, <1>25
  <2>3. q.banks[b].current = s /\ q.banks[b].pending = r.banks[b].pending BY <1>22, <1>25
  <2> QED BY <1>2, <1>23, <1>25, <1>28, <1>29, <2>1, <2>2, <2>3 DEF Respects
<1>31. Sane(q) BY <1>30, SaneChange
<1>32. StateEvolves(state, st, receipts[b] = s)
  <2>1. state.jobs["D2H"] = "NONE" BY <1>8 DEF Idle, JobKinds
  <2> QED BY <1>24, <2>1 DEF StateEvolves, Left
<1>33. Evolves(r, q, receipts) BY <1>1, <1>2, <1>5, <1>22, <1>25, <1>32, EvolvesChange
<1> QED BY <1>24, <1>25, <1>31, <1>33

-----------------------------------------------------------------------------
(* Changes of what the WORKs have received and of their outcomes. *)
LEMMA SaneStates ==
    ASSUME NEW r, RInv(r), Sane(r), NEW q, DOMAIN q.records = DOMAIN r.records,
           q.banks = r.banks, q.exchange = r.exchange, q.compute = r.compute, q.command = r.command,
           q.failed = r.failed, r.draining => q.draining,
           \A t \in DOMAIN r.records :
               /\ q.records[t].spec = r.records[t].spec
               /\ q.records[t].physical_done = r.records[t].physical_done
               /\ q.records[t].imported = r.records[t].imported
               /\ Live(q.records[t]) \subseteq Live(r.records[t])
               /\ Fresh(r.records[t]) => Fresh(q.records[t]),
           \A b \in BankIds : r.banks[b].current # None =>
               CurrentSane(q.records[r.banks[b].current], r.banks[b], r.exchange[b])
    PROVE  Sane(q)
<1>1. \A b \in BankIds : BankSane(q, b)
  <2> SUFFICES ASSUME NEW b \in BankIds PROVE BankSane(q, b)
    OBVIOUS
  <2>1. BankSane(r, b) BY DEF Sane
  <2>2. r.banks[b].current # None => r.banks[b].current \in DOMAIN r.records BY CurrentSound
  <2>3. r.banks[b].pending # None =>
            r.banks[b].pending \in DOMAIN r.records /\ r.banks[b].current # None
    BY PendingSound
  <2> QED BY <2>1, <2>2, <2>3 DEF BankSane
<1>2. RecordsSane(q)
  <2>1. RecordsSane(r) BY DEF Sane
  <2> QED BY <2>1 DEF RecordsSane
<1>3. WidthsFit(q) BY DEF Sane, WidthsFit
<1>4. CommandSane(q) BY DEF Sane, CommandSane
<1> QED BY <1>1, <1>2, <1>3, <1>4 DEF Sane

(* The State after a receipt for one of its members. *)
Received(st, i, name, finished) ==
    [st EXCEPT !.captured[i] = @ \cup {name},
               !.outcomes[i] = IF finished THEN "SKIPPED_FINISHED" ELSE @]

(* It can only end members; no job, copy or row changes. *)
LEMMA ReceivedFields ==
    ASSUME NEW work, NEW st \in StateOf(work), NEW i \in DOMAIN st.outcomes, NEW name \in Names,
           NEW finished, st.outcomes[i] = "NONE", NEW new, new = Received(st, i, name, finished)
    PROVE  /\ new.spec = st.spec /\ new.layout = st.layout /\ new.plan = st.plan
           /\ new.metadata = st.metadata /\ new.imported = st.imported /\ new.result = st.result
           /\ new.physical_done = st.physical_done /\ new.jobs = st.jobs
           /\ Live(new) \subseteq Live(st)
<1>1. /\ new.spec = st.spec /\ new.layout = st.layout /\ new.plan = st.plan
      /\ new.metadata = st.metadata /\ new.imported = st.imported /\ new.result = st.result
      /\ new.physical_done = st.physical_done /\ new.jobs = st.jobs
      /\ new.outcomes = [st.outcomes EXCEPT ![i] = IF finished THEN "SKIPPED_FINISHED" ELSE @]
  BY DEF Received, StateOf
<1>2. Live(new) \subseteq Live(st)
  <2>1. DOMAIN new.outcomes = DOMAIN st.outcomes /\ \A j \in DOMAIN st.outcomes : j # i => new.outcomes[j] = st.outcomes[j]
    BY <1>1
  <2> QED BY <2>1 DEF Live
<1> QED BY <1>1, <1>2

(* Runtime.receive_inputs, of an input that was still awaited. *)
LEMMA ReceiveSane ==
    ASSUME NEW r, RInv(r), Sane(r), NEW s \in DOMAIN r.records, NEW i \in DOMAIN r.records[s].outcomes,
           NEW name \in Names, NEW finished \in BOOLEAN,
           name \in Dependencies(r.records[s].spec.operation) \ r.records[s].captured[i],
           r.records[s].outcomes[i] = "NONE",
           NEW receipts, NEW q, RInv(q), q = Receive(r, s, i, name, finished)
    PROVE  Sane(q) /\ Evolves(r, q, receipts)
<1> DEFINE state == r.records[s]
           st == Received(state, i, name, finished)
           b == state.spec.bank_id
<1>1. state \in StateOf(state.spec) /\ b \in BankIds BY StateFacts
<1>2. /\ st.spec = state.spec /\ st.layout = state.layout /\ st.plan = state.plan
      /\ st.metadata = state.metadata /\ st.imported = state.imported /\ st.result = state.result
      /\ st.physical_done = state.physical_done /\ st.jobs = state.jobs
      /\ Live(st) \subseteq Live(state)
  BY <1>1, ReceivedFields
<1>3. i \in Live(state) BY DEF Live
<1>4. ~state.physical_done /\ s \in {r.banks[b].current, r.banks[b].pending}
  BY <1>3 DEF Sane, RecordsSane
<1>5. q = SetState(r, s, st)
  BY <1>4 DEF Receive, Skipped, SetState, Received
<1> HIDE DEF st, b
<1>6. /\ Touches(r, q, b, s) /\ q.records[s] = st
      /\ q.banks = r.banks /\ q.exchange = r.exchange
      /\ q.compute = r.compute /\ q.command = r.command /\ q.failed = r.failed
  BY <1>1, <1>2, <1>5, SetStateTouches
<1>7. \A t \in DOMAIN r.records :
          /\ q.records[t].spec = r.records[t].spec
          /\ q.records[t].physical_done = r.records[t].physical_done
          /\ q.records[t].imported = r.records[t].imported
          /\ Live(q.records[t]) \subseteq Live(r.records[t])
          /\ Fresh(r.records[t]) => Fresh(q.records[t])
  <2>1. Fresh(state) => Fresh(st) BY <1>2 DEF Fresh, NoJobs
  <2> QED BY <1>2, <1>6, <2>1 DEF Touches
<1>8. \A c \in BankIds : r.banks[c].current # None =>
          CurrentSane(q.records[r.banks[c].current], r.banks[c], r.exchange[c])
  <2> SUFFICES ASSUME NEW c \in BankIds, NEW t, t = r.banks[c].current, t # None
               PROVE  CurrentSane(q.records[t], r.banks[c], r.exchange[c])
    OBVIOUS
  <2>1. t \in DOMAIN r.records /\ CurrentSane(r.records[t], r.banks[c], r.exchange[c]) /\ r.banks[c] \in BankType
    BY CurrentSound
  <2>2. CASE t # s BY <1>6, <2>1, <2>2 DEF Touches
  <2>3. CASE t = s
    <3>1. CurrentSane(state, r.banks[c], r.exchange[c]) BY <2>1, <2>3
    <3>2. state.plan = {}
      <4>1. ~(Dependencies(state.spec.operation) \subseteq state.captured[i]) OBVIOUS
      <4>2. Planned(state) BY <3>1 DEF CurrentSane
      <4> QED BY <1>3, <4>1, <4>2 DEF Planned
    <3>3. r.banks[c].phase \in {"FREE", "FILLING", "READY"}
      <4>1. r.banks[c].phase \in Phases BY <2>1 DEF BankType
      <4> QED BY <1>3, <3>1, <3>2, <4>1 DEF CurrentSane, Staged, Phases
    <3>4. Staged(st, r.banks[c].phase)
      BY <1>2, <3>1, <3>2, <3>3 DEF CurrentSane, Staged, Idle
    <3>5. Skipping(st)
      <4>1. ~AllSkipped(state) BY DEF AllSkipped, Skipped
      <4> QED BY <1>2, <3>1, <4>1 DEF CurrentSane, Skipping
    <3>6. Planned(st) BY <1>2, <3>2 DEF Planned
    <3>7. Exchanging(st, r.exchange[c]) BY <1>2, <3>1 DEF CurrentSane, Exchanging
    <3>8. CurrentSane(st, r.banks[c], r.exchange[c])
      BY <1>2, <3>1, <3>4, <3>5, <3>6, <3>7 DEF CurrentSane
    <3> QED BY <1>6, <2>3, <3>8
  <2> QED BY <2>2, <2>3
<1>9. Sane(q)
  <2>1. DOMAIN q.records = DOMAIN r.records /\ q.draining = r.draining BY <1>6 DEF Touches
  <2> QED BY <1>6, <1>7, <1>8, <2>1, SaneStates
<1>10. StateEvolves(state, st, receipts[b] = s) BY <1>2 DEF StateEvolves, Left
<1> QED BY <1>1, <1>6, <1>9, <1>10, EvolvesChange DEF b

(* The State of a WORK after Runtime.shutdown. *)
Stopped(st) ==
    [st EXCEPT !.outcomes = [i \in DOMAIN @ |-> IF @[i] = "NONE" THEN "SKIPPED_SHUTDOWN" ELSE @[i]]]

(* Stopped ends every member that is still alive and changes nothing else. *)
LEMMA StoppedFields ==
    ASSUME NEW work, NEW st \in StateOf(work), NEW new, new = Stopped(st)
    PROVE  /\ new.spec = st.spec /\ new.layout = st.layout /\ new.plan = st.plan
           /\ new.metadata = st.metadata /\ new.imported = st.imported /\ new.result = st.result
           /\ new.physical_done = st.physical_done /\ new.jobs = st.jobs
           /\ new.captured = st.captured
           /\ Live(new) = {} /\ (AllSkipped(st) => AllSkipped(new))
<1>1. /\ new.spec = st.spec /\ new.layout = st.layout /\ new.plan = st.plan
      /\ new.metadata = st.metadata /\ new.imported = st.imported /\ new.result = st.result
      /\ new.physical_done = st.physical_done /\ new.jobs = st.jobs
      /\ new.captured = st.captured
      /\ new.outcomes = [i \in DOMAIN st.outcomes |->
                            IF st.outcomes[i] = "NONE" THEN "SKIPPED_SHUTDOWN" ELSE st.outcomes[i]]
  BY DEF Stopped, StateOf
<1> QED BY <1>1 DEF Live, AllSkipped, Skipped

(* Runtime.drain and Runtime.shutdown. *)
LEMMA StopSane ==
    ASSUME NEW r, RInv(r), Sane(r), NEW kind, NEW receipts, NEW q, RInv(q), q = Stop(r, kind)
    PROVE  /\ Sane(q) /\ DOMAIN q.records = DOMAIN r.records /\ q.banks = r.banks
           /\ q.draining /\ q.command = r.command /\ q.compute = r.compute /\ q.exchange = r.exchange
           /\ r.shutting_down => q.shutting_down
           /\ \A s \in DOMAIN r.records :
                  StateEvolves(r.records[s], q.records[s], receipts[r.records[s].spec.bank_id] = s)
<1> DEFINE untouched(s) == \/ r.records[s].physical_done
                           \/ r.compute = s
                           \/ r.records[s].result
<1>1. \A s \in DOMAIN r.records : r.records[s] \in StateOf(r.records[s].spec) BY StateFacts
<1>2. /\ q.banks = r.banks /\ q.exchange = r.exchange /\ q.compute = r.compute /\ q.command = r.command
      /\ q.failed = r.failed /\ q.draining /\ DOMAIN q.records = DOMAIN r.records
      /\ (r.shutting_down => q.shutting_down)
  BY Plain DEF Stop
<1>3. \A s \in DOMAIN r.records :
          \/ q.records[s] = r.records[s]
          \/ ~untouched(s) /\ q.records[s] = Stopped(r.records[s])
  <2>1. CASE kind = "DRAIN" BY <2>1, Plain DEF Stop
  <2>2. CASE kind # "DRAIN"
    <3>1. q.records = [s \in DOMAIN r.records |->
                          IF untouched(s) THEN r.records[s] ELSE Stopped(r.records[s])]
      BY <2>2, Plain DEF Stop, Stopped
    <3> HIDE DEF untouched
    <3> QED BY <3>1
  <2> QED BY <2>1, <2>2
<1>4. ASSUME NEW s \in DOMAIN r.records
      PROVE  /\ q.records[s].spec = r.records[s].spec
             /\ q.records[s].physical_done = r.records[s].physical_done
             /\ q.records[s].imported = r.records[s].imported
             /\ q.records[s].jobs = r.records[s].jobs
             /\ q.records[s].result = r.records[s].result
             /\ Live(q.records[s]) \subseteq Live(r.records[s])
             /\ Fresh(r.records[s]) => Fresh(q.records[s])
  <2>1. CASE q.records[s] = r.records[s] BY <2>1
  <2>2. CASE q.records[s] = Stopped(r.records[s])
    <3> DEFINE new == q.records[s]
    <3>1. /\ new.spec = r.records[s].spec /\ new.layout = r.records[s].layout /\ new.plan = r.records[s].plan
          /\ new.metadata = r.records[s].metadata /\ new.imported = r.records[s].imported
          /\ new.result = r.records[s].result /\ new.physical_done = r.records[s].physical_done
          /\ new.jobs = r.records[s].jobs /\ Live(new) = {}
      BY <1>1, <2>2, StoppedFields
    <3>2. Fresh(r.records[s]) => Fresh(new) BY <3>1 DEF Fresh, NoJobs
    <3> QED BY <3>1, <3>2
  <2> QED BY <1>3, <2>1, <2>2
<1>5. \A c \in BankIds : r.banks[c].current # None =>
          CurrentSane(q.records[r.banks[c].current], r.banks[c], r.exchange[c])
  <2> SUFFICES ASSUME NEW c \in BankIds, NEW t, t = r.banks[c].current, t # None
               PROVE  CurrentSane(q.records[t], r.banks[c], r.exchange[c])
    OBVIOUS
  <2> DEFINE state == r.records[t]
             st == q.records[t]
  <2>1. /\ t \in DOMAIN r.records /\ CurrentSane(state, r.banks[c], r.exchange[c])
        /\ r.banks[c] \in BankType
        /\ ((r.banks[c].phase = "COMPUTING") <=> (r.compute = t))
    BY CurrentSound
  <2>2. CASE st = state BY <2>1, <2>2
  <2>3. CASE ~untouched(t) /\ st = Stopped(state)
    <3>1. /\ st.spec = state.spec /\ st.layout = state.layout /\ st.plan = state.plan
          /\ st.metadata = state.metadata /\ st.imported = state.imported
          /\ st.result = state.result
          /\ st.jobs = state.jobs /\ st.captured = state.captured
          /\ Live(st) = {} /\ (AllSkipped(state) => AllSkipped(st))
      BY <1>1, <2>1, <2>3, StoppedFields
    <3> HIDE DEF st, state
    <3>2. r.banks[c].phase \in {"FREE", "FILLING", "READY"}
      <4>1. r.banks[c].phase \in Phases BY <2>1 DEF BankType
      <4>2. ~state.result /\ r.compute # t BY <2>3 DEF state
      <4> QED BY <2>1, <4>1, <4>2 DEF CurrentSane, Staged, Phases
    <3>3. Staged(st, r.banks[c].phase)
      BY <2>1, <3>1, <3>2 DEF CurrentSane, Staged, Idle
    <3>4. Skipping(st) BY <2>1, <3>1 DEF CurrentSane, Skipping, Idle
    <3>5. Planned(st) BY <2>1, <3>1 DEF CurrentSane, Planned
    <3>6. Exchanging(st, r.exchange[c]) BY <2>1, <3>1 DEF CurrentSane, Exchanging
    <3>7. CurrentSane(st, r.banks[c], r.exchange[c])
      BY <2>1, <3>1, <3>3, <3>4, <3>5, <3>6 DEF CurrentSane
    <3> QED BY <3>7 DEF st
  <2> QED BY <1>3, <2>1, <2>2, <2>3
<1>6. Sane(q) BY <1>2, <1>4, <1>5, SaneStates
<1>7. \A s \in DOMAIN r.records :
          StateEvolves(r.records[s], q.records[s], receipts[r.records[s].spec.bank_id] = s)
  BY <1>4 DEF StateEvolves, Left
<1> QED BY <1>2, <1>6, <1>7

(* A WORK that can be accepted: it is new, its Bank has room for it, it comes
   after all the Bank has had, and its rows fit beside the other Bank's. *)
Acceptable(r, work, s, b) ==
    /\ work \in Work /\ s = work.work_seq /\ b = work.bank_id
    /\ ~r.draining /\ s \notin DOMAIN r.records
    /\ Cardinality(DOMAIN r.records) \in Nat /\ Cardinality(DOMAIN r.records) < MaxOutstanding
    /\ r.banks[b].current = None \/ r.banks[b].pending = None
    /\ work.rows <= CapacityRows
    /\ r.banks[b].epoch < work.bank_epoch
    /\ r.banks[b].current # None => r.records[r.banks[b].current].spec.bank_epoch < work.bank_epoch
    /\ \A t \in DOMAIN r.records :
           ~r.records[t].physical_done /\ r.records[t].spec.bank_id # b =>
               r.records[t].spec.rows + work.rows <= CapacityRows

(* Runtime.accept, of a WORK the ledger could authorise. *)
LEMMA AcceptSane ==
    ASSUME NEW r, RInv(r), Sane(r), NEW work, NEW s, NEW b, Acceptable(r, work, s, b),
           NEW q, RInv(q), q = Accept(r, work)
    PROVE  /\ Sane(q)
           /\ DOMAIN q.records = DOMAIN r.records \cup {s} /\ q.records[s] = NewState(work)
           /\ \A t \in DOMAIN r.records : q.records[t] = r.records[t]
           /\ \A c \in BankIds : q.banks[c].epoch = r.banks[c].epoch
           /\ q.draining = r.draining /\ q.shutting_down = r.shutting_down
           /\ q.command = r.command /\ q.compute = r.compute /\ q.exchange = r.exchange
<1> SUFFICES ASSUME work \in Work, s = work.work_seq, b = work.bank_id,
           ~r.draining, s \notin DOMAIN r.records,
           Cardinality(DOMAIN r.records) \in Nat, Cardinality(DOMAIN r.records) < MaxOutstanding,
           r.banks[b].current = None \/ r.banks[b].pending = None,
           work.rows <= CapacityRows,
           r.banks[b].epoch < work.bank_epoch,
           r.banks[b].current # None => r.records[r.banks[b].current].spec.bank_epoch < work.bank_epoch,
           \A t \in DOMAIN r.records :
               ~r.records[t].physical_done /\ r.records[t].spec.bank_id # b =>
                   r.records[t].spec.rows + work.rows <= CapacityRows
             PROVE  /\ Sane(q)
                    /\ DOMAIN q.records = DOMAIN r.records \cup {s} /\ q.records[s] = NewState(work)
                    /\ \A t \in DOMAIN r.records : q.records[t] = r.records[t]
                    /\ \A c \in BankIds : q.banks[c].epoch = r.banks[c].epoch
                    /\ q.draining = r.draining /\ q.shutting_down = r.shutting_down
                    /\ q.command = r.command /\ q.compute = r.compute /\ q.exchange = r.exchange
  BY DEF Acceptable
<1> DEFINE bank == r.banks[b]
           records == [x \in DOMAIN r.records \cup {s} |-> IF x = s THEN NewState(work) ELSE r.records[x]]
           added == [r EXCEPT !.records = records]
           st == NewState(work)
<1>1. s \in Seqs /\ s # None /\ b \in BankIds /\ bank \in BankType /\ work.rows \in Nat /\ work.bank_epoch \in Nat
  BY Plain, MaxBatchSizeAssumption DEF Work, Seqs
<1>2. \/ bank.current = None /\ q = [added EXCEPT !.banks[b].current = s]
      \/ bank.current # None /\ bank.pending = None /\ q = [added EXCEPT !.banks[b].pending = s]
  <2>1. ~r.failed BY DEF Sane
  <2>2. ~(work.rows > CapacityRows) BY <1>1, CapacityRowsAssumption
  <2>3. ~(Cardinality(DOMAIN r.records) >= MaxOutstanding) BY MaxOutstandingAssumption
  <2> HIDE DEF records
  <2> QED BY <2>1, <2>2, <2>3 DEF Accept, records
<1>3. /\ st.spec = work /\ ~st.physical_done /\ st.layout = {} /\ st.plan = {} /\ ~st.metadata
      /\ ~st.imported /\ ~st.result /\ NoJobs(st) /\ Live(st) = Members(work)
  BY DEF NewState, NoJobs, Live
<1>4. /\ DOMAIN added = DOMAIN r /\ added.records = records /\ added.banks = r.banks
      /\ SameFlags(r, added)
  BY Plain DEF SameFlags
<1> HIDE DEF added
<1>5. /\ q.records = records /\ SameFlags(r, q)
  BY <1>2, <1>4, Plain DEF SameFlags
<1>6. /\ DOMAIN q.records = DOMAIN r.records \cup {s}
      /\ q.records[s] = NewState(work)
      /\ \A x \in DOMAIN r.records : q.records[x] = r.records[x]
  BY <1>5
<1> HIDE DEF records
<1>7. /\ \A c \in BankIds : c # b => q.banks[c] = r.banks[c]
      /\ q.banks[b].layout = bank.layout /\ q.banks[b].epoch = bank.epoch /\ q.banks[b].phase = bank.phase
      /\ \/ bank.current = None /\ q.banks[b].current = s /\ q.banks[b].pending = bank.pending
         \/ bank.current # None /\ q.banks[b].pending = s /\ q.banks[b].current = bank.current
  <2>1. CASE bank.current = None
    <3>1. q.banks = [r.banks EXCEPT ![b] = [bank EXCEPT !.current = s]]
      BY <1>2, <1>4, <2>1, Plain
    <3> QED BY <1>1, <2>1, <3>1, Plain DEF BankType
  <2>2. CASE bank.current # None
    <3>1. q.banks = [r.banks EXCEPT ![b] = [bank EXCEPT !.pending = s]]
      BY <1>2, <1>4, <2>2, Plain
    <3> QED BY <1>1, <2>2, <3>1, Plain DEF BankType
  <2> QED BY <2>1, <2>2
<1> HIDE DEF st
<1>8. Fresh(st) BY <1>3 DEF Fresh
<1>9. \A c \in BankIds : BankSane(q, c)
  <2> SUFFICES ASSUME NEW c \in BankIds PROVE BankSane(q, c)
    OBVIOUS
  <2>1. BankSane(r, c) BY DEF Sane
  <2>2. /\ r.banks[c].current # None => r.banks[c].current \in DOMAIN r.records
        /\ r.banks[c].pending # None => r.banks[c].pending \in DOMAIN r.records /\ r.banks[c].current # None
    BY CurrentSound, PendingSound
  <2>3. q.compute = r.compute /\ q.exchange = r.exchange BY <1>5 DEF SameFlags
  <2>4. CASE c # b
    <3>1. q.banks[c] = r.banks[c] BY <1>7, <2>4
    <3> QED BY <1>6, <2>1, <2>2, <2>3, <3>1 DEF BankSane
  <2>5. CASE c = b /\ bank.current = None
    <3>1. bank.pending = None BY <2>2, <2>5
    <3>2. bank.phase = "FREE" /\ bank.layout = {} /\ r.exchange[b] = "NONE" BY <2>1, <2>5 DEF BankSane
    <3>3. CurrentSane(st, q.banks[b], "NONE")
      <4>1. Staged(st, "FREE") BY <1>3 DEF Staged, Idle, NoJobs
      <4>2. Skipping(st) /\ Exchanging(st, "NONE") BY <1>3 DEF Skipping, Exchanging, NoJobs, JobKinds
      <4>3. Planned(st) BY <1>3 DEF Planned
      <4>4. Cardinality({}) <= work.rows BY <1>1, FS_EmptySet
      <4> QED BY <1>1, <1>3, <1>7, <3>2, <4>1, <4>2, <4>3, <4>4 DEF CurrentSane
    <3>4. q.compute # s
      <4>1. r.compute # None => r.compute \in DOMAIN r.records BY Plain DEF Sane, CommandSane
      <4> QED BY <1>1, <2>3, <4>1
    <3>5. q.banks[b].current = s /\ q.banks[b].pending = None BY <1>7, <2>5, <3>1
    <3> QED BY <1>1, <1>6, <1>7, <2>3, <2>5, <3>2, <3>3, <3>4, <3>5 DEF BankSane, st
  <2>6. CASE c = b /\ bank.current # None
    <3>1. q.banks[b].current = bank.current /\ q.banks[b].pending = s BY <1>7, <2>6
    <3>2. bank.current \in DOMAIN r.records /\ q.records[bank.current] = r.records[bank.current]
      BY <1>6, <2>2, <2>6
    <3>3. CurrentSane(r.records[bank.current], bank, r.exchange[b]) BY <2>1, <2>6 DEF BankSane
    <3>4. CurrentSane(q.records[bank.current], q.banks[b], q.exchange[b])
      BY <1>7, <2>3, <3>2, <3>3, Zenon DEF CurrentSane
    <3>5. (q.banks[b].phase = "COMPUTING") <=> (q.compute = bank.current)
      BY <1>7, <2>1, <2>3, <2>6 DEF BankSane
    <3>6. Fresh(q.records[s]) /\ q.records[s].spec = work BY <1>3, <1>6, <1>8 DEF st
    <3>7. q.records[bank.current].spec.bank_epoch < q.records[s].spec.bank_epoch
      BY <2>6, <3>2, <3>6
    <3> QED BY <2>6, <3>1, <3>4, <3>5, <3>6, <3>7 DEF BankSane
  <2> QED BY <2>4, <2>5, <2>6
<1>10. RecordsSane(q)
  <2> SUFFICES ASSUME NEW t \in DOMAIN q.records
               PROVE  IF q.records[t].physical_done
                      THEN Live(q.records[t]) = {} /\ (DirectImports => q.records[t].imported)
                      ELSE t \in {q.banks[q.records[t].spec.bank_id].current,
                                  q.banks[q.records[t].spec.bank_id].pending}
    BY DEF RecordsSane
  <2>1. CASE t = s BY <1>3, <1>6, <1>7, <2>1 DEF st
  <2>2. CASE t # s
    <3>1. t \in DOMAIN r.records /\ q.records[t] = r.records[t] BY <1>6, <2>2
    <3>2. IF r.records[t].physical_done
          THEN Live(r.records[t]) = {} /\ (DirectImports => r.records[t].imported)
          ELSE t \in {r.banks[r.records[t].spec.bank_id].current,
                      r.banks[r.records[t].spec.bank_id].pending}
      BY <3>1 DEF Sane, RecordsSane
    <3>3. t # None /\ r.records[t].spec.bank_id \in BankIds BY <3>1, StateFacts DEF Seqs
    <3>4. r.banks[b].current = None => r.banks[b].pending = None
      BY <1>1, PendingSound
    <3>5. CASE r.records[t].spec.bank_id # b BY <1>7, <3>1, <3>2, <3>3, <3>5
    <3>6. CASE r.records[t].spec.bank_id = b BY <1>7, <3>1, <3>2, <3>3, <3>4, <3>6
    <3> QED BY <3>5, <3>6
  <2> QED BY <2>1, <2>2
<1>11. WidthsFit(q)
  <2> SUFFICES ASSUME NEW t \in DOMAIN q.records, NEW u \in DOMAIN q.records
               PROVE  /\ q.records[t].spec.rows <= CapacityRows
                      /\ (/\ ~q.records[t].physical_done /\ ~q.records[u].physical_done
                          /\ q.records[t].spec.bank_id # q.records[u].spec.bank_id) =>
                             q.records[t].spec.rows + q.records[u].spec.rows <= CapacityRows
    BY DEF WidthsFit
  <2>1. \A x \in DOMAIN r.records : r.records[x].spec.rows \in Nat
    BY StateFacts, MaxBatchSizeAssumption DEF Work
  <2>2. q.records[s].spec = work BY <1>3, <1>6 DEF st
  <2>3. CASE t = s /\ u = s BY <2>2, <2>3
  <2>4. CASE t = s /\ u # s BY <1>1, <1>6, <2>1, <2>2, <2>4
  <2>5. CASE t # s /\ u = s
    <3>1. t \in DOMAIN r.records /\ q.records[t] = r.records[t] BY <1>6, <2>5
    <3>2. r.records[t].spec.rows <= CapacityRows BY <3>1 DEF Sane, WidthsFit
    <3> QED BY <2>2, <2>5, <3>1, <3>2
  <2>6. CASE t # s /\ u # s
    <3>1. /\ t \in DOMAIN r.records /\ q.records[t] = r.records[t]
          /\ u \in DOMAIN r.records /\ q.records[u] = r.records[u]
      BY <1>6, <2>6
    <3> QED BY <3>1 DEF Sane, WidthsFit
  <2> QED BY <2>3, <2>4, <2>5, <2>6
<1>12. CommandSane(q)
  BY <1>5 DEF Sane, CommandSane, SameFlags
<1>13. ~q.failed BY <1>5 DEF Sane, SameFlags
<1>14. Sane(q) BY <1>9, <1>10, <1>11, <1>12, <1>13 DEF Sane
<1>15. \A c \in BankIds : q.banks[c].epoch = r.banks[c].epoch BY <1>7
<1> QED BY <1>5, <1>6, <1>14, <1>15 DEF SameFlags

(* Runtime.publication_retired. *)
LEMMA RetireSane ==
    ASSUME NEW r, RInv(r), Sane(r), NEW s \in DOMAIN r.records, r.records[s].physical_done,
           NEW q, q = Retire(r, s)
    PROVE  /\ Sane(q) /\ DOMAIN q.records = DOMAIN r.records \ {s}
           /\ \A t \in DOMAIN q.records : q.records[t] = r.records[t]
           /\ q.banks = r.banks /\ SameFlags(r, q)
<1>1. q = [r EXCEPT !.records = [x \in DOMAIN r.records \ {s} |-> r.records[x]]] BY DEF Retire
<1>2. /\ q.banks = r.banks /\ SameFlags(r, q)
      /\ DOMAIN q.records = DOMAIN r.records \ {s}
      /\ \A t \in DOMAIN q.records : q.records[t] = r.records[t]
  BY <1>1, Plain DEF SameFlags
<1>3. \A b \in BankIds : BankSane(q, b)
  <2> SUFFICES ASSUME NEW b \in BankIds PROVE BankSane(q, b)
    OBVIOUS
  <2>1. BankSane(r, b) BY DEF Sane
  <2>2. /\ r.banks[b].current # None => r.banks[b].current \in DOMAIN r.records \ {s}
        /\ r.banks[b].pending # None => r.banks[b].pending \in DOMAIN r.records \ {s} /\ r.banks[b].current # None
    BY CurrentSound, PendingSound
  <2>3. q.compute = r.compute /\ q.exchange = r.exchange /\ q.banks[b] = r.banks[b] BY <1>2 DEF SameFlags
  <2>4. /\ r.banks[b].current # None => q.records[r.banks[b].current] = r.records[r.banks[b].current]
        /\ r.banks[b].pending # None => q.records[r.banks[b].pending] = r.records[r.banks[b].pending]
    BY <1>2, <2>2
  <2> QED BY <2>1, <2>2, <2>3, <2>4 DEF BankSane
<1>4. RecordsSane(q) BY <1>2 DEF Sane, RecordsSane
<1>5. WidthsFit(q) BY <1>2 DEF Sane, WidthsFit
<1>6. CommandSane(q)
  <2>1. r.command # "SHUTDOWN" BY DEF Sane, CommandSane
  <2> QED BY <1>2, <2>1 DEF Sane, CommandSane, SameFlags
<1>7. ~q.failed BY <1>2 DEF Sane, SameFlags
<1> QED BY <1>2, <1>3, <1>4, <1>5, <1>6, <1>7 DEF Sane

(* The copy that a lane's reply completes, and the lane idle again. *)
CopyOf(call) == IF call = "IMPORT" THEN "H2D" ELSE "D2H"
(* A lane that has replied. *)
Idled(r, b) == [r EXCEPT !.exchange[b] = "NONE"]

(* The fields of Idled. *)
LEMMA IdledFields ==
    ASSUME NEW r, RInv(r), NEW b \in BankIds
    PROVE  /\ Idled(r, b).records = r.records /\ Idled(r, b).banks = r.banks
           /\ Idled(r, b).compute = r.compute /\ Idled(r, b).command = r.command
           /\ Idled(r, b).draining = r.draining /\ Idled(r, b).shutting_down = r.shutting_down
           /\ Idled(r, b).failed = r.failed
           /\ Idled(r, b).exchange[b] = "NONE"
           /\ \A c \in BankIds : c # b => Idled(r, b).exchange[c] = r.exchange[c]
<1>1. /\ Idled(r, b).records = r.records /\ Idled(r, b).banks = r.banks
      /\ Idled(r, b).compute = r.compute /\ Idled(r, b).command = r.command
      /\ Idled(r, b).draining = r.draining /\ Idled(r, b).shutting_down = r.shutting_down
      /\ Idled(r, b).failed = r.failed
      /\ Idled(r, b).exchange = [r.exchange EXCEPT ![b] = "NONE"]
  BY Plain DEF Idled
<1>2. DOMAIN r.exchange = BankIds BY Plain DEF Flags
<1> QED BY <1>1, <1>2

(* The reply of a lane completes the copy of the current WORK. *)
LEMMA ServeSane ==
    ASSUME NEW r, RInv(r), Sane(r), NEW b \in BankIds, r.exchange[b] # "NONE",
           NEW s, s = r.banks[b].current,
           NEW kind, kind = CopyOf(r.exchange[b]),
           NEW p, p = SetJob(r, s, kind, "DONE"),
           NEW q, RInv(q), q = Idled(p, b)
    PROVE  /\ Sane(q) /\ s \in DOMAIN r.records /\ r.records[s].spec.bank_id = b
           /\ Touches(r, q, b, s) /\ q.banks = r.banks
           /\ q.records[s].spec = r.records[s].spec
           /\ q.records[s].physical_done = r.records[s].physical_done
           /\ q.records[s].result = r.records[s].result
           /\ q.records[s].imported = r.records[s].imported
           /\ DirectImports => q.records[s].jobs["D2H"] = "DONE" /\ q.records[s].imported
           /\ q.compute = r.compute /\ q.command = r.command
<1> DEFINE state == r.records[s]
           st == WithJob(state, kind, "DONE")
<1>1. s # None BY DEF Sane, BankSane
<1>2. /\ s \in DOMAIN r.records /\ state.spec.bank_id = b /\ ~state.physical_done
      /\ state \in StateOf(state.spec) /\ r.banks[b] \in BankType
      /\ CurrentSane(state, r.banks[b], r.exchange[b])
      /\ ((r.banks[b].phase = "COMPUTING") <=> (r.compute = s))
  BY <1>1, CurrentSound
<1>3. r.exchange[b] \in {"IMPORT", "EXPORT", "RELEASE"} BY Plain DEF Flags
<1>4. kind \in {"H2D", "D2H"} /\ kind \in JobKinds /\ kind # "COMPUTE" BY DEF JobKinds, CopyOf
<1>5. /\ RInv(p) /\ Touches(r, p, b, s) /\ p.records[s] = st
      /\ p.banks = r.banks /\ p.exchange = r.exchange
      /\ p.compute = r.compute /\ p.command = r.command /\ p.failed = r.failed
  BY <1>1, <1>4, ClearJob DEF JobStates
<1>6. /\ kind = "H2D" => state.jobs["H2D"] = "RUNNING" /\ state.jobs["D2H"] # "RUNNING"
      /\ kind = "D2H" => state.jobs["D2H"] = "RUNNING" /\ state.jobs["H2D"] # "RUNNING"
  BY <1>2, <1>3, Zenon DEF CurrentSane, Exchanging, CopyOf
<1>7. /\ st.spec = state.spec /\ st.layout = state.layout /\ st.outcomes = state.outcomes
      /\ st.captured = state.captured /\ st.plan = state.plan /\ st.metadata = state.metadata
      /\ st.result = state.result /\ st.imported = state.imported
      /\ st.physical_done = state.physical_done
      /\ st.jobs[kind] = "DONE" /\ \A k \in JobKinds : k # kind => st.jobs[k] = state.jobs[k]
  <2>1. state \in StateOf(state.spec) /\ kind \in JobKinds BY <1>2, <1>4
  <2> HIDE DEF state
  <2> QED BY <2>1, WithJobFields
<1> HIDE DEF st
<1>8. /\ q.records = p.records /\ q.banks = r.banks
      /\ q.compute = r.compute /\ q.command = r.command /\ q.failed = r.failed
      /\ q.draining = p.draining /\ q.shutting_down = p.shutting_down
      /\ q.exchange[b] = "NONE" /\ \A c \in BankIds : c # b => q.exchange[c] = r.exchange[c]
  BY <1>5, IdledFields
<1>9. Touches(r, q, b, s) /\ q.records[s] = st
  <2>1. /\ DOMAIN p.records = DOMAIN r.records
        /\ \A t \in DOMAIN r.records : t # s => p.records[t] = r.records[t]
        /\ p.records[s].spec = r.records[s].spec
        /\ p.draining = r.draining /\ p.shutting_down = r.shutting_down
    BY <1>5 DEF Touches
  <2>2. /\ DOMAIN q.records = DOMAIN r.records
        /\ \A t \in DOMAIN r.records : t # s => q.records[t] = r.records[t]
        /\ q.records[s].spec = r.records[s].spec
    BY <1>8, <2>1
  <2>3. q.draining = r.draining /\ q.shutting_down = r.shutting_down BY <1>8, <2>1
  <2>4. \A c \in BankIds : c # b => q.banks[c] = r.banks[c] /\ q.exchange[c] = r.exchange[c]
    BY <1>8
  <2>5. q.records[s] = st BY <1>5, <1>8
  <2> QED BY <2>2, <2>3, <2>4, <2>5, Zenon DEF Touches
<1>10. Live(st) = Live(state) /\ (AllSkipped(state) => AllSkipped(st)) BY <1>7, Zenon DEF Live, AllSkipped
<1>11. CASE kind = "D2H"
  <2>1. /\ st.jobs["D2H"] = "DONE" /\ st.jobs["H2D"] = state.jobs["H2D"]
        /\ st.jobs["METADATA"] = state.jobs["METADATA"] /\ st.jobs["COMPUTE"] = state.jobs["COMPUTE"]
        /\ state.jobs["D2H"] = "RUNNING" /\ state.jobs["H2D"] # "RUNNING"
    BY <1>6, <1>7, <1>11 DEF JobKinds
  <2>2. state.imported
    <3>1. CASE state.result
      <4>1. r.banks[b].phase \in Phases BY <1>2 DEF BankType
      <4> QED BY <1>2, <3>1, <4>1, Zenon DEF CurrentSane, Staged, Phases
    <3>2. CASE ~state.result BY <1>2, <2>1, <3>2, Zenon DEF CurrentSane, Skipping
    <3> QED BY <3>1, <3>2
  <2>3. Staged(st, r.banks[b].phase)
    <3>1. Staged(state, r.banks[b].phase) /\ r.banks[b].phase \in Phases BY <1>2, Zenon DEF CurrentSane, BankType
    <3>2. r.banks[b].phase # "COMPUTING" BY <2>1, <3>1, Zenon DEF Staged, Idle, JobKinds
    <3>3. \A kinds \in {{"D2H"}, {"METADATA", "H2D", "D2H"}} : Idle(state, kinds) => Idle(st, kinds)
      BY <2>1, Zenon DEF Idle, JobKinds
    <3>4. CASE r.banks[b].phase = "FREE" BY <1>7, <3>1, <3>3, <3>4, Zenon DEF Staged
    <3>5. CASE r.banks[b].phase = "FILLING" BY <1>7, <2>1, <3>1, <3>3, <3>5, Zenon DEF Staged
    <3>6. CASE r.banks[b].phase = "READY" BY <1>7, <3>1, <3>3, <3>6, Zenon DEF Staged
    <3>7. CASE r.banks[b].phase = "EXPORTING" BY <1>7, <1>10, <2>1, <3>1, <3>3, <3>7, Zenon DEF Staged
    <3> QED BY <3>1, <3>2, <3>4, <3>5, <3>6, <3>7 DEF Phases
  <2>4. Skipping(st) BY <1>2, <1>7, <1>10, <2>1 DEF CurrentSane, Skipping, Idle, JobKinds
  <2>5. Planned(st) BY <1>2, <1>7, <1>10, Zenon DEF CurrentSane, Planned
  <2>6. Exchanging(st, "NONE") BY <2>1 DEF Exchanging
  <2>7. CurrentSane(st, r.banks[b], "NONE")
    BY <1>2, <1>7, <2>3, <2>4, <2>5, <2>6, Zenon DEF CurrentSane
  <2>8. Sane(q)
    <3>1. ~q.records[s].physical_done BY <1>2, <1>7, <1>9, Zenon
    <3> QED BY <1>1, <1>8, <1>9, <2>7, <3>1, SaneStay
  <2> QED BY <1>2, <1>7, <1>8, <1>9, <2>1, <2>2, <2>8, Zenon
<1>12. CASE kind = "H2D"
  <2>1. /\ st.jobs["H2D"] = "DONE" /\ st.jobs["D2H"] = state.jobs["D2H"]
        /\ st.jobs["METADATA"] = state.jobs["METADATA"] /\ st.jobs["COMPUTE"] = state.jobs["COMPUTE"]
        /\ state.jobs["H2D"] = "RUNNING" /\ state.jobs["D2H"] # "RUNNING"
    BY <1>6, <1>7, <1>12 DEF JobKinds
  <2>2. r.banks[b].phase = "FILLING" /\ ~DirectImports
    <3>1. r.banks[b].phase \in Phases BY <1>2 DEF BankType
    <3> QED BY <1>2, <2>1, <3>1, Zenon DEF CurrentSane, Staged, Idle, Phases, JobKinds
  <2>3. Staged(st, "FILLING") BY <1>2, <1>7, <2>1, <2>2 DEF CurrentSane, Staged, Idle, JobKinds
  <2>4. Skipping(st)
    <3>1. state.jobs["D2H"] = "NONE" \/ state.result
      BY <1>2, <2>1, Zenon DEF CurrentSane, Skipping, Idle, JobKinds
    <3> QED BY <1>7, <2>1, <3>1, Zenon DEF Skipping
  <2>5. Planned(st) BY <1>2, <1>7, <1>10 DEF CurrentSane, Planned
  <2>6. Exchanging(st, "NONE") BY <2>1 DEF Exchanging
  <2>7. CurrentSane(st, r.banks[b], "NONE")
    BY <1>2, <1>7, <2>2, <2>3, <2>4, <2>5, <2>6, Zenon DEF CurrentSane
  <2>8. Sane(q)
    <3>1. ~q.records[s].physical_done BY <1>2, <1>7, <1>9
    <3> QED BY <1>1, <1>8, <1>9, <2>7, <3>1, SaneStay
  <2> QED BY <1>2, <1>7, <1>8, <1>9, <2>2, <2>8, Zenon
<1> QED BY <1>4, <1>11, <1>12, Zenon

(* ControlRuntime.step closes the execution process. *)
Closed(r) == [r EXCEPT !.command = "SHUTDOWN"]

(* Closing it disturbs nothing: no record is left. *)
LEMMA CloseSane ==
    ASSUME NEW r, RInv(r), Sane(r), r.draining, DOMAIN r.records = {},
           NEW q, q = Closed(r)
    PROVE  /\ Sane(q) /\ q.records = r.records /\ q.banks = r.banks /\ q.compute = r.compute
           /\ q.draining = r.draining /\ q.shutting_down = r.shutting_down
           /\ q.exchange = r.exchange /\ q.command = "SHUTDOWN"
<1>1. /\ q.records = r.records /\ q.banks = r.banks /\ q.compute = r.compute
      /\ q.exchange = r.exchange /\ q.command = "SHUTDOWN"
      /\ q.draining = r.draining /\ q.shutting_down = r.shutting_down /\ q.failed = r.failed
  BY Plain DEF Closed
<1>2. r.compute = None BY Plain DEF Sane, CommandSane
<1>3. \A b \in BankIds : BankSane(q, b) BY <1>1 DEF Sane, BankSane
<1>4. RecordsSane(q) /\ WidthsFit(q) BY <1>1 DEF Sane, RecordsSane, WidthsFit
<1>5. CommandSane(q) BY <1>1, <1>2 DEF CommandSane
<1> QED BY <1>1, <1>3, <1>4, <1>5 DEF Sane

(* A new Runtime. *)
LEMMA NewRuntimeSane == Sane(NewRuntime)
<1> DEFINE q == NewRuntime
<1>1. /\ q.records = [s \in {} |-> NewBank] /\ q.banks = [b \in BankIds |-> NewBank]
      /\ q.compute = None /\ q.exchange = [b \in BankIds |-> "NONE"] /\ q.command = "NONE"
      /\ q.failed = FALSE
  BY DEF NewRuntime
<1>2. DOMAIN q.records = {} BY <1>1
<1> HIDE DEF q
<1>3. \A b \in BankIds : BankSane(q, b) BY <1>1 DEF BankSane, NewBank
<1>4. RecordsSane(q) /\ WidthsFit(q) BY <1>2 DEF RecordsSane, WidthsFit
<1>5. CommandSane(q) BY <1>1 DEF CommandSane
<1>6. Sane(q) BY <1>1, <1>3, <1>4, <1>5 DEF Sane
<1> QED BY <1>6 DEF q
=============================================================================
