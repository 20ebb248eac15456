----------------------- MODULE WorkerRuntimeProofs -----------------------
(***************************************************************************)
(* Proofs about WorkerRuntime, for every number of rows, batch size,       *)
(* window, set of operations and number of WORKs.                          *)
(*                                                                         *)
(* The Runtime is one record, and every operation of it is an operator on  *)
(* that record.  RInv is the inductive invariant of the record: there is   *)
(* one lemma per operation, and the actions of the specification follow    *)
(* from them.                                                              *)
(*                                                                         *)
(* The Banks of the Runtime follow: the inductive invariant Sane, which    *)
(* says of every current WORK which jobs may run in which phase of its     *)
(* Bank, that a WORK is in its Bank until it is physically done and that   *)
(* the rows of two Banks fit the pool; what the operations of Banks and    *)
(* Runtime do to the fields Sane reads, and that Banks.allocate finds rows *)
(* under it.                                                               *)
(***************************************************************************)
EXTENDS WorkerRuntime, FiniteSetTheorems, FunctionTheorems, WellFoundedInduction, TLAPS

(* Row ownership of one Runtime record; RowsPartition is Partition(rt). *)
Partition(r) ==
    /\ r.free_rows \cup r.banks[0].layout \cup r.banks[1].layout = PhysicalRows
    /\ r.free_rows \cap (r.banks[0].layout \cup r.banks[1].layout) = {}
    /\ r.banks[0].layout \cap r.banks[1].layout = {}

(* The WORKs a Bank refers to are its own and not yet done; a pending WORK
   waits behind a different current one. *)
Owned(r) ==
    \A b \in BankIds :
        /\ r.banks[b].current # None =>
               /\ r.records[r.banks[b].current].spec.bank_id = b
               /\ ~r.records[r.banks[b].current].physical_done
        /\ r.banks[b].pending # None =>
               /\ r.banks[b].current \notin {None, r.banks[b].pending}
               /\ r.records[r.banks[b].pending].spec.bank_id = b
               /\ ~r.records[r.banks[b].pending].physical_done

(* Only the current WORK of a Bank has jobs, and a model job is handled in
   the step that takes it off the result ring. *)
JobsOfCurrent(r) ==
    \A s \in DOMAIN r.records :
        /\ r.banks[r.records[s].spec.bank_id].current = s \/ NoJobs(r.records[s])
        /\ r.records[s].jobs["COMPUTE"] # "DONE"

(* The job on the command ring is that of the WORK in the compute slot. *)
ComputeTracked(r) ==
    r.command = "COMPUTE" =>
        /\ r.compute \in DOMAIN r.records
        /\ r.records[r.compute].jobs["COMPUTE"] = "RUNNING"

RInv(r) == RuntimeType(r) /\ Partition(r) /\ Owned(r) /\ JobsOfCurrent(r) /\ ComputeTracked(r)

(* The fields besides the records, the Banks and the rows. *)
Flags(q) ==
    /\ q.compute \in Nat
    /\ q.exchange \in [BankIds -> {"NONE", "IMPORT", "EXPORT", "RELEASE"}]
    /\ q.command \in {"NONE", "COMPUTE", "SHUTDOWN"}
    /\ q.draining \in BOOLEAN /\ q.shutting_down \in BOOLEAN /\ q.failed \in BOOLEAN

SameFlags(r, q) ==
    /\ q.compute = r.compute /\ q.exchange = r.exchange /\ q.command = r.command
    /\ q.draining = r.draining /\ q.shutting_down = r.shutting_down /\ q.failed = r.failed

(* q is r with another State for s and another record for its Bank b. *)
Changes(r, q, b, s, st, bank) ==
    /\ DOMAIN q = DOMAIN r
    /\ q.banks = [r.banks EXCEPT ![b] = bank]
    /\ q.records = [r.records EXCEPT ![s] = st]

(* What such a change has to respect to keep RInv. *)
Update(r, q, b, s, st, bank) ==
    /\ b \in BankIds
    /\ s \in DOMAIN r.records
    /\ r.records[s].spec.bank_id = b
    /\ bank \in BankType
    /\ st \in StateOf(r.records[s].spec)
    /\ q.free_rows \in SUBSET PhysicalRows
    /\ q.free_rows \cup bank.layout = r.free_rows \cup r.banks[b].layout
    /\ q.free_rows \cap bank.layout = {}
    /\ \/ /\ bank.current = r.banks[b].current
          /\ bank.pending = r.banks[b].pending
          /\ st.physical_done = r.records[s].physical_done
          /\ bank.current = s \/ NoJobs(st)
       \/ /\ bank.current = r.banks[b].pending
          /\ bank.pending = None
          /\ r.banks[b].current = s
          /\ NoJobs(st)
    /\ st.jobs["COMPUTE"] # "DONE"
    /\ q.command = "COMPUTE" =>
           \/ q.compute = s /\ st.jobs["COMPUTE"] = "RUNNING"
           \/ /\ r.command = "COMPUTE" /\ q.compute = r.compute
              /\ r.compute = s => st.jobs["COMPUTE"] = "RUNNING"
-----------------------------------------------------------------------------
(* What RInv says of the record, without the records. *)
LEMMA Plain ==
    ASSUME NEW r, RInv(r)
    PROVE  /\ DOMAIN r = {"records", "banks", "free_rows", "compute", "exchange", "command",
                           "draining", "shutting_down", "failed"}
           /\ r.banks \in [BankIds -> BankType]
           /\ r.free_rows \in SUBSET PhysicalRows
           /\ Flags(r)
           /\ r.command = "COMPUTE" =>
                  r.compute \in DOMAIN r.records /\ r.records[r.compute].jobs["COMPUTE"] = "RUNNING"
           /\ \A b \in BankIds : r.free_rows \cap r.banks[b].layout = {}
  BY DEF RInv, RuntimeType, ComputeTracked, Partition, Flags, BankIds

(* What RInv says of the State of a WORK. *)
LEMMA StateFacts ==
    ASSUME NEW r, RInv(r), NEW s \in DOMAIN r.records
    PROVE  /\ s \in Seqs
           /\ r.records[s].spec \in Work
           /\ r.records[s] \in StateOf(r.records[s].spec)
           /\ r.records[s].spec.bank_id \in BankIds
           /\ r.records[s].jobs["COMPUTE"] # "DONE"
           /\ r.banks[r.records[s].spec.bank_id] \in BankType
           /\ r.banks[r.records[s].spec.bank_id].current = s \/ NoJobs(r.records[s])
  BY DEF RInv, RuntimeType, JobsOfCurrent, Work

(* What RInv says of the current WORK of a Bank. *)
LEMMA CurrentFacts ==
    ASSUME NEW r, RInv(r), NEW b \in BankIds, NEW s, s # None, s = r.banks[b].current
    PROVE  /\ s \in DOMAIN r.records
           /\ r.records[s].spec.bank_id = b
           /\ r.records[s].physical_done = FALSE
           /\ r.records[s].spec \in Work
           /\ r.records[s] \in StateOf(r.records[s].spec)
           /\ r.records[s].jobs["COMPUTE"] # "DONE"
           /\ r.banks[b] \in BankType
  BY DEF RInv, RuntimeType, Owned, JobsOfCurrent, StateOf

(* A change of the flags alone keeps the invariant. *)
LEMMA FlagsInv ==
    ASSUME NEW r, RInv(r), NEW q,
           DOMAIN q = DOMAIN r, q.records = r.records, q.banks = r.banks, q.free_rows = r.free_rows,
           Flags(q),
           q.command = "COMPUTE" => r.command = "COMPUTE" /\ q.compute = r.compute
    PROVE  RInv(q)
<1>1. RuntimeType(q) BY DEF RInv, RuntimeType, Flags
<1>2. Partition(q) BY DEF RInv, Partition
<1>3. Owned(q) BY DEF RInv, Owned
<1>4. JobsOfCurrent(q) BY DEF RInv, JobsOfCurrent
<1>5. ComputeTracked(q) BY DEF RInv, ComputeTracked
<1> QED BY <1>1, <1>2, <1>3, <1>4, <1>5 DEF RInv

(* A change of one WORK and its Bank keeps it if it respects Update. *)
LEMMA UpdateInv ==
    ASSUME NEW r, NEW q, NEW b, NEW s, NEW st, NEW bank,
           RInv(r), Flags(q), Changes(r, q, b, s, st, bank), Update(r, q, b, s, st, bank)
    PROVE  RInv(q)
<1> USE DEF Changes, Update, BankIds
<1>1. /\ q.banks \in [BankIds -> BankType]
      /\ q.banks[b] = bank
      /\ \A c \in BankIds : c # b => q.banks[c] = r.banks[c]
      /\ r.banks \in [BankIds -> BankType]
  BY DEF RInv, RuntimeType
<1>2. /\ DOMAIN q.records = DOMAIN r.records
      /\ q.records = [t \in DOMAIN r.records |-> q.records[t]]
      /\ q.records[s] = st
      /\ \A t \in DOMAIN r.records : t # s => q.records[t] = r.records[t]
  BY DEF RInv, RuntimeType
<1>3. /\ st.spec = r.records[s].spec
      /\ \A t \in DOMAIN r.records : /\ q.records[t].spec = r.records[t].spec
                                     /\ r.records[t].spec \in Work
                                     /\ r.records[t].spec.bank_id \in BankIds
                                     /\ q.records[t] \in StateOf(q.records[t].spec)
  BY <1>2 DEF RInv, RuntimeType, StateOf, Work
<1>4. \A c \in BankIds : /\ {r.banks[c].current, r.banks[c].pending} \ {None} \subseteq DOMAIN r.records
                         /\ {q.banks[c].current, q.banks[c].pending} \ {None} \subseteq DOMAIN r.records
  BY <1>1 DEF RInv, RuntimeType
<1>5. RuntimeType(q)
  BY <1>1, <1>2, <1>3, <1>4 DEF RInv, RuntimeType, Flags
<1>6. Partition(q)
  BY <1>1 DEF RInv, Partition
<1>7. Owned(q)
  BY <1>1, <1>2, <1>3, <1>4 DEF RInv, Owned
<1>8. JobsOfCurrent(q)
  BY <1>1, <1>2, <1>3, <1>4 DEF RInv, JobsOfCurrent, Owned
<1>9. ComputeTracked(q)
  BY <1>2, <1>3 DEF RInv, ComputeTracked
<1> QED BY <1>5, <1>6, <1>7, <1>8, <1>9 DEF RInv

(* The fields of Put. *)
LEMMA PutFields ==
    ASSUME NEW r, RInv(r), NEW s, NEW st, NEW bank, NEW b, st.spec.bank_id = b,
           NEW q, q = Put(r, s, st, bank)
    PROVE  Changes(r, q, b, s, st, bank) /\ SameFlags(r, q) /\ q.free_rows = r.free_rows
  BY Plain DEF Put, Changes, SameFlags

(* Recording an exception (Runtime.step) keeps the invariant. *)
LEMMA FailInv ==
    ASSUME NEW r, RInv(r), NEW q, q = Fail(r)
    PROVE  RInv(q) /\ q.banks = r.banks /\ q.failed
<1>1. /\ q.records = r.records /\ q.banks = r.banks /\ q.free_rows = r.free_rows
      /\ q.compute = r.compute /\ q.exchange = r.exchange /\ q.command = r.command
      /\ q.draining = r.draining /\ q.shutting_down = r.shutting_down
      /\ q.failed = TRUE /\ DOMAIN q = DOMAIN r
  BY Plain DEF Fail
<1>2. Flags(q) BY <1>1, Plain DEF Flags
<1>3. RInv(q) BY <1>1, <1>2, FlagsInv
<1> QED BY <1>1, <1>3

(* Runtime._release gives the rows and the Bank of its current WORK back. *)
LEMMA ReleaseInv ==
    ASSUME NEW r, RInv(r), NEW b \in BankIds, NEW s, s # None, s = r.banks[b].current,
           NEW q, q = Release(r, s)
    PROVE  RInv(q)
<1> DEFINE state == r.records[s]
           bank == r.banks[b]
           st == [state EXCEPT !.physical_done = TRUE]
           next == [bank EXCEPT !.current = bank.pending, !.pending = None]
           free == [next EXCEPT !.layout = {}, !.phase = "FREE"]
<1>1. /\ s \in DOMAIN r.records /\ state.spec.bank_id = b
      /\ bank \in BankType /\ state.spec \in Work /\ state \in StateOf(state.spec)
      /\ state.jobs["COMPUTE"] # "DONE"
  BY CurrentFacts, Zenon DEF BankIds
<1>2. CASE ~NoJobs(state) \/ (state.layout # {} /\ bank.layout # state.layout)
  <2>1. q = Fail(r) BY <1>1, <1>2, Zenon DEF Release
  <2> QED BY <2>1, FailInv
<1>3. CASE NoJobs(state) /\ (state.layout = {} \/ bank.layout = state.layout)
  <2>1. /\ st \in StateOf(state.spec) /\ NoJobs(st) /\ st.jobs["COMPUTE"] # "DONE"
        /\ st.spec.bank_id = b
    BY <1>1, <1>3, Zenon DEF StateOf, NoJobs
  <2>2. r.command = "COMPUTE" => r.compute # s
    BY <1>3, Plain DEF NoJobs, JobKinds
  <2>3. CASE state.layout = {}
    <3>1. q = Put(r, s, st, next)
      BY <1>1, <1>3, <2>3, Zenon DEF Release
    <3>2. next \in BankType /\ next.layout = bank.layout /\ next.current = bank.pending /\ next.pending = None
      BY <1>1 DEF BankType, None
    <3> HIDE DEF next, st
    <3>3. Changes(r, q, b, s, st, next) /\ SameFlags(r, q) /\ q.free_rows = r.free_rows
      BY <3>1, <2>1, PutFields
    <3>4. Update(r, q, b, s, st, next)
      BY <3>2, <3>3, <2>1, <2>2, <1>1, Plain DEF Update, SameFlags
    <3> QED BY <3>3, <3>4, Plain, UpdateInv DEF Flags, SameFlags
  <2>4. CASE state.layout # {}
    <3> DEFINE p == Put(r, s, st, free)
    <3>1. q = [p EXCEPT !.free_rows = r.free_rows \cup bank.layout]
      BY <1>1, <1>3, <2>4, Zenon DEF Release
    <3>2. free \in BankType /\ free.layout = {} /\ free.current = bank.pending /\ free.pending = None
      BY <1>1 DEF BankType, None, Phases
    <3> HIDE DEF next, free, st, p
    <3>3. Changes(r, p, b, s, st, free) /\ SameFlags(r, p)
      BY <2>1, PutFields DEF p
    <3>4. Changes(r, q, b, s, st, free) /\ SameFlags(r, q) /\ q.free_rows = r.free_rows \cup bank.layout
      BY <3>1, <3>3, Plain DEF Changes, SameFlags
    <3>5. Update(r, q, b, s, st, free)
      BY <3>2, <3>4, <2>1, <2>2, <1>1, Plain DEF Update, SameFlags, BankType
    <3> QED BY <3>4, <3>5, Plain, UpdateInv DEF Flags, SameFlags
  <2> QED BY <2>3, <2>4
<1> QED BY <1>2, <1>3

(* A change of one State alone. *)
SetState(r, s, st) == [r EXCEPT !.records[s] = st]

StateUpdate(r, s, st) ==
    /\ s \in DOMAIN r.records
    /\ st \in StateOf(r.records[s].spec)
    /\ st.physical_done = r.records[s].physical_done
    /\ r.banks[r.records[s].spec.bank_id].current = s \/ NoJobs(st)
    /\ st.jobs["COMPUTE"] # "DONE"
    /\ (r.command = "COMPUTE" /\ r.compute = s) => st.jobs["COMPUTE"] = "RUNNING"

(* It keeps the invariant if it respects StateUpdate. *)
LEMMA StateInv ==
    ASSUME NEW r, RInv(r), NEW s, NEW st, StateUpdate(r, s, st), NEW q, q = SetState(r, s, st)
    PROVE  RInv(q) /\ q.banks = r.banks /\ SameFlags(r, q)
<1> USE DEF StateUpdate
<1> DEFINE b == r.records[s].spec.bank_id
<1>1. b \in BankIds /\ r.banks[b] \in BankType
  BY StateFacts
<1>2. /\ DOMAIN q = DOMAIN r /\ q.banks = r.banks
      /\ q.records = [r.records EXCEPT ![s] = st]
      /\ SameFlags(r, q) /\ q.free_rows = r.free_rows
  BY Plain DEF SameFlags, SetState
<1>3. Changes(r, q, b, s, st, r.banks[b])
  <2>1. r.banks = [r.banks EXCEPT ![b] = r.banks[b]] BY <1>1, Plain
  <2> QED BY <1>2, <2>1 DEF Changes
<1>4. Update(r, q, b, s, st, r.banks[b])
  BY <1>1, <1>2, Plain, Zenon DEF Update, SameFlags
<1>5. Flags(q) BY <1>2, Plain DEF Flags, SameFlags
<1> HIDE DEF b
<1>6. RInv(q) BY <1>3, <1>4, <1>5, UpdateInv
<1> QED BY <1>2, <1>6

(* A change of the State of a Bank's current WORK and of the Bank's phase. *)
PutUpdate(r, b, s, st, bank) ==
    /\ b \in BankIds /\ s # None /\ s = r.banks[b].current
    /\ st \in StateOf(r.records[s].spec)
    /\ st.physical_done = r.records[s].physical_done
    /\ st.jobs["COMPUTE"] = r.records[s].jobs["COMPUTE"]
    /\ bank \in BankType
    /\ bank.current = s /\ bank.pending = r.banks[b].pending /\ bank.layout = r.banks[b].layout

(* It keeps the invariant if it respects PutUpdate. *)
LEMMA PutInv ==
    ASSUME NEW r, RInv(r), NEW b, NEW s, NEW st, NEW bank, PutUpdate(r, b, s, st, bank),
           NEW q, q = Put(r, s, st, bank)
    PROVE  RInv(q) /\ q.banks[b] = bank
<1> USE DEF PutUpdate
<1>1. /\ s \in DOMAIN r.records /\ r.records[s].spec.bank_id = b
      /\ r.records[s].jobs["COMPUTE"] # "DONE"
  BY CurrentFacts DEF BankIds
<1>2. st.spec.bank_id = b
  BY <1>1 DEF StateOf
<1>3. Changes(r, q, b, s, st, bank) /\ SameFlags(r, q) /\ q.free_rows = r.free_rows
  BY <1>2, PutFields
<1>4. Update(r, q, b, s, st, bank)
  BY <1>1, <1>3, Plain DEF Update, SameFlags
<1>5. Flags(q) BY <1>3, Plain DEF Flags, SameFlags
<1>6. RInv(q) BY <1>3, <1>4, <1>5, UpdateInv
<1>7. q.banks[b] = bank BY <1>3, Plain DEF Changes
<1> QED BY <1>6, <1>7

SetPhase(r, b, phase) == [r EXCEPT !.banks[b].phase = phase]

(* A change of the phase of an occupied Bank keeps the invariant. *)
LEMMA PhaseInv ==
    ASSUME NEW r, RInv(r), NEW b \in BankIds, NEW s, s # None, s = r.banks[b].current,
           NEW phase \in Phases, NEW q, q = SetPhase(r, b, phase)
    PROVE  RInv(q)
<1> DEFINE st == r.records[s]
           bank == [r.banks[b] EXCEPT !.phase = phase]
<1>1. /\ s \in DOMAIN r.records /\ st.spec.bank_id = b /\ st \in StateOf(st.spec)
      /\ st.jobs["COMPUTE"] # "DONE" /\ r.banks[b] \in BankType
  BY CurrentFacts DEF BankIds
<1>2. /\ DOMAIN q = DOMAIN r /\ q.records = r.records /\ q.free_rows = r.free_rows
      /\ q.banks = [r.banks EXCEPT ![b] = bank] /\ SameFlags(r, q)
  BY Plain DEF SetPhase, SameFlags
<1>3. r.records = [r.records EXCEPT ![s] = st]
  BY <1>1 DEF RInv, RuntimeType
<1>4. /\ bank \in BankType /\ bank.layout = r.banks[b].layout
      /\ bank.current = s /\ bank.pending = r.banks[b].pending
  BY <1>1 DEF BankType
<1> HIDE DEF bank
<1>5. Changes(r, q, b, s, st, bank)
  BY <1>2, <1>3 DEF Changes
<1>6. Update(r, q, b, s, st, bank)
  BY <1>1, <1>2, <1>4, Plain DEF Update, SameFlags
<1>7. Flags(q) BY <1>2, Plain DEF Flags, SameFlags
<1> QED BY <1>5, <1>6, <1>7, UpdateInv

(* Banks.allocate takes its rows from the free ones. *)
LEMMA LowestRows == ASSUME NEW n, NEW rows PROVE Lowest(n, rows) \subseteq rows
  BY DEF Lowest

(* Banks.allocate for the current WORK of a Bank. *)
LEMMA AllocateInv ==
    ASSUME NEW r, RInv(r), NEW b \in BankIds, NEW s, s # None, s = r.banks[b].current,
           NEW q, q = Allocate(r, s)
    PROVE  RInv(q) /\ q.banks[b].current = s
<1> DEFINE state == r.records[s]
           bank == r.banks[b]
           rows == Lowest(state.spec.rows, r.free_rows)
           st == [state EXCEPT !.layout = rows]
           filling == [bank EXCEPT !.layout = rows, !.epoch = state.spec.bank_epoch, !.phase = "FILLING"]
           p == Put(r, s, st, filling)
<1>1. /\ s \in DOMAIN r.records /\ state.spec.bank_id = b
      /\ bank \in BankType /\ state.spec \in Work /\ state \in StateOf(state.spec)
      /\ state.jobs["COMPUTE"] # "DONE"
  BY CurrentFacts DEF BankIds
<1>2. CASE q = Fail(r) BY <1>2, FailInv
<1>3. CASE q = r BY <1>3
<1>4. CASE bank.layout = {} /\ q = [p EXCEPT !.free_rows = r.free_rows \ rows]
  <2>1. rows \subseteq r.free_rows BY LowestRows
  <2>2. /\ st \in StateOf(state.spec) /\ st.jobs = state.jobs /\ st.spec.bank_id = b
        /\ st.physical_done = state.physical_done
    BY <1>1, <2>1, Plain, Zenon DEF StateOf
  <2>3. /\ filling \in BankType /\ filling.layout = rows
        /\ filling.current = s /\ filling.pending = bank.pending
    BY <1>1, <2>1, Plain, Zenon DEF BankType, Phases, Work
  <2> HIDE DEF rows, st, filling, p
  <2>4. Changes(r, p, b, s, st, filling) /\ SameFlags(r, p)
    BY <2>2, PutFields DEF p
  <2>5. Changes(r, q, b, s, st, filling) /\ SameFlags(r, q) /\ q.free_rows = r.free_rows \ rows
    BY <1>4, <2>4, Plain DEF Changes, SameFlags
  <2>6. Update(r, q, b, s, st, filling)
    BY <1>1, <1>4, <2>1, <2>2, <2>3, <2>5, Plain DEF Update, SameFlags
  <2>7. Flags(q) BY <2>5, Plain DEF Flags, SameFlags
  <2>8. RInv(q) BY <2>5, <2>6, <2>7, UpdateInv
  <2>9. q.banks[b] = filling BY <2>5, Plain DEF Changes
  <2> QED BY <2>3, <2>8, <2>9
<1> HIDE DEF p, filling, st
<1> QED BY <1>1, <1>2, <1>3, <1>4, Zenon DEF Allocate, p, filling, st

(* ProcessDMA._exchange for the current WORK of a Bank. *)
LEMMA ExchangeInv ==
    ASSUME NEW r, RInv(r), NEW b \in BankIds, NEW s, s # None, s = r.banks[b].current,
           NEW kind \in {"H2D", "D2H"}, NEW command \in {"IMPORT", "EXPORT", "RELEASE"},
           NEW q, q = Exchange(r, s, kind, command)
    PROVE  RInv(q) /\ q.banks = r.banks
<1> DEFINE state == r.records[s]
           st == [state EXCEPT !.jobs[kind] = "RUNNING"]
           e == [r EXCEPT !.exchange[b] = command]
<1>1. /\ s \in DOMAIN r.records /\ state.spec.bank_id = b
      /\ state.spec \in Work /\ state \in StateOf(state.spec)
      /\ state.jobs["COMPUTE"] # "DONE"
  BY CurrentFacts DEF BankIds
<1>2. CASE q = Fail(r) BY <1>2, FailInv
<1>3. CASE q = [r EXCEPT !.exchange[b] = command, !.records[s].jobs[kind] = "RUNNING"]
  <2>1. /\ DOMAIN e = DOMAIN r /\ e.records = r.records /\ e.banks = r.banks /\ e.free_rows = r.free_rows
        /\ Flags(e) /\ e.command = r.command /\ e.compute = r.compute
    BY Plain DEF Flags
  <2>2. RInv(e)
    <3> HIDE DEF e
    <3> QED BY <2>1, FlagsInv
  <2>3. q = SetState(e, s, st)
    BY <1>3, Plain DEF SetState
  <2>4. /\ st \in StateOf(state.spec) /\ st.physical_done = state.physical_done
        /\ st.jobs["COMPUTE"] = state.jobs["COMPUTE"]
    BY <1>1, Zenon DEF StateOf, JobKinds, JobStates
  <2> HIDE DEF e, st
  <2>5. (r.command = "COMPUTE" /\ r.compute = s) => st.jobs["COMPUTE"] = "RUNNING"
    BY <2>4, Plain
  <2>6. StateUpdate(e, s, st)
    BY <1>1, <2>1, <2>4, <2>5 DEF StateUpdate
  <2>7. RInv(q) /\ q.banks = e.banks
    BY <2>2, <2>3, <2>6, StateInv
  <2> QED BY <2>1, <2>7
<1> QED BY <1>1, <1>2, <1>3 DEF Exchange
-----------------------------------------------------------------------------
(***************************************************************************)
(* Runtime._advance, paragraph by paragraph.                               *)
(***************************************************************************)
(* Runtime._finish. *)
LEMMA FinishInv ==
    ASSUME NEW r, RInv(r), NEW b \in BankIds, NEW s, s # None, s = r.banks[b].current,
           NEW q, q = Finish(r, s)
    PROVE  RInv(q)
<1>1. CASE DirectImports
  <2>1. q = Exchange(r, s, "D2H", "RELEASE") BY <1>1 DEF Finish
  <2> QED BY <2>1, ExchangeInv
<1>2. CASE ~DirectImports
  <2>1. q = Release(r, s) BY <1>2 DEF Finish
  <2> QED BY <2>1, ReleaseInv
<1> QED BY <1>1, <1>2

(* Taking the import receipt of the lane. *)
LEMMA TakeReceiptInv ==
    ASSUME NEW r, RInv(r), NEW b \in BankIds, NEW s, s # None, s = r.banks[b].current,
           NEW receipt, NEW q, q = TakeReceipt(r, s, receipt)
    PROVE  RInv(q) /\ q.banks[b].current = s
<1> DEFINE st == [r.records[s] EXCEPT !.imported = TRUE]
<1>1. /\ s \in DOMAIN r.records /\ r.records[s].spec.bank_id = b
      /\ r.records[s] \in StateOf(r.records[s].spec)
      /\ r.records[s].jobs["COMPUTE"] # "DONE"
  BY CurrentFacts, Zenon DEF BankIds
<1>2. CASE q = r BY <1>2
<1>3. CASE q = SetState(r, s, st)
  <2>1. /\ st \in StateOf(r.records[s].spec) /\ st.jobs = r.records[s].jobs
        /\ st.physical_done = r.records[s].physical_done
    BY <1>1, Zenon DEF StateOf
  <2> HIDE DEF st
  <2>2. StateUpdate(r, s, st) BY <1>1, <2>1, Plain DEF StateUpdate
  <2> QED BY <1>3, <2>2, StateInv
<1> QED BY <1>2, <1>3 DEF TakeReceipt, SetState

(* The inline jobs and the start of the metadata job. *)
LEMMA CompileInv ==
    ASSUME NEW r, RInv(r), NEW b \in BankIds, NEW s, s # None, s = r.banks[b].current,
           NEW q, q = [r EXCEPT !.records[s] = Compile(@)]
    PROVE  RInv(q) /\ q.banks = r.banks
<1> DEFINE state == r.records[s]
           st == Compile(state)
<1>1. /\ s \in DOMAIN r.records /\ state.spec.bank_id = b
      /\ state \in StateOf(state.spec) /\ state.jobs["COMPUTE"] # "DONE"
  BY CurrentFacts, Zenon DEF BankIds
<1>2. /\ st \in StateOf(state.spec) /\ st.jobs["COMPUTE"] = state.jobs["COMPUTE"]
      /\ st.physical_done = state.physical_done
  <2>1. Ready(state, {"source"}) \in BOOLEAN BY DEF Ready
  <2>2. Live(state) \in SUBSET Members(state.spec) BY <1>1 DEF Live, StateOf
  <2> DEFINE described == state.import_inputs \/ Ready(state, {"source"})
             complete == \A i \in Live(state) : Dependencies(state.spec.operation) \subseteq state.captured[i]
             plan == IF state.plan = {} /\ complete THEN Live(state) ELSE state.plan
             job == IF described /\ ~state.metadata THEN "RUNNING" ELSE state.jobs["METADATA"]
  <2>3. st = [state EXCEPT !.import_inputs = described, !.plan = plan, !.jobs["METADATA"] = job]
    BY <1>1, Zenon DEF Compile, StateOf
  <2>4. described \in BOOLEAN BY <1>1, <2>1 DEF StateOf
  <2>5. plan \in SUBSET Members(state.spec) BY <1>1, <2>2, Zenon DEF StateOf
  <2>6. job \in JobStates BY <1>1 DEF StateOf, JobKinds, JobStates
  <2> HIDE DEF described, complete, plan, job, st
  <2> QED BY <1>1, <2>3, <2>4, <2>5, <2>6, Zenon DEF StateOf, JobKinds
<1>3. q = SetState(r, s, st) BY Plain DEF SetState
<1> HIDE DEF st
<1>4. StateUpdate(r, s, st) BY <1>1, <1>2, Plain DEF StateUpdate
<1> QED BY <1>3, <1>4, StateInv

(* Joining, submitting or skipping the import. *)
LEMMA JoinImportInv ==
    ASSUME NEW r, RInv(r), NEW b \in BankIds, NEW s, s # None, s = r.banks[b].current,
           NEW q, q = JoinImport(r, s)
    PROVE  RInv(q)
<1> DEFINE state == r.records[s]
           st == [state EXCEPT !.imported = TRUE]
           bank == [r.banks[b] EXCEPT !.phase = "READY"]
<1>1. /\ s \in DOMAIN r.records /\ state.spec.bank_id = b
      /\ state \in StateOf(state.spec) /\ r.banks[b] \in BankType
  BY CurrentFacts DEF BankIds
<1>2. CASE q = r BY <1>2
<1>3. CASE q = SetPhase(r, b, "READY")
  BY <1>3, PhaseInv DEF Phases
<1>4. CASE q = Exchange(r, s, "H2D", "IMPORT")
  BY <1>4, ExchangeInv
<1>5. CASE q = Put(r, s, st, bank)
  <2>1. /\ st \in StateOf(state.spec) /\ st.jobs = state.jobs /\ st.physical_done = state.physical_done
    BY <1>1, Zenon DEF StateOf
  <2>2. /\ bank \in BankType /\ bank.current = s /\ bank.pending = r.banks[b].pending
        /\ bank.layout = r.banks[b].layout
    BY <1>1 DEF BankType, Phases
  <2> HIDE DEF st, bank
  <2>3. PutUpdate(r, b, s, st, bank) BY <1>1, <2>1, <2>2 DEF PutUpdate
  <2> QED BY <1>5, <2>3, PutInv
<1> HIDE DEF bank, st
<1> QED BY <1>1, <1>2, <1>3, <1>4, <1>5, Zenon DEF JoinImport, SetPhase, bank, st

(* Runtime._advance as a whole. *)
LEMMA AdvanceInv ==
    ASSUME NEW r, RInv(r), NEW b \in BankIds, NEW receipt, NEW q, q = Advance(r, b, receipt)
    PROVE  RInv(q)
<1> DEFINE s == r.banks[b].current
           received == TakeReceipt(r, s, receipt)
           laidOut == LayOut(received, s)
           compiled == [laidOut EXCEPT !.records[s] = Compile(@)]
<1>1. CASE s = None
  BY <1>1 DEF Advance
<1>2. CASE s # None
  <2> HIDE DEF s
  <2>0. s = r.banks[b].current BY DEF s
  <2>1. RInv(received) /\ received.banks[b].current = s
    BY <1>2, <2>0, TakeReceiptInv
  <2> HIDE DEF received
  <2>2. RInv(laidOut) /\ laidOut.banks[b].current = s
    <3>1. CASE laidOut = received BY <2>1, <3>1
    <3>2. CASE laidOut = Allocate(received, s) BY <1>2, <2>1, <3>2, AllocateInv
    <3> QED BY <3>1, <3>2 DEF LayOut
  <2> HIDE DEF laidOut
  <2>3. RInv(compiled) /\ compiled.banks = laidOut.banks
    BY <1>2, <2>2, CompileInv
  <2> HIDE DEF compiled
  <2>4. CASE q = received BY <2>1, <2>4
  <2>5. CASE q = Finish(received, s)
    BY <1>2, <2>1, <2>5, FinishInv
  <2>6. CASE q = laidOut BY <2>2, <2>6
  <2>7. CASE q = JoinImport(compiled, s)
    BY <1>2, <2>2, <2>3, <2>7, JoinImportInv
  <2>8. \/ q = received \/ q = Finish(received, s) \/ q = laidOut \/ q = JoinImport(compiled, s)
    BY <1>2, Zenon DEF Advance, FinishSkipped, Prepare, s, received, laidOut, compiled
  <2> QED BY <2>4, <2>5, <2>6, <2>7, <2>8
<1> QED BY <1>1, <1>2

(* At most one WORK per Bank is eligible, so the oldest exists. *)
LEMMA OldestEligible ==
    ASSUME NEW r, RInv(r), Eligible(r) # {}
    PROVE  Oldest(Eligible(r)) \in Eligible(r)
<1> DEFINE S == Eligible(r)
           x == r.banks[0].current
           y == r.banks[1].current
<1>1. S \subseteq {x, y}
  BY StateFacts DEF Eligible, BankIds
<1>2. x \in Nat /\ y \in Nat
  BY Plain DEF BankType, BankIds
<1> HIDE DEF S, x, y
<1>3. \E s \in S : \A u \in S : s <= u
  BY <1>1, <1>2 DEF S
<1> QED BY <1>3 DEF Oldest, S

(* Runtime._dispatch_compute. *)
LEMMA DispatchInv ==
    ASSUME NEW r, RInv(r), NEW q, q = DispatchCompute(r)
    PROVE  RInv(q)
<1> DEFINE s == Oldest(Eligible(r))
           state == r.records[s]
           b == state.spec.bank_id
           st == [state EXCEPT !.jobs["COMPUTE"] = "RUNNING"]
           bank == [r.banks[b] EXCEPT !.phase = "COMPUTING"]
           p == Put(r, s, st, bank)
<1>1. CASE q = r BY <1>1
<1>2. CASE q = Fail(r) BY <1>2, FailInv
<1>3. CASE Eligible(r) # {} /\ q = [p EXCEPT !.compute = s, !.command = "COMPUTE"]
  <2> HIDE DEF s
  <2>1. s \in DOMAIN r.records /\ r.banks[b].current = s
    BY <1>3, OldestEligible, Zenon DEF Eligible, s
  <2>2. s \in Seqs /\ state \in StateOf(state.spec) /\ b \in BankIds /\ r.banks[b] \in BankType
    BY <2>1, StateFacts
  <2>3. /\ st \in StateOf(state.spec) /\ st.jobs["COMPUTE"] = "RUNNING" /\ st.spec.bank_id = b
        /\ st.physical_done = state.physical_done
    BY <2>2 DEF StateOf, JobKinds, JobStates
  <2>4. /\ bank \in BankType /\ bank.current = s /\ bank.pending = r.banks[b].pending
        /\ bank.layout = r.banks[b].layout
    BY <2>1, <2>2, Zenon DEF BankType, Phases
  <2> HIDE DEF st, bank, p, b
  <2>5. Changes(r, p, b, s, st, bank) /\ SameFlags(r, p) /\ p.free_rows = r.free_rows
    BY <2>3, PutFields DEF p
  <2>6. /\ Changes(r, q, b, s, st, bank) /\ q.free_rows = r.free_rows
        /\ q.compute = s /\ q.command = "COMPUTE" /\ q.exchange = r.exchange
        /\ q.draining = r.draining /\ q.shutting_down = r.shutting_down /\ q.failed = r.failed
    BY <1>3, <2>5, Plain DEF Changes, SameFlags
  <2>7. Update(r, q, b, s, st, bank)
    <3>1. r.records[s].spec.bank_id = b BY DEF b
    <3>2. r.free_rows \cap r.banks[b].layout = {} /\ r.free_rows \in SUBSET PhysicalRows
      BY <2>2, Plain
    <3> QED BY <2>1, <2>2, <2>3, <2>4, <2>6, <3>1, <3>2 DEF Update
  <2>8. Flags(q) BY <2>2, <2>6, Plain DEF Flags, Seqs
  <2> QED BY <2>6, <2>7, <2>8, UpdateInv
<1> HIDE DEF s, b, st, bank, p
<1> QED BY <1>1, <1>2, <1>3 DEF DispatchCompute, s, b, st, bank, p

(* One Bank of Runtime._step. *)
LEMMA StepBankInv ==
    ASSUME NEW r, RInv(r), NEW b \in BankIds, NEW receipt, NEW q, q = StepBank(r, b, receipt)
    PROVE  RInv(q)
<1> DEFINE advanced == IF r.failed THEN r ELSE Advance(r, b, receipt)
<1>1. RInv(advanced) BY AdvanceInv
<1>2. q = advanced \/ q = DispatchCompute(advanced) BY DEF StepBank
<1> HIDE DEF advanced
<1> QED BY <1>1, <1>2, DispatchInv
-----------------------------------------------------------------------------
(***************************************************************************)
(* Completions, facts, stop commands, registration and retirement.         *)
(***************************************************************************)
(* Submission or completion of a job of a current WORK. *)
LEMMA SetJobInv ==
    ASSUME NEW r, RInv(r), NEW b \in BankIds, NEW s, s # None, s = r.banks[b].current,
           NEW kind \in JobKinds, NEW status \in JobStates,
           kind = "COMPUTE" => status = "NONE" /\ r.command # "COMPUTE",
           NEW q, q = SetJob(r, s, kind, status)
    PROVE  RInv(q) /\ q.banks = r.banks /\ SameFlags(r, q)
<1> DEFINE st == [r.records[s] EXCEPT !.jobs[kind] = status]
<1>1. /\ s \in DOMAIN r.records /\ r.records[s].spec.bank_id = b
      /\ r.records[s] \in StateOf(r.records[s].spec)
      /\ r.records[s].jobs["COMPUTE"] # "DONE"
  BY CurrentFacts, Zenon DEF BankIds
<1>2. /\ st \in StateOf(r.records[s].spec) /\ st.physical_done = r.records[s].physical_done
      /\ st.jobs["COMPUTE"] = IF kind = "COMPUTE" THEN status ELSE r.records[s].jobs["COMPUTE"]
  BY <1>1, Zenon DEF StateOf, JobKinds
<1>3. q = SetState(r, s, st) BY DEF SetJob, SetState
<1> HIDE DEF st
<1>4. StateUpdate(r, s, st) BY <1>1, <1>2, Plain DEF StateUpdate
<1> QED BY <1>3, <1>4, StateInv

(* Runtime._apply of a model result. *)
LEMMA ApplyComputeInv ==
    ASSUME NEW r, RInv(r), NEW b \in BankIds, NEW s, s # None, s = r.banks[b].current,
           r.command # "COMPUTE", NEW q, q = ApplyCompute(r, s)
    PROVE  RInv(q)
<1> DEFINE state == r.records[s]
           executed == [state EXCEPT !.result = TRUE,
                                     !.outcomes = [i \in DOMAIN @ |->
                                         IF i \in state.plan THEN "EXECUTED" ELSE @[i]]]
           e == [r EXCEPT !.compute = None]
           done == [r EXCEPT !.compute = None, !.records[s] = executed]
           exported == Exchange(done, s, "D2H", "EXPORT")
<1>1. /\ s \in DOMAIN r.records /\ state.spec.bank_id = b
      /\ state \in StateOf(state.spec) /\ state.jobs["COMPUTE"] # "DONE"
  BY CurrentFacts, Zenon DEF BankIds
<1>2. /\ executed \in StateOf(state.spec) /\ executed.jobs = state.jobs
      /\ executed.physical_done = state.physical_done
  BY <1>1 DEF StateOf, Outcomes
<1> HIDE DEF executed
<1>3. /\ DOMAIN e = DOMAIN r /\ e.records = r.records /\ e.banks = r.banks /\ e.free_rows = r.free_rows
      /\ Flags(e) /\ e.command = r.command
  BY Plain DEF Flags, None
<1>4. done = SetState(e, s, executed)
  BY Plain DEF SetState
<1> HIDE DEF e, done
<1>5. RInv(e) BY <1>3, FlagsInv
<1>6. StateUpdate(e, s, executed)
  BY <1>1, <1>2, <1>3 DEF StateUpdate
<1>7. RInv(done) /\ done.banks = r.banks
  BY <1>3, <1>4, <1>5, <1>6, StateInv
<1>8. RInv(exported) /\ exported.banks = done.banks
  BY <1>7, ExchangeInv
<1> HIDE DEF exported
<1>9. RInv(SetPhase(exported, b, "EXPORTING"))
  BY <1>7, <1>8, PhaseInv DEF Phases
<1>10. q = Fail(r) \/ q = exported \/ q = SetPhase(exported, b, "EXPORTING")
  BY <1>1, Zenon DEF ApplyCompute, SetPhase, exported, done, executed
<1> QED BY <1>8, <1>9, <1>10, FailInv

(* Runtime._handle of any completion. *)
LEMMA HandleInv ==
    ASSUME NEW r, RInv(r), NEW b \in BankIds, NEW s, s # None, s = r.banks[b].current,
           NEW kind \in JobKinds, kind = "COMPUTE" => r.command # "COMPUTE",
           NEW q, q = Handle(r, s, kind)
    PROVE  RInv(q)
<1> DEFINE p == SetJob(r, s, kind, "NONE")
<1>1. RInv(p) /\ p.banks = r.banks /\ p.command = r.command
  BY SetJobInv DEF JobStates, SameFlags
<1>2. q = Apply(p, s, kind) BY DEF Handle
<1> HIDE DEF p
<1> DEFINE state == p.records[s]
<1>3. /\ s \in DOMAIN p.records /\ state.spec.bank_id = b /\ p.banks[b] \in BankType
      /\ state \in StateOf(state.spec) /\ state.jobs["COMPUTE"] # "DONE"
  BY <1>1, CurrentFacts DEF BankIds
<1>4. CASE kind = "METADATA"
  <2> DEFINE st == [state EXCEPT !.metadata = TRUE]
  <2>1. q = SetState(p, s, st) BY <1>2, <1>4 DEF Apply, SetState
  <2>2. /\ st \in StateOf(state.spec) /\ st.jobs = state.jobs /\ st.physical_done = state.physical_done
    BY <1>3, Zenon DEF StateOf
  <2> HIDE DEF st
  <2>3. StateUpdate(p, s, st) BY <1>1, <1>3, <2>2, Plain DEF StateUpdate
  <2> QED BY <1>1, <2>1, <2>3, StateInv
<1>5. CASE kind = "H2D"
  <2> DEFINE st == [state EXCEPT !.imported = TRUE]
             bank == [p.banks[b] EXCEPT !.phase = "READY"]
  <2>1. q = Put(p, s, st, bank) BY <1>2, <1>3, <1>5 DEF Apply
  <2>2. /\ st \in StateOf(state.spec) /\ st.jobs = state.jobs /\ st.physical_done = state.physical_done
    BY <1>3, Zenon DEF StateOf
  <2>3. /\ bank \in BankType /\ bank.current = s /\ bank.pending = p.banks[b].pending
        /\ bank.layout = p.banks[b].layout
    BY <1>1, <1>3 DEF BankType, Phases
  <2> HIDE DEF st, bank
  <2>4. PutUpdate(p, b, s, st, bank) BY <1>1, <2>2, <2>3 DEF PutUpdate
  <2> QED BY <1>1, <2>1, <2>4, PutInv
<1>6. CASE kind = "COMPUTE"
  <2>1. q = ApplyCompute(p, s) BY <1>2, <1>6 DEF Apply
  <2> QED BY <1>1, <1>6, <2>1, ApplyComputeInv
<1>7. CASE kind = "D2H"
  <2>1. q = Release(p, s) BY <1>2, <1>7 DEF Apply
  <2> QED BY <1>1, <2>1, ReleaseInv
<1> QED BY <1>4, <1>5, <1>6, <1>7 DEF JobKinds

(* Runtime.receive_inputs for one fact. *)
LEMMA ReceiveInv ==
    ASSUME NEW r, RInv(r), NEW s \in DOMAIN r.records, NEW i \in DOMAIN r.records[s].outcomes,
           NEW name \in Names, NEW finished \in BOOLEAN, NEW q, q = Receive(r, s, i, name, finished)
    PROVE  RInv(q)
<1> DEFINE state == r.records[s]
           st == [state EXCEPT !.captured[i] = @ \cup {name},
                               !.outcomes[i] = IF finished THEN "SKIPPED_FINISHED" ELSE @]
<1>1. /\ state \in StateOf(state.spec) /\ state.jobs["COMPUTE"] # "DONE"
      /\ r.banks[state.spec.bank_id].current = s \/ NoJobs(state)
  BY StateFacts
<1>2. CASE q = r \/ q = Fail(r) BY <1>2, FailInv
<1>3. CASE q = SetState(r, s, st)
  <2>1. /\ st \in StateOf(state.spec) /\ st.jobs = state.jobs /\ st.physical_done = state.physical_done
    <3> DEFINE c == state.captured[i] \cup {name}
               o == IF finished THEN "SKIPPED_FINISHED" ELSE state.outcomes[i]
    <3>1. i \in Members(state.spec) BY <1>1 DEF StateOf
    <3>2. c \in SUBSET Names /\ o \in Outcomes BY <1>1, <3>1 DEF StateOf, Outcomes
    <3>3. st = [state EXCEPT !.captured[i] = c, !.outcomes[i] = o] BY <1>1 DEF StateOf
    <3> HIDE DEF c, o, st
    <3> QED BY <1>1, <3>1, <3>2, <3>3 DEF StateOf
  <2> HIDE DEF st
  <2>2. StateUpdate(r, s, st) BY <1>1, <2>1, Plain DEF StateUpdate, NoJobs
  <2> QED BY <1>3, <2>2, StateInv
<1>4. q = r \/ q = Fail(r) \/ q = SetState(r, s, st)
  BY DEF Receive, SetState
<1> QED BY <1>2, <1>3, <1>4

(* Runtime.shutdown and Runtime.drain. *)
LEMMA StopInv ==
    ASSUME NEW r, RInv(r), NEW kind, NEW q, q = Stop(r, kind)
    PROVE  RInv(q)
<1> DEFINE skip(state) == [state EXCEPT !.outcomes =
                              [i \in DOMAIN @ |-> IF @[i] = "NONE" THEN "SKIPPED_SHUTDOWN" ELSE @[i]]]
<1>1. CASE kind = "DRAIN"
  <2>1. q = [r EXCEPT !.draining = TRUE] BY <1>1 DEF Stop
  <2>2. /\ DOMAIN q = DOMAIN r /\ q.records = r.records /\ q.banks = r.banks
        /\ q.free_rows = r.free_rows /\ q.command = r.command /\ q.compute = r.compute
    BY <2>1, Plain
  <2>3. Flags(q) BY <2>1, Plain DEF Flags
  <2> QED BY <2>2, <2>3, FlagsInv
<1>2. CASE kind # "DRAIN"
  <2>1. /\ DOMAIN q = DOMAIN r /\ q.banks = r.banks /\ q.free_rows = r.free_rows
        /\ q.command = r.command /\ q.compute = r.compute /\ q.exchange = r.exchange
        /\ q.draining = TRUE /\ q.shutting_down = TRUE /\ q.failed = r.failed
        /\ DOMAIN q.records = DOMAIN r.records
        /\ q.records = [s \in DOMAIN r.records |-> q.records[s]]
    BY <1>2, Plain DEF Stop
  <2>2. \A s \in DOMAIN r.records : q.records[s] = r.records[s] \/ q.records[s] = skip(r.records[s])
    BY <1>2, Plain DEF Stop
  <2>3. \A s \in DOMAIN r.records :
            /\ q.records[s].spec = r.records[s].spec
            /\ q.records[s] \in StateOf(r.records[s].spec)
            /\ q.records[s].jobs = r.records[s].jobs
            /\ q.records[s].physical_done = r.records[s].physical_done
    <3> SUFFICES ASSUME NEW s \in DOMAIN r.records
                 PROVE  /\ q.records[s].spec = r.records[s].spec
                        /\ q.records[s] \in StateOf(r.records[s].spec)
                        /\ q.records[s].jobs = r.records[s].jobs
                        /\ q.records[s].physical_done = r.records[s].physical_done
      OBVIOUS
    <3>1. r.records[s] \in StateOf(r.records[s].spec) BY StateFacts
    <3>2. CASE q.records[s] = r.records[s] BY <3>1, <3>2
    <3>3. CASE q.records[s] = skip(r.records[s]) BY <3>1, <3>3 DEF StateOf, Outcomes
    <3> QED BY <2>2, <3>2, <3>3
  <2> HIDE DEF skip
  <2>4. RuntimeType(q)
    BY <2>1, <2>3, Plain DEF RInv, RuntimeType, Flags
  <2>5. Partition(q) BY <2>1 DEF RInv, Partition
  <2>6. Owned(q)
    BY <2>1, <2>3 DEF RInv, Owned, RuntimeType
  <2>7. \A s \in DOMAIN r.records : NoJobs(r.records[s]) => NoJobs(q.records[s])
    BY <2>3 DEF NoJobs
  <2>8. JobsOfCurrent(q)
    BY <2>1, <2>3, <2>7 DEF RInv, JobsOfCurrent
  <2>9. ComputeTracked(q)
    BY <2>1, <2>3 DEF RInv, ComputeTracked
  <2> QED BY <2>4, <2>5, <2>6, <2>8, <2>9 DEF RInv
<1> QED BY <1>1, <1>2

(* A WORK that is physically done is no Bank's, so it can be forgotten. *)
LEMMA RetireInv ==
    ASSUME NEW r, RInv(r), NEW s \in DOMAIN r.records, NEW q, q = Retire(r, s)
    PROVE  RInv(q)
<1>1. CASE ~r.records[s].physical_done
  BY <1>1, FailInv DEF Retire
<1>2. CASE r.records[s].physical_done
  <2>1. /\ DOMAIN q = DOMAIN r /\ q.banks = r.banks /\ q.free_rows = r.free_rows /\ SameFlags(r, q)
        /\ q.records = [x \in DOMAIN r.records \ {s} |-> r.records[x]]
    BY <1>2, Plain DEF Retire, SameFlags
  <2>2. /\ DOMAIN q.records = DOMAIN r.records \ {s}
        /\ \A x \in DOMAIN q.records : q.records[x] = r.records[x]
        /\ q.records = [x \in DOMAIN q.records |-> q.records[x]]
    BY <2>1
  <2>3. \A b \in BankIds : s # r.banks[b].current /\ s # r.banks[b].pending
    BY <1>2, StateFacts DEF RInv, Owned, Seqs
  <2>4. NoJobs(r.records[s])
    BY <2>3, StateFacts
  <2>5. RuntimeType(q)
    BY <2>1, <2>2, <2>3, Plain DEF RInv, RuntimeType, Flags, SameFlags
  <2>6. Partition(q) BY <2>1 DEF RInv, Partition
  <2>7. Owned(q)
    BY <2>1, <2>2, <2>3 DEF RInv, Owned, RuntimeType
  <2>8. JobsOfCurrent(q)
    BY <2>1, <2>2 DEF RInv, JobsOfCurrent
  <2>9. ComputeTracked(q)
    BY <2>1, <2>2, <2>4 DEF RInv, ComputeTracked, SameFlags, NoJobs, JobKinds
  <2> QED BY <2>5, <2>6, <2>7, <2>8, <2>9 DEF RInv
<1> QED BY <1>1, <1>2

(* Runtime.accept. *)
LEMMA AcceptInv ==
    ASSUME NEW r, RInv(r), NEW work \in Work, NEW q, q = Accept(r, work)
    PROVE  RInv(q)
<1> DEFINE s == work.work_seq
           b == work.bank_id
           bank == r.banks[b]
           records == [x \in DOMAIN r.records \cup {s} |-> IF x = s THEN NewState(work) ELSE r.records[x]]
           added == [r EXCEPT !.records = records]
<1>1. s \in Seqs /\ s # None /\ b \in BankIds /\ bank \in BankType
  BY Plain DEF Work, Seqs
<1>2. CASE q = Fail(r) BY <1>2, FailInv
<1>3. CASE /\ s \notin DOMAIN r.records
           /\ \/ bank.current = None /\ q = [added EXCEPT !.banks[b].current = s]
              \/ bank.current # None /\ bank.pending = None /\ q = [added EXCEPT !.banks[b].pending = s]
  <2>1. /\ NewState(work).spec = work /\ NewState(work) \in StateOf(work)
        /\ NewState(work).physical_done = FALSE /\ NoJobs(NewState(work))
    BY DEF NewState, StateOf, NoJobs, Outcomes, JobStates
  <2>2. /\ DOMAIN added = DOMAIN r /\ added.records = records /\ added.banks = r.banks
        /\ added.free_rows = r.free_rows /\ SameFlags(r, added)
    BY Plain DEF SameFlags
  <2> HIDE DEF added
  <2>3. /\ DOMAIN q = DOMAIN r /\ q.records = records /\ q.free_rows = r.free_rows /\ SameFlags(r, q)
    BY <1>3, <2>2, Plain DEF SameFlags
  <2>4. /\ q.banks \in [BankIds -> BankType]
        /\ \A c \in BankIds : c # b => q.banks[c] = r.banks[c]
        /\ q.banks[b].layout = bank.layout
        /\ \/ bank.current = None /\ q.banks[b].current = s /\ q.banks[b].pending = bank.pending
           \/ bank.current # None /\ q.banks[b].pending = s /\ q.banks[b].current = bank.current
    <3>1. CASE bank.current = None
      <4>1. q.banks = [r.banks EXCEPT ![b] = [bank EXCEPT !.current = s]]
        BY <1>3, <2>2, <3>1, Plain
      <4> QED BY <1>1, <3>1, <4>1, Plain DEF BankType, Seqs
    <3>2. CASE bank.current # None
      <4>1. q.banks = [r.banks EXCEPT ![b] = [bank EXCEPT !.pending = s]]
        BY <1>3, <2>2, <3>2, Plain
      <4> QED BY <1>1, <3>2, <4>1, Plain DEF BankType, Seqs
    <3> QED BY <3>1, <3>2
  <2>5. /\ DOMAIN q.records = DOMAIN r.records \cup {s}
        /\ q.records[s] = NewState(work)
        /\ \A x \in DOMAIN r.records : q.records[x] = r.records[x]
        /\ q.records = [x \in DOMAIN q.records |-> q.records[x]]
    BY <1>3, <2>3
  <2> HIDE DEF records
  <2>6. bank.current = None => bank.pending = None
    BY <1>1 DEF RInv, Owned
  <2>7. \A c \in BankIds : {r.banks[c].current, r.banks[c].pending} \ {None} \subseteq DOMAIN r.records
    BY DEF RInv, RuntimeType
  <2>8. RuntimeType(q)
    BY <1>1, <2>1, <2>3, <2>4, <2>5, <2>7, Plain DEF RInv, RuntimeType, Flags, SameFlags
  <2>9. Partition(q)
    BY <1>1, <2>3, <2>4 DEF RInv, Partition, BankIds
  <2>10. Owned(q)
    <3> SUFFICES ASSUME NEW c \in BankIds
                 PROVE  /\ q.banks[c].current # None =>
                               /\ q.records[q.banks[c].current].spec.bank_id = c
                               /\ ~q.records[q.banks[c].current].physical_done
                        /\ q.banks[c].pending # None =>
                               /\ q.banks[c].current \notin {None, q.banks[c].pending}
                               /\ q.records[q.banks[c].pending].spec.bank_id = c
                               /\ ~q.records[q.banks[c].pending].physical_done
      BY DEF Owned
    <3>1. CASE c # b
      BY <2>4, <2>5, <2>7, <3>1 DEF RInv, Owned
    <3>2. CASE c = b /\ bank.current = None
      BY <1>1, <2>1, <2>4, <2>5, <2>6, <3>2
    <3>3. CASE c = b /\ bank.current # None
      <4>1. bank.current \in DOMAIN r.records BY <1>1, <2>7, <3>3
      <4>2. q.banks[b].current = bank.current /\ q.banks[b].pending = s BY <2>4, <3>3
      <4>3. /\ r.records[bank.current].spec.bank_id = b
            /\ ~r.records[bank.current].physical_done
        BY <1>1, <3>3 DEF RInv, Owned
      <4> QED BY <1>1, <1>3, <2>1, <2>5, <3>3, <4>1, <4>2, <4>3
    <3> QED BY <3>1, <3>2, <3>3
  <2>11. JobsOfCurrent(q)
    <3> SUFFICES ASSUME NEW x \in DOMAIN q.records
                 PROVE  /\ q.banks[q.records[x].spec.bank_id].current = x \/ NoJobs(q.records[x])
                        /\ q.records[x].jobs["COMPUTE"] # "DONE"
      BY DEF JobsOfCurrent
    <3>1. CASE x = s BY <2>1, <2>5, <3>1 DEF NewState, JobKinds
    <3>2. CASE x # s
      <4>1. x \in DOMAIN r.records /\ q.records[x] = r.records[x] BY <2>5, <3>2
      <4>2. r.banks[r.records[x].spec.bank_id].current = x => q.banks[r.records[x].spec.bank_id].current = x
        BY <1>1, <2>4, <4>1, StateFacts DEF Seqs
      <4> QED BY <4>1, <4>2, StateFacts
    <3> QED BY <3>1, <3>2
  <2>12. ComputeTracked(q)
    BY <2>3, <2>5 DEF RInv, ComputeTracked, SameFlags
  <2> QED BY <2>8, <2>9, <2>10, <2>11, <2>12 DEF RInv
<1> HIDE DEF added
<1> QED BY <1>2, <1>3 DEF Accept, added
-----------------------------------------------------------------------------
(***************************************************************************)
(* The specification.                                                      *)
(***************************************************************************)
(* The inductive invariant of the specification. *)
Inv == TypeOK /\ RInv(rt)

(* A new Runtime satisfies the invariant. *)
LEMMA NewRuntimeInv == RInv(NewRuntime)
<1> DEFINE q == NewRuntime
<1>1. /\ DOMAIN q = {"records", "banks", "free_rows", "compute", "exchange", "command",
                     "draining", "shutting_down", "failed"}
      /\ q.records = [s \in {} |-> NewBank] /\ q.banks = [b \in BankIds |-> NewBank]
      /\ q.free_rows = PhysicalRows /\ q.compute = None
      /\ q.exchange = [b \in BankIds |-> "NONE"] /\ q.command = "NONE"
      /\ q.draining = FALSE /\ q.shutting_down = FALSE /\ q.failed = FALSE
  BY DEF NewRuntime
<1>2. /\ NewBank \in BankType /\ NewBank.layout = {} /\ NewBank.current = None /\ NewBank.pending = None
  BY DEF NewBank, BankType, None, Phases
<1>3. DOMAIN q.records = {} /\ q.records = [s \in DOMAIN q.records |-> q.records[s]]
  BY <1>1
<1>4. q.banks \in [BankIds -> BankType] /\ \A b \in BankIds : q.banks[b] = NewBank
  BY <1>1, <1>2
<1> HIDE DEF q
<1>5. RuntimeType(q)
  <2>1. \A b \in BankIds : {q.banks[b].current, q.banks[b].pending} \ {None} \subseteq DOMAIN q.records
    BY <1>2, <1>4
  <2>2. q.exchange \in [BankIds -> {"NONE", "IMPORT", "EXPORT", "RELEASE"}]
    BY <1>1
  <2>3. q.compute \in Nat BY <1>1 DEF None
  <2>4. DOMAIN q.records \subseteq Seqs /\ \A s \in DOMAIN q.records : FALSE
    BY <1>3
  <2> QED BY <1>1, <1>3, <1>4, <2>1, <2>2, <2>3, <2>4 DEF RuntimeType
<1>6. Partition(q)
  BY <1>1, <1>2, <1>4 DEF Partition, BankIds
<1>7. Owned(q) /\ JobsOfCurrent(q) /\ ComputeTracked(q)
  BY <1>1, <1>2, <1>3, <1>4 DEF Owned, JobsOfCurrent, ComputeTracked
<1> QED BY <1>5, <1>6, <1>7 DEF RInv, q

(* The initial states satisfy the invariant. *)
LEMMA InitInv == Init => Inv
<1> SUFFICES ASSUME Init PROVE Inv OBVIOUS
<1>1. RInv(rt) BY NewRuntimeInv DEF Init
<1>2. EngineType
  BY DEF Init, EngineType, Seqs, None
<1>3. /\ incoming \in Seq(Messages) /\ import \in [BankIds -> Seq(Seqs)]
      /\ lane \in [BankIds -> Nat] /\ slot \in [BankIds -> Nat]
      /\ exec \in [stage : Stages, clock : Nat] /\ completions \subseteq Seqs
  BY DEF Init, None, Stages
<1> QED BY <1>1, <1>2, <1>3 DEF Inv, TypeOK, RInv

(* Refresh changes nothing but the authorisation records. *)
LEMMA RefreshFields ==
    ASSUME NEW e, NEW q, q = Refresh(e)
    PROVE  /\ DOMAIN q = DOMAIN e
           /\ "next" \in DOMAIN e => q.next = e.next
           /\ "epochs" \in DOMAIN e => q.epochs = e.epochs
           /\ "bank" \in DOMAIN e => q.bank = e.bank
  BY DEF Refresh

(* Every step of control keeps the invariant. *)
LEMMA ControlInv == ASSUME Inv, ~rt.failed, Control PROVE Inv'
<1>0. RInv(rt) /\ TypeOK BY DEF Inv
<1>1. CASE Register
  <2>1. Head(incoming) \in Messages /\ Tail(incoming) \in Seq(Messages) BY <1>0, <1>1 DEF Register, TypeOK
  <2>2. Head(incoming).work \in Work BY <1>1, <2>1 DEF Register, Messages
  <2>3. RInv(rt') BY <1>0, <1>1, <2>2, AcceptInv DEF Register
  <2> QED BY <1>0, <1>1, <2>1, <2>3 DEF Register, Inv, TypeOK, RInv, EngineType
<1>2. CASE PopStop
  <2>1. Tail(incoming) \in Seq(Messages) BY <1>0, <1>2 DEF PopStop, TypeOK
  <2>2. RInv(rt') BY <1>0, <1>2, StopInv, FailInv DEF PopStop
  <2> QED BY <1>0, <1>2, <2>1, <2>2 DEF PopStop, Inv, TypeOK, RInv, EngineType
<1>3. CASE HandleResult
  <2> DEFINE e == [rt EXCEPT !.command = "NONE"]
             s == rt.compute
  <2>1. exec' \in [stage : Stages, clock : Nat] BY <1>0, <1>3 DEF HandleResult, TypeOK, Stages
  <2>2. RInv(rt')
    <3>1. CASE rt.command # "COMPUTE" BY <1>0, <1>3, <3>1, FailInv DEF HandleResult
    <3>2. CASE rt.command = "COMPUTE"
      <4>1. /\ DOMAIN e = DOMAIN rt /\ e.records = rt.records /\ e.banks = rt.banks
            /\ e.free_rows = rt.free_rows /\ Flags(e) /\ e.command = "NONE"
        BY <1>0, Plain DEF Flags
      <4>2. s \in DOMAIN rt.records /\ ~NoJobs(rt.records[s])
        BY <1>0, <3>2, Plain DEF NoJobs, JobKinds
      <4>3. /\ rt.records[s].spec.bank_id \in BankIds
            /\ rt.banks[rt.records[s].spec.bank_id].current = s
            /\ s # None
        BY <1>0, <4>2, StateFacts DEF Seqs
      <4>4. rt' = Handle(e, s, "COMPUTE") BY <1>3, <3>2 DEF HandleResult
      <4> HIDE DEF e, s
      <4>5. RInv(e) BY <1>0, <4>1, FlagsInv
      <4> QED BY <4>1, <4>3, <4>4, <4>5, HandleInv DEF JobKinds
    <3> QED BY <3>1, <3>2
  <2> QED BY <1>0, <1>3, <2>1, <2>2 DEF HandleResult, Inv, TypeOK, RInv, EngineType
<1>4. CASE AdvanceBanks
  <2>1. FirstBank(rt) \in BankIds /\ 1 - FirstBank(rt) \in BankIds BY DEF FirstBank, BankIds
  <2>2. PICK b \in {FirstBank(rt)} : \E r \in {StepBank(rt, b, slot[b])} :
            rt' = StepBank(r, 1 - b, slot[1 - b])
    BY <1>4 DEF AdvanceBanks
  <2>3. b \in BankIds /\ 1 - b \in BankIds BY <2>1, <2>2
  <2>4. PICK r \in {StepBank(rt, b, slot[b])} : rt' = StepBank(r, 1 - b, slot[1 - b]) BY <2>2
  <2>5. RInv(r) BY <1>0, <2>3, <2>4, StepBankInv
  <2>6. RInv(rt') BY <2>3, <2>4, <2>5, StepBankInv
  <2> QED BY <1>0, <1>4, <2>6 DEF AdvanceBanks, Inv, TypeOK, RInv, EngineType
<1>5. CASE CloseExecution
  <2>1. /\ DOMAIN rt' = DOMAIN rt /\ rt'.records = rt.records /\ rt'.banks = rt.banks
        /\ rt'.free_rows = rt.free_rows /\ Flags(rt') /\ rt'.command = "SHUTDOWN"
    BY <1>0, <1>5, Plain DEF CloseExecution, Flags
  <2>2. RInv(rt') BY <1>0, <2>1, FlagsInv
  <2> QED BY <1>0, <1>5, <2>2 DEF CloseExecution, Inv, TypeOK, RInv, EngineType
<1>6. CASE ControlExit
  <2>1. RInv(rt') BY <1>0, <1>6, FailInv DEF ControlExit
  <2>2. exec' \in [stage : Stages, clock : Nat] BY <1>0, <1>6 DEF ControlExit, TypeOK, Stages
  <2> QED BY <1>0, <1>6, <2>1, <2>2 DEF ControlExit, Inv, TypeOK, RInv, EngineType
<1>7. ASSUME NEW s \in DOMAIN rt.records, NEW i \in DOMAIN rt.records[s].outcomes,
             NEW name \in Names, NEW finished \in BOOLEAN, ReceiveInput(s, i, name, finished)
      PROVE  Inv'
  <2>1. RInv(rt') BY <1>0, <1>7, ReceiveInv DEF ReceiveInput
  <2> QED BY <1>0, <1>7, <2>1 DEF ReceiveInput, Inv, TypeOK, RInv, EngineType
<1>8. ASSUME NEW s \in DOMAIN rt.records, NEW kind \in JobKinds,
             \/ HandleDone(s, kind)
             \/ HandleMetadata(s) /\ kind = "METADATA"
      PROVE  Inv'
  <2>1. rt.records[s].jobs[kind] # "NONE" /\ kind # "COMPUTE" /\ rt' = Handle(rt, s, kind)
    BY <1>0, <1>8, StateFacts DEF HandleDone, HandleMetadata
  <2>2. /\ rt.records[s].spec.bank_id \in BankIds
        /\ rt.banks[rt.records[s].spec.bank_id].current = s
        /\ s # None
    BY <1>0, <2>1, StateFacts DEF NoJobs, Seqs
  <2>3. RInv(rt') BY <1>0, <2>1, <2>2, HandleInv
  <2> QED BY <1>0, <1>8, <2>3 DEF HandleDone, HandleMetadata, Inv, TypeOK, RInv, EngineType
<1>9. ASSUME NEW s \in DOMAIN rt.records, PublishCompletion(s) PROVE Inv'
  <2>1. RInv(rt') BY <1>0, <1>9, RetireInv DEF PublishCompletion
  <2>2. completions' \subseteq Seqs BY <1>0, <1>9, StateFacts DEF PublishCompletion, TypeOK
  <2> QED BY <1>0, <1>9, <2>1, <2>2 DEF PublishCompletion, Inv, TypeOK, RInv, EngineType
<1> QED BY <1>1, <1>2, <1>3, <1>4, <1>5, <1>6, <1>7, <1>8, <1>9 DEF Control, JobKinds

(* Every step of execution keeps the invariant. *)
LEMMA ExecutionInv == ASSUME Inv, Execution PROVE Inv'
<1>0. RInv(rt) /\ TypeOK BY DEF Inv
<1>1. rt.compute \in Nat BY <1>0, Plain DEF Flags
<1>2. exec' \in [stage : Stages, clock : Nat]
  <2>1. CASE ExecuteEnd BY <1>1, <2>1 DEF ExecuteEnd, Stages
  <2>2. CASE ExecuteShutdown BY <1>0, <2>2 DEF ExecuteShutdown, TypeOK, Stages
  <2> QED BY <2>1, <2>2 DEF Execution
<1> QED BY <1>0, <1>2 DEF Execution, ExecuteEnd, ExecuteShutdown, Inv, TypeOK, RInv, EngineType

(* Every step of the DMA lanes keeps the invariant. *)
LEMMA DmaInv == ASSUME Inv, Dma PROVE Inv'
<1>0. RInv(rt) /\ TypeOK BY DEF Inv
<1>1. ASSUME NEW b \in BankIds, LaneImport(b) PROVE Inv'
  <2>1. import[b] \in Seq(Seqs) /\ import[b] # <<>> BY <1>0, <1>1 DEF LaneImport, Importing, TypeOK
  <2>2. Head(import[b]) \in Seqs /\ Tail(import[b]) \in Seq(Seqs) BY <2>1
  <2>3. /\ lane' \in [BankIds -> Nat] /\ slot' \in [BankIds -> Nat] /\ import' \in [BankIds -> Seq(Seqs)]
    BY <1>0, <1>1, <2>2 DEF LaneImport, TypeOK, Seqs
  <2> QED BY <1>0, <1>1, <2>3 DEF LaneImport, Inv, TypeOK, RInv, EngineType
<1>2. ASSUME NEW b \in BankIds, LaneUnowned(b) PROVE Inv'
  <2>1. RInv(rt') BY <1>0, <1>2, FailInv DEF LaneUnowned
  <2> QED BY <1>0, <1>2, <2>1 DEF LaneUnowned, Inv, TypeOK, RInv, EngineType
<1>3. ASSUME NEW b \in BankIds, LaneServe(b) PROVE Inv'
  <2> DEFINE s == rt.banks[b].current
             kind == IF rt.exchange[b] = "IMPORT" THEN "H2D" ELSE "D2H"
             p == SetJob(rt, s, kind, "DONE")
  <2>1. RInv(p)
    <3>1. CASE s # None
      <4>1. kind \in JobKinds /\ kind # "COMPUTE" BY DEF JobKinds
      <4> HIDE DEF kind, s
      <4>2. s = rt.banks[b].current BY DEF s
      <4> QED BY <1>0, <3>1, <4>1, <4>2, SetJobInv DEF JobStates
    <3>2. CASE s = None
      <4>1. None \notin DOMAIN rt.records BY <1>0 DEF RInv, RuntimeType, Seqs
      <4>2. rt.records = [x \in DOMAIN rt.records |-> rt.records[x]] BY <1>0 DEF RInv, RuntimeType
      <4> HIDE DEF kind
      <4>3. p.records = rt.records
        BY <1>0, <3>2, <4>1, <4>2, Plain DEF SetJob
      <4>4. /\ DOMAIN p = DOMAIN rt /\ p.banks = rt.banks /\ p.free_rows = rt.free_rows
            /\ SameFlags(rt, p)
        BY <1>0, Plain DEF SetJob, SameFlags
      <4> HIDE DEF p
      <4>5. Flags(p) /\ p.command = rt.command /\ p.compute = rt.compute
        BY <1>0, <4>4, Plain DEF Flags, SameFlags
      <4> QED BY <1>0, <4>3, <4>4, <4>5, FlagsInv
    <3> QED BY <3>1, <3>2
  <2>2. rt' = [p EXCEPT !.exchange[b] = "NONE"] BY <1>3 DEF LaneServe
  <2> HIDE DEF p
  <2>3. /\ DOMAIN rt' = DOMAIN p /\ rt'.records = p.records /\ rt'.banks = p.banks
        /\ rt'.free_rows = p.free_rows /\ Flags(rt')
        /\ rt'.command = p.command /\ rt'.compute = p.compute
    BY <2>1, <2>2, Plain DEF Flags
  <2>4. RInv(rt') BY <2>1, <2>3, FlagsInv
  <2>5. lane' \in [BankIds -> Nat] BY <1>0, <1>3 DEF LaneServe, TypeOK, None
  <2> QED BY <1>0, <1>3, <2>4, <2>5 DEF LaneServe, Inv, TypeOK, RInv, EngineType
<1> QED BY <1>1, <1>2, <1>3 DEF Dma

(* Every step of the Engine keeps the invariant. *)
LEMMA EngineInv == ASSUME Inv, Engine PROVE Inv'
<1>0. RInv(rt) /\ TypeOK /\ EngineType BY DEF Inv, TypeOK
<1>1. ASSUME NEW b \in BankIds, NEW op \in Operations, NEW n \in 1..MaxBatchSize, Submit(b, op, n)
      PROVE  Inv'
  <2> DEFINE work == [work_seq |-> eng.next, operation |-> op, bank_id |-> b,
                      bank_epoch |-> NextEpoch(b), rows |-> n]
             e == [eng EXCEPT !.next = @ + 1, !.epochs[b] = NextEpoch(b),
                              !.records = [s \in DOMAIN @ \cup {eng.next} |->
                                  IF s = eng.next THEN NewRecord(work) ELSE @[s]]]
  <2>1. NextEpoch(b) \in Nat BY <1>0 DEF NextEpoch, EngineType
  <2>2. work \in Work BY <1>0, <2>1 DEF Work, EngineType
  <2>3. /\ incoming' = Append(incoming, [kind |-> "WORK", work |-> work])
        /\ eng' = Refresh(e)
    BY <1>1 DEF Submit
  <2>4. import' \in [BankIds -> Seq(Seqs)]
    BY <1>0, <1>1 DEF Submit, TypeOK, EngineType
  <2>5. incoming' \in Seq(Messages)
    <3> HIDE DEF work
    <3> QED BY <1>0, <2>2, <2>3 DEF TypeOK, Messages
  <2>6. /\ DOMAIN e = DOMAIN eng /\ e.next = eng.next + 1 /\ e.bank = eng.bank
        /\ e.epochs = [eng.epochs EXCEPT ![b] = NextEpoch(b)]
    BY <1>0 DEF EngineType
  <2> HIDE DEF e, work
  <2>7. EngineType'
    <3>1. /\ DOMAIN eng' = DOMAIN eng /\ eng'.next = eng.next + 1 /\ eng'.bank = eng.bank
          /\ eng'.epochs = [eng.epochs EXCEPT ![b] = NextEpoch(b)]
      BY <1>0, <2>3, <2>6, RefreshFields DEF EngineType
    <3>2. eng.next + 1 \in Seqs BY <1>0 DEF EngineType, Seqs, None
    <3>3. eng'.epochs \in [BankIds -> Nat] BY <1>0, <2>1, <3>1 DEF EngineType
    <3> QED BY <1>0, <3>1, <3>2, <3>3 DEF EngineType
  <2> QED BY <1>0, <1>1, <2>4, <2>5, <2>7 DEF Submit, Inv, TypeOK, RInv
<1>2. CASE ObserveRows
  <2> DEFINE seen == [eng EXCEPT !.bank = [b \in BankIds |-> BankRow(b)], !.clock = exec.clock]
  <2>1. \A b \in BankIds : BankRow(b) \in [epoch : Nat, phase : {"UNKNOWN", "FREE", "EXPORTING", "BUSY"}]
    BY <1>0, Plain DEF BankRow, BankType
  <2>2. /\ DOMAIN seen = DOMAIN eng /\ seen.next = eng.next /\ seen.epochs = eng.epochs
        /\ seen.bank = [b \in BankIds |-> BankRow(b)]
    BY <1>0 DEF EngineType
  <2>3. eng' = Refresh(seen) BY <1>2 DEF ObserveRows
  <2> HIDE DEF seen
  <2>4. EngineType' BY <1>0, <2>1, <2>2, <2>3, RefreshFields DEF EngineType
  <2> QED BY <1>0, <1>2, <2>4 DEF ObserveRows, Inv, TypeOK, RInv
<1>3. ASSUME NEW s \in DOMAIN eng.records, ObserveCompletion(s) PROVE Inv'
  <2> DEFINE e == [eng EXCEPT !.records[s].compute_done = TRUE, !.records[s].physical_done = TRUE]
  <2>1. /\ DOMAIN e = DOMAIN eng /\ e.next = eng.next /\ e.epochs = eng.epochs /\ e.bank = eng.bank
    BY <1>0 DEF EngineType
  <2>2. eng' = Refresh(e) BY <1>3 DEF ObserveCompletion
  <2> HIDE DEF e
  <2>3. EngineType' BY <1>0, <2>1, <2>2, RefreshFields DEF EngineType
  <2> QED BY <1>0, <1>3, <2>3 DEF ObserveCompletion, Inv, TypeOK, RInv
<1>4. ASSUME NEW s \in DOMAIN eng.records, RetireRecord(s) PROVE Inv'
  <2> DEFINE e == [eng EXCEPT !.records = [x \in DOMAIN @ \ {s} |-> @[x]]]
  <2>1. /\ DOMAIN e = DOMAIN eng /\ e.next = eng.next /\ e.epochs = eng.epochs /\ e.bank = eng.bank
    BY <1>0 DEF EngineType
  <2>2. eng' = Refresh(e) BY <1>4 DEF RetireRecord
  <2> HIDE DEF e
  <2>3. EngineType' BY <1>0, <2>1, <2>2, RefreshFields DEF EngineType
  <2> QED BY <1>0, <1>4, <2>3 DEF RetireRecord, Inv, TypeOK, RInv
<1>5. ASSUME NEW kind \in StopKinds, EngineStop(kind) PROVE Inv'
  <2>1. EngineType' BY <1>0, <1>5 DEF EngineStop, EngineType
  <2>2. [kind |-> kind, work |-> NoWork] \in Messages BY StopKindsAssumption DEF Messages
  <2>3. incoming' \in Seq(Messages) BY <1>0, <1>5, <2>2 DEF EngineStop, TypeOK
  <2> QED BY <1>0, <1>5, <2>1, <2>3 DEF EngineStop, Inv, TypeOK, RInv
<1>6. CASE Recycle
  <2>1. RInv(rt') BY <1>6, NewRuntimeInv DEF Recycle
  <2>2. EngineType' BY <1>0, <1>6 DEF Recycle, EngineType, Seqs, None
  <2>3. /\ exec' \in [stage : Stages, clock : Nat] /\ slot' \in [BankIds -> Nat]
        /\ completions' \subseteq Seqs /\ incoming' \in Seq(Messages)
    BY <1>6 DEF Recycle, Stages, None
  <2> QED BY <1>0, <1>6, <2>1, <2>2, <2>3 DEF Recycle, Inv, TypeOK, RInv
<1> QED BY <1>1, <1>2, <1>3, <1>4, <1>5, <1>6 DEF Engine, EngineObserves

(* So does a stuttering step. *)
LEMMA StutterInv == ASSUME Inv, UNCHANGED vars PROVE Inv'
  BY DEF Inv, TypeOK, RInv, EngineType, vars

(* The invariant is inductive. *)
LEMMA NextInv == ASSUME Inv, [Next]_vars PROVE Inv'
  BY ControlInv, ExecutionInv, DmaInv, EngineInv, StutterInv DEF Next, Terminated

(* Spec keeps the types: every queue, lane, record and cached row is well
   formed and a Bank names only WORKs the Runtime still knows. *)
THEOREM TypeCorrect == Spec => []TypeOK
<1>1. Inv => TypeOK BY DEF Inv
<1> QED BY <1>1, InitInv, NextInv, PTL DEF Spec

(* Banks.allocate and Runtime._release keep every physical row either free or
   laid out for exactly one Bank, for any number of rows, batch size, window
   and number of WORKs, through skips, shutdown and recycling. *)
THEOREM RowsAlwaysPartitioned == Spec => []RowsPartition
<1>1. Inv => RowsPartition BY DEF Inv, RInv, Partition, RowsPartition
<1> QED BY <1>1, InitInv, NextInv, PTL DEF Spec

-----------------------------------------------------------------------------
(* No job but those of the given kinds. *)
Idle(st, kinds) == \A k \in JobKinds \ kinds : st.jobs[k] = "NONE"

(* A WORK nothing has been done for yet. *)
Fresh(st) ==
    /\ st.layout = {} /\ st.plan = {}
    /\ ~st.metadata /\ ~st.imported /\ ~st.result
    /\ NoJobs(st)

(* What the phase of its Bank says of the current WORK. *)
Staged(st, phase) ==
    /\ phase = "FREE" =>
           /\ ~st.metadata /\ ~st.result /\ st.plan = {}
           /\ st.imported => DirectImports
           /\ Idle(st, {"D2H"})
    /\ phase = "FILLING" =>
           /\ ~st.result
           /\ st.jobs["METADATA"] # "NONE" => ~st.metadata
           /\ st.jobs["H2D"] # "NONE" => st.metadata /\ ~DirectImports
           /\ st.imported => DirectImports
           /\ Idle(st, {"METADATA", "H2D", "D2H"})
    /\ phase = "READY" =>
           /\ ~st.result /\ st.metadata /\ st.imported
           /\ Idle(st, {"D2H"})
    /\ phase = "COMPUTING" =>
           /\ ~st.result /\ st.metadata /\ st.imported
           /\ st.jobs["COMPUTE"] = "RUNNING" /\ Idle(st, {"COMPUTE"})
           /\ st.plan = Live(st) /\ st.plan # {}
    /\ phase = "EXPORTING" =>
           /\ st.result /\ st.metadata /\ st.imported
           /\ st.jobs["D2H"] # "NONE" /\ Idle(st, {"D2H"})
           /\ Live(st) = {}

(* A D2H job without a result is the RELEASE of a WORK that was skipped. *)
Skipping(st) ==
    st.jobs["D2H"] # "NONE" /\ ~st.result =>
        DirectImports /\ AllSkipped(st) /\ st.imported /\ Idle(st, {"D2H"})

(* A compiled plan is the live members, none of which waits for an input. *)
Planned(st) ==
    st.plan # {} =>
        /\ st.plan = Live(st) \/ Live(st) = {}
        /\ \A i \in st.plan : Dependencies(st.spec.operation) \subseteq st.captured[i]

(* The RPC outstanding on the lane is that of the WORK's running copy. *)
Exchanging(st, command) ==
    /\ command = "IMPORT" <=> st.jobs["H2D"] = "RUNNING"
    /\ command \in {"EXPORT", "RELEASE"} <=> st.jobs["D2H"] = "RUNNING"

(* The State of the current WORK agrees with its Bank and its lane. *)
CurrentSane(st, bank, command) ==
    /\ Staged(st, bank.phase) /\ Skipping(st) /\ Planned(st) /\ Exchanging(st, command)
    /\ st.layout = bank.layout
    /\ (bank.phase = "FREE") <=> (bank.layout = {})
    /\ IF bank.layout = {} THEN bank.epoch < st.spec.bank_epoch ELSE bank.epoch = st.spec.bank_epoch
    /\ Cardinality(bank.layout) <= st.spec.rows

(* A Bank without a current WORK is free; a WORK waiting behind the current one
   is newer and nothing has been done for it. *)
BankSane(r, b) ==
    LET bank == r.banks[b] IN
    /\ bank.current = None => bank.phase = "FREE" /\ bank.layout = {} /\ r.exchange[b] = "NONE"
    /\ bank.current # None =>
           /\ CurrentSane(r.records[bank.current], bank, r.exchange[b])
           /\ (bank.phase = "COMPUTING") <=> (r.compute = bank.current)
    /\ bank.pending # None =>
           /\ Fresh(r.records[bank.pending])
           /\ r.records[bank.current].spec.bank_epoch < r.records[bank.pending].spec.bank_epoch

(* A WORK is in a Bank until it is physically done, and then nothing waits. *)
RecordsSane(r) ==
    \A s \in DOMAIN r.records :
        LET st == r.records[s]
            bank == r.banks[st.spec.bank_id]
        IN  IF st.physical_done THEN Live(st) = {} /\ (DirectImports => st.imported)
            ELSE s \in {bank.current, bank.pending}

(* The widths of two WORKs that may own rows together fit the pool. *)
WidthsFit(r) ==
    \A s, t \in DOMAIN r.records :
        /\ r.records[s].spec.rows <= CapacityRows
        /\ (/\ ~r.records[s].physical_done /\ ~r.records[t].physical_done
            /\ r.records[s].spec.bank_id # r.records[t].spec.bank_id) =>
               r.records[s].spec.rows + r.records[t].spec.rows <= CapacityRows

(* Execution has the COMPUTE command while a WORK is computing; SHUTDOWN comes last. *)
CommandSane(r) ==
    /\ (r.command = "COMPUTE") <=> (r.compute # None)
    /\ r.command = "SHUTDOWN" => r.draining /\ DOMAIN r.records = {}

(* The inductive invariant of Runtime: no exception was raised, and why none will be. *)
Sane(r) ==
    /\ ~r.failed
    /\ \A b \in BankIds : BankSane(r, b)
    /\ RecordsSane(r) /\ WidthsFit(r) /\ CommandSane(r)
-----------------------------------------------------------------------------
(* What Sane says of the current WORK of a Bank. *)
LEMMA CurrentSound ==
    ASSUME NEW r, RInv(r), Sane(r), NEW b \in BankIds, NEW s, s # None, s = r.banks[b].current
    PROVE  /\ s \in DOMAIN r.records
           /\ r.records[s].spec.bank_id = b
           /\ ~r.records[s].physical_done
           /\ r.records[s].spec \in Work
           /\ r.records[s] \in StateOf(r.records[s].spec)
           /\ r.banks[b] \in BankType
           /\ CurrentSane(r.records[s], r.banks[b], r.exchange[b])
           /\ (r.banks[b].phase = "COMPUTING") <=> (r.compute = s)
<1>1. BankSane(r, b) BY DEF Sane
<1>2. /\ CurrentSane(r.records[s], r.banks[b], r.exchange[b])
      /\ (r.banks[b].phase = "COMPUTING") <=> (r.compute = s)
  BY <1>1 DEF BankSane
<1>3. /\ s \in DOMAIN r.records
      /\ r.records[s].spec.bank_id = b
      /\ r.records[s].spec \in Work
      /\ r.records[s] \in StateOf(r.records[s].spec)
      /\ r.banks[b] \in BankType
  BY CurrentFacts DEF BankIds
<1>4. ~r.records[s].physical_done
  BY DEF RInv, Owned
<1> QED BY <1>2, <1>3, <1>4

(* q differs from r in the State of s, in its Bank b and in its lane only. *)
Touches(r, q, b, s) ==
    /\ DOMAIN q.records = DOMAIN r.records
    /\ \A t \in DOMAIN r.records : t # s => q.records[t] = r.records[t]
    /\ q.records[s].spec = r.records[s].spec
    /\ \A c \in BankIds : c # b => q.banks[c] = r.banks[c] /\ q.exchange[c] = r.exchange[c]
    /\ q.draining = r.draining /\ q.shutting_down = r.shutting_down

(* What the change of the current WORK s and of its Bank b respects. *)
Respects(r, q, b, s) ==
    /\ b \in BankIds /\ s # None /\ s = r.banks[b].current
    /\ Touches(r, q, b, s)
    /\ ~q.failed
    /\ BankSane(q, b)
    /\ CommandSane(q)
    /\ \/ q.compute = r.compute
       \/ {q.compute, r.compute} \subseteq {None, s}
    /\ \/ /\ ~q.records[s].physical_done
          /\ q.banks[b].current = s /\ q.banks[b].pending = r.banks[b].pending
       \/ /\ q.records[s].physical_done
          /\ Live(q.records[s]) = {} /\ (DirectImports => q.records[s].imported)
          /\ q.banks[b].current = r.banks[b].pending /\ q.banks[b].pending = None

(* Such a change keeps Sane. *)
LEMMA SaneChange ==
    ASSUME NEW r, RInv(r), Sane(r), NEW q, RInv(q), NEW b, NEW s, Respects(r, q, b, s)
    PROVE  Sane(q)
<1> USE DEF Respects, Touches
<1>1. /\ s \in DOMAIN r.records /\ r.records[s].spec.bank_id = b /\ ~r.records[s].physical_done
  BY CurrentSound
<1>2. \A t \in DOMAIN r.records : q.records[t].spec = r.records[t].spec
  BY <1>1
<1>3. \A c \in BankIds : BankSane(q, c)
  <2> SUFFICES ASSUME NEW c \in BankIds PROVE BankSane(q, c)
    OBVIOUS
  <2>1. CASE c = b BY <2>1
  <2>2. CASE c # b
    <3>1. BankSane(r, c) BY DEF Sane
    <3>2. /\ q.banks[c] = r.banks[c] /\ q.exchange[c] = r.exchange[c] BY <2>2
    <3>3. /\ r.banks[c].current # None =>
               /\ r.banks[c].current \in DOMAIN r.records
               /\ r.records[r.banks[c].current].spec.bank_id = c
          /\ r.banks[c].pending # None =>
               /\ r.banks[c].pending \in DOMAIN r.records
               /\ r.records[r.banks[c].pending].spec.bank_id = c
               /\ r.banks[c].current # None
      BY Zenon DEF RInv, RuntimeType, Owned
    <3>4. /\ r.banks[c].current # s /\ r.banks[c].pending # s
      BY <1>1, <2>2, <3>3
    <3>5. /\ r.banks[c].current # None => q.records[r.banks[c].current] = r.records[r.banks[c].current]
          /\ r.banks[c].pending # None => q.records[r.banks[c].pending] = r.records[r.banks[c].pending]
      BY <3>3, <3>4
    <3>6. r.banks[c].current # None => (q.compute = r.banks[c].current <=> r.compute = r.banks[c].current)
      BY <3>4
    <3> QED BY <3>1, <3>2, <3>3, <3>5, <3>6 DEF BankSane
  <2> QED BY <2>1, <2>2
<1>4. RecordsSane(q)
  <2> SUFFICES ASSUME NEW t \in DOMAIN q.records
               PROVE  IF q.records[t].physical_done
                      THEN Live(q.records[t]) = {} /\ (DirectImports => q.records[t].imported)
                      ELSE t \in {q.banks[q.records[t].spec.bank_id].current,
                                  q.banks[q.records[t].spec.bank_id].pending}
    BY Zenon DEF RecordsSane
  <2>1. CASE t = s BY <1>1, <2>1, Zenon
  <2>2. CASE t # s
    <3>1. /\ q.records[t] = r.records[t] /\ t \in DOMAIN r.records /\ r.records[t].spec.bank_id \in BankIds
      BY <2>2, StateFacts, Zenon
    <3>2. IF r.records[t].physical_done
          THEN Live(r.records[t]) = {} /\ (DirectImports => r.records[t].imported)
          ELSE t \in {r.banks[r.records[t].spec.bank_id].current,
                      r.banks[r.records[t].spec.bank_id].pending}
      BY <3>1, Zenon DEF Sane, RecordsSane
    <3>3. CASE r.records[t].spec.bank_id # b BY <3>1, <3>2, <3>3
    <3>4. CASE r.records[t].spec.bank_id = b BY <2>2, <3>1, <3>2, <3>4
    <3> QED BY <3>3, <3>4
  <2> QED BY <2>1, <2>2
<1>5. WidthsFit(q)
  <2>1. \A t \in DOMAIN r.records : ~q.records[t].physical_done => ~r.records[t].physical_done
    BY <1>1
  <2> QED BY <1>2, <2>1 DEF Sane, WidthsFit
<1> QED BY <1>3, <1>4, <1>5 DEF Sane

(* The lane has given the Bank of the WORK up. *)
Left(st) == st.physical_done \/ st.jobs["D2H"] = "DONE"

(* What the steps of control do to the State of a WORK; receipt says whether
   the completion slot of its lane names it. *)
StateEvolves(st, new, receipt) ==
    /\ new.spec = st.spec
    /\ st.physical_done => new.physical_done
    /\ st.result => new.result
    /\ DirectImports => (Left(new) <=> Left(st))
    /\ DirectImports /\ st.imported => new.imported
    /\ DirectImports /\ new.imported => st.imported \/ receipt

(* The epoch of a Bank moves to that of one of its WORKs, and only forward. *)
EpochEvolves(r, q, b) ==
    \/ q.banks[b].epoch = r.banks[b].epoch
    \/ \E s \in DOMAIN r.records : /\ r.records[s].spec.bank_id = b
                                   /\ q.banks[b].epoch = r.records[s].spec.bank_epoch
                                   /\ r.banks[b].epoch < r.records[s].spec.bank_epoch

(* How a step that accepts no WORK and completes none changes the runtime; a
   lane's receipt is the only way a copy is done for the WORK it names. *)
Evolves(r, q, receipts) ==
    /\ DOMAIN q.records = DOMAIN r.records
    /\ \A s \in DOMAIN r.records :
           StateEvolves(r.records[s], q.records[s], receipts[r.records[s].spec.bank_id] = s)
    /\ \A b \in BankIds : EpochEvolves(r, q, b)
    /\ q.draining = r.draining /\ q.shutting_down = r.shutting_down

(* Such changes compose. *)
LEMMA EvolvesAgain ==
    ASSUME NEW r, NEW p, NEW q, RInv(r), RInv(p), RInv(q), NEW receipts,
           Evolves(r, p, receipts), Evolves(p, q, receipts)
    PROVE  Evolves(r, q, receipts)
<1>1. \A s \in DOMAIN r.records :
          StateEvolves(r.records[s], q.records[s], receipts[r.records[s].spec.bank_id] = s)
  BY DEF Evolves, StateEvolves
<1>2. \A s \in DOMAIN r.records : p.records[s].spec = r.records[s].spec
  BY DEF Evolves, StateEvolves
<1>3. \A b \in BankIds : EpochEvolves(r, q, b)
  <2> SUFFICES ASSUME NEW b \in BankIds PROVE EpochEvolves(r, q, b)
    OBVIOUS
  <2>1. r.banks[b].epoch \in Nat /\ p.banks[b].epoch \in Nat /\ q.banks[b].epoch \in Nat
    BY Plain DEF BankType
  <2>2. \A s \in DOMAIN r.records : r.records[s].spec.bank_epoch \in Nat
    BY StateFacts DEF Work
  <2>3. EpochEvolves(r, p, b) /\ EpochEvolves(p, q, b) /\ DOMAIN p.records = DOMAIN r.records
    BY DEF Evolves
  <2> QED BY <1>2, <2>1, <2>2, <2>3 DEF EpochEvolves
<1> QED BY <1>1, <1>3 DEF Evolves

(* A step without effect on the records is such a change. *)
LEMMA EvolvesNot == ASSUME NEW r, NEW receipts PROVE Evolves(r, r, receipts)
  BY DEF Evolves, StateEvolves, EpochEvolves

(* So is the change of one WORK and of its Bank, when both respect the order. *)
LEMMA EvolvesChange ==
    ASSUME NEW r, NEW q, NEW b \in BankIds, NEW s \in DOMAIN r.records, NEW receipts,
           Touches(r, q, b, s), r.records[s].spec.bank_id = b,
           StateEvolves(r.records[s], q.records[s], receipts[b] = s),
           \/ q.banks[b].epoch = r.banks[b].epoch
           \/ /\ q.banks[b].epoch = r.records[s].spec.bank_epoch
              /\ r.banks[b].epoch < r.records[s].spec.bank_epoch
    PROVE  Evolves(r, q, receipts)
<1>1. \A t \in DOMAIN r.records :
          StateEvolves(r.records[t], q.records[t], receipts[r.records[t].spec.bank_id] = t)
  BY DEF StateEvolves, Touches
<1>2. \A c \in BankIds : EpochEvolves(r, q, c)
  BY DEF Touches, EpochEvolves
<1> QED BY <1>1, <1>2 DEF Evolves, Touches

(* The physical rows are finitely many numbers. *)
LEMMA RowsFinite ==
    /\ PhysicalRows \subseteq Nat /\ IsFiniteSet(PhysicalRows) /\ Cardinality(PhysicalRows) = CapacityRows
<1>1. CapacityRows \in Nat /\ CapacityRows > 0 BY CapacityRowsAssumption
<1>2. PhysicalRows \subseteq Nat BY <1>1 DEF PhysicalRows
<1>3. /\ IsFiniteSet(0..(CapacityRows - 1))
      /\ Cardinality(0..(CapacityRows - 1)) = CapacityRows
  BY <1>1, FS_Interval
<1> QED BY <1>2, <1>3 DEF PhysicalRows

(* A set of numbers has a least one. *)
LEMMA LeastNumber ==
    ASSUME NEW S \in SUBSET Nat, S # {}
    PROVE  \E x \in S : \A y \in S : x <= y
<1>1. \E x \in S : \A y \in S : ~(<<y, x>> \in OpToRel(<, Nat))
  BY NatLessThanWellFounded, WFMin, Zenon
<1>2. PICK x \in S : \A y \in S : ~(<<y, x>> \in OpToRel(<, Nat)) BY <1>1
<1>3. \A y \in S : y \in Nat /\ x \in Nat BY <1>2
<1>4. \A y \in S : ~(y < x) BY <1>2, <1>3 DEF OpToRel
<1>5. \A y \in S : x <= y BY <1>3, <1>4
<1> QED BY <1>2, <1>5

(* Banks.allocate takes no more rows than it is asked for. *)
LEMMA LowestSize ==
    ASSUME NEW n \in Nat, NEW S \in SUBSET PhysicalRows
    PROVE  Cardinality(Lowest(n, S)) <= n
<1> DEFINE T == Lowest(n, S)
           below(x) == {y \in S : y < x}
           f == [x \in T |-> Cardinality(below(x))]
<1>1. /\ S \in SUBSET Nat /\ IsFiniteSet(S) /\ T \in SUBSET S
  BY RowsFinite, FS_Subset DEF Lowest
<1>0. (\A z \in S : z \in Nat) /\ (\A z \in T : z \in S /\ z \in Nat)
  BY <1>1
<1>2. \A x : below(x) \in SUBSET S /\ IsFiniteSet(below(x)) /\ Cardinality(below(x)) \in Nat
  <2> SUFFICES ASSUME NEW x
               PROVE  below(x) \in SUBSET S /\ IsFiniteSet(below(x)) /\ Cardinality(below(x)) \in Nat
    OBVIOUS
  <2>1. below(x) \in SUBSET S OBVIOUS
  <2> HIDE DEF below
  <2> QED BY <1>1, <2>1, FS_Subset, FS_CardinalityType
<1>3. \A x \in T : Cardinality(below(x)) < n BY DEF Lowest
<1>4. ASSUME NEW x \in T, NEW y \in T, x < y PROVE Cardinality(below(x)) < Cardinality(below(y))
  <2>1. below(x) \in SUBSET below(y) /\ x \in below(y) /\ x \notin below(x)
    <3>1. x \in S /\ x \in Nat /\ y \in Nat BY <1>0
    <3>2. \A z \in S : z < x => z < y BY <1>0, <1>4, <3>1
    <3>3. below(x) \in SUBSET below(y) BY <3>2
    <3>4. x \in below(y) BY <1>4, <3>1
    <3>5. x \notin below(x) BY <3>1
    <3> QED BY <3>3, <3>4, <3>5
  <2> HIDE DEF below
  <2>2. /\ Cardinality(below(x)) <= Cardinality(below(y))
        /\ Cardinality(below(y)) = Cardinality(below(x)) => below(y) = below(x)
    BY <1>2, <2>1, FS_Subset
  <2> QED BY <1>2, <2>1, <2>2
<1> HIDE DEF below
<1>5. f \in [T -> 0..(n - 1)]
  BY <1>2, <1>3
<1>6. \A x, y \in T : f[x] = f[y] => x = y
  <2> SUFFICES ASSUME NEW x \in T, NEW y \in T, f[x] = f[y], x # y PROVE FALSE
    OBVIOUS
  <2>1. x \in Nat /\ y \in Nat /\ (x < y \/ y < x) BY <1>0
  <2>2. f[x] = Cardinality(below(x)) /\ f[y] = Cardinality(below(y)) OBVIOUS
  <2>3. f[x] < f[y] \/ f[y] < f[x] BY <1>4, <2>1, <2>2
  <2> QED BY <1>2, <2>2, <2>3
<1>7. f \in Injection(T, 0..(n - 1)) BY <1>5, <1>6 DEF Injection, IsInjective
<1> HIDE DEF f, T
<1>8. IsFiniteSet(0..(n - 1)) /\ Cardinality(0..(n - 1)) = n BY FS_Interval
<1>9. Cardinality(T) <= n BY <1>7, <1>8, FS_Injection
<1> QED BY <1>9 DEF T

(* It takes some when some are free. *)
LEMMA LowestSome ==
    ASSUME NEW n \in Nat, n > 0, NEW S \in SUBSET PhysicalRows, S # {}
    PROVE  Lowest(n, S) # {}
<1>1. S \in SUBSET Nat BY RowsFinite
<1>2. PICK x \in S : \A y \in S : x <= y BY <1>1, LeastNumber
<1>0. \A y \in S : y \in Nat BY <1>1
<1>3. {y \in S : y < x} = {}
  <2>1. \A y \in S : ~(y < x) BY <1>0, <1>2
  <2> QED BY <2>1
<1>4. Cardinality({y \in S : y < x}) = 0 BY <1>3, FS_EmptySet
<1> QED BY <1>4 DEF Lowest

(* The fields of SetState, Put and Exchange. *)
LEMMA SetStateTouches ==
    ASSUME NEW r, RInv(r), NEW s \in DOMAIN r.records, NEW b \in BankIds, NEW st, st.spec = r.records[s].spec,
           NEW q, q = SetState(r, s, st)
    PROVE  /\ Touches(r, q, b, s) /\ q.records[s] = st
           /\ q.banks = r.banks /\ q.exchange = r.exchange
           /\ q.compute = r.compute /\ q.command = r.command /\ q.failed = r.failed
<1>1. /\ q.records = [r.records EXCEPT ![s] = st]
      /\ q.banks = r.banks /\ q.exchange = r.exchange
      /\ q.compute = r.compute /\ q.command = r.command /\ q.failed = r.failed
      /\ q.draining = r.draining /\ q.shutting_down = r.shutting_down
  BY Plain DEF SetState
<1> QED BY <1>1 DEF Touches

(* Put changes one State and one Bank. *)
LEMMA PutTouches ==
    ASSUME NEW r, RInv(r), NEW s \in DOMAIN r.records, NEW b \in BankIds, NEW st, st.spec = r.records[s].spec,
           NEW bank, st.spec.bank_id = b, NEW q, q = Put(r, s, st, bank)
    PROVE  /\ Touches(r, q, b, s) /\ q.records[s] = st /\ q.banks[b] = bank /\ q.exchange = r.exchange
           /\ q.compute = r.compute /\ q.command = r.command /\ q.failed = r.failed
<1>1. /\ q.records = [r.records EXCEPT ![s] = st]
      /\ q.banks = [r.banks EXCEPT ![b] = bank] /\ q.exchange = r.exchange
      /\ q.compute = r.compute /\ q.command = r.command /\ q.failed = r.failed
      /\ q.draining = r.draining /\ q.shutting_down = r.shutting_down
  BY Plain DEF Put
<1> QED BY <1>1, Plain DEF Touches

(* A State with the status of one of its jobs changed. *)
WithJob(st, kind, status) == [st EXCEPT !.jobs[kind] = status]

(* Exchange changes one State and the command of one lane. *)
LEMMA ExchangeTouches ==
    ASSUME NEW r, RInv(r), NEW s \in DOMAIN r.records, NEW b \in BankIds, r.records[s].spec.bank_id = b,
           r.records[s] \in StateOf(r.records[s].spec),
           NEW kind \in {"H2D", "D2H"}, NEW command \in {"IMPORT", "EXPORT", "RELEASE"},
           r.exchange[b] = "NONE", NEW q, q = Exchange(r, s, kind, command)
    PROVE  /\ Touches(r, q, b, s) /\ q.records[s] = WithJob(r.records[s], kind, "RUNNING")
           /\ q.banks = r.banks /\ q.exchange[b] = command
           /\ q.compute = r.compute /\ q.command = r.command /\ q.failed = r.failed
<1> DEFINE st == [r.records[s] EXCEPT !.jobs[kind] = "RUNNING"]
           e == [r EXCEPT !.exchange[b] = command]
<1>1. st.spec = r.records[s].spec BY DEF StateOf
<1>2. q = [e EXCEPT !.records[s].jobs[kind] = "RUNNING"] BY Plain DEF Exchange
<1>3. /\ q.records = [r.records EXCEPT ![s] = st]
      /\ q.banks = r.banks /\ q.exchange = [r.exchange EXCEPT ![b] = command]
      /\ q.compute = r.compute /\ q.command = r.command /\ q.failed = r.failed
      /\ q.draining = r.draining /\ q.shutting_down = r.shutting_down
  BY <1>2, Plain
<1> HIDE DEF st
<1>4. Touches(r, q, b, s) /\ q.records[s] = st /\ q.exchange[b] = command
  BY <1>1, <1>3, Plain DEF Touches, Flags
<1> QED BY <1>3, <1>4 DEF st, WithJob

(* Idle, job by job. *)
LEMMA IdleJobs ==
    ASSUME NEW st
    PROVE  /\ Idle(st, {"D2H"}) <=> /\ st.jobs["METADATA"] = "NONE" /\ st.jobs["H2D"] = "NONE"
                                    /\ st.jobs["COMPUTE"] = "NONE"
           /\ Idle(st, {"COMPUTE"}) <=> /\ st.jobs["METADATA"] = "NONE" /\ st.jobs["H2D"] = "NONE"
                                        /\ st.jobs["D2H"] = "NONE"
           /\ Idle(st, {"METADATA", "H2D", "D2H"}) <=> st.jobs["COMPUTE"] = "NONE"
           /\ NoJobs(st) <=> /\ st.jobs["METADATA"] = "NONE" /\ st.jobs["H2D"] = "NONE"
                             /\ st.jobs["COMPUTE"] = "NONE" /\ st.jobs["D2H"] = "NONE"
  BY DEF Idle, NoJobs, JobKinds

(* The change of the current WORK that stays in its Bank. *)
LEMMA SaneStay ==
    ASSUME NEW r, RInv(r), Sane(r), NEW q, RInv(q), NEW b \in BankIds, NEW s, s # None, s = r.banks[b].current,
           Touches(r, q, b, s), q.failed = r.failed, q.compute = r.compute, q.command = r.command,
           ~q.records[s].physical_done,
           q.banks[b].current = s, q.banks[b].pending = r.banks[b].pending,
           CurrentSane(q.records[s], q.banks[b], q.exchange[b]),
           (q.banks[b].phase = "COMPUTING") <=> (r.banks[b].phase = "COMPUTING")
    PROVE  Sane(q)
<1>1. /\ s \in DOMAIN r.records /\ ((r.banks[b].phase = "COMPUTING") <=> (r.compute = s))
  BY CurrentSound
<1>2. BankSane(q, b)
  <2>1. r.banks[b].pending # None =>
            /\ r.banks[b].pending \in DOMAIN r.records
            /\ r.banks[b].pending # s
    BY DEF RInv, RuntimeType, Owned
  <2>2. r.banks[b].pending # None =>
            /\ Fresh(r.records[r.banks[b].pending])
            /\ r.records[s].spec.bank_epoch < r.records[r.banks[b].pending].spec.bank_epoch
    BY DEF Sane, BankSane
  <2>3. q.banks[b].pending # None =>
            /\ Fresh(q.records[q.banks[b].pending])
            /\ q.records[s].spec.bank_epoch < q.records[q.banks[b].pending].spec.bank_epoch
    BY <2>1, <2>2 DEF Touches
  <2> QED BY <1>1, <2>3 DEF BankSane
<1>3. CommandSane(q) BY DEF Touches, Sane, CommandSane
<1>4. ~q.failed BY DEF Sane
<1> QED BY <1>2, <1>3, <1>4, SaneChange DEF Respects

(* A change of the State of the current WORK alone. *)
LEMMA StateSane ==
    ASSUME NEW r, RInv(r), Sane(r), NEW b \in BankIds, NEW s, s # None, s = r.banks[b].current,
           NEW st, st.spec = r.records[s].spec, ~st.physical_done,
           CurrentSane(st, r.banks[b], r.exchange[b]),
           NEW receipts, StateEvolves(r.records[s], st, receipts[b] = s),
           NEW q, RInv(q), q = SetState(r, s, st)
    PROVE  Sane(q) /\ q.records[s] = st /\ Evolves(r, q, receipts)
<1>1. s \in DOMAIN r.records /\ r.records[s].spec.bank_id = b
  BY CurrentSound
<1>2. /\ Touches(r, q, b, s) /\ q.records[s] = st
      /\ q.banks = r.banks /\ q.exchange = r.exchange
      /\ q.compute = r.compute /\ q.command = r.command /\ q.failed = r.failed
  BY <1>1, SetStateTouches
<1>3. Sane(q) BY <1>2, SaneStay
<1>4. Evolves(r, q, receipts)
  BY <1>1, <1>2, EvolvesChange
<1> QED BY <1>2, <1>3, <1>4
-----------------------------------------------------------------------------
(***************************************************************************)
(* Runtime._advance never fails and keeps Sane, paragraph by paragraph.    *)
(***************************************************************************)
LEMMA TakeReceiptSane ==
    ASSUME NEW r, RInv(r), Sane(r), NEW b \in BankIds, NEW s, s # None, s = r.banks[b].current,
           NEW receipts, NEW q, q = TakeReceipt(r, s, receipts[b])
    PROVE  Sane(q) /\ Evolves(r, q, receipts)
<1> DEFINE st == [r.records[s] EXCEPT !.imported = TRUE]
<1>1. /\ s \in DOMAIN r.records /\ r.records[s].spec.bank_id = b /\ ~r.records[s].physical_done
      /\ r.records[s] \in StateOf(r.records[s].spec)
      /\ CurrentSane(r.records[s], r.banks[b], r.exchange[b])
  BY CurrentSound
<1>2. CASE q = r BY <1>2, EvolvesNot
<1>3. CASE DirectImports /\ receipts[b] = s /\ q = SetState(r, s, st)
  <2>1. /\ st.spec = r.records[s].spec /\ st.jobs = r.records[s].jobs /\ st.layout = r.records[s].layout
        /\ st.plan = r.records[s].plan /\ st.outcomes = r.records[s].outcomes
        /\ st.captured = r.records[s].captured /\ st.metadata = r.records[s].metadata
        /\ st.result = r.records[s].result /\ st.imported = TRUE
        /\ st.physical_done = r.records[s].physical_done
    BY <1>1 DEF StateOf
  <2> HIDE DEF st
  <2>2. RInv(q) BY <1>3, TakeReceiptInv
  <2>3. Live(st) = Live(r.records[s]) /\ (AllSkipped(r.records[s]) => AllSkipped(st))
    BY <2>1, Zenon DEF Live, AllSkipped
  <2>4. CurrentSane(st, r.banks[b], r.exchange[b])
    BY <1>1, <1>3, <2>1, <2>3 DEF CurrentSane, Staged, Skipping, Planned, Exchanging, Idle
  <2>5. StateEvolves(r.records[s], st, receipts[b] = s)
    BY <1>3, <2>1 DEF StateEvolves, Left
  <2>6. st.spec = r.records[s].spec /\ ~st.physical_done BY <1>1, <2>1
  <2>7. q = SetState(r, s, st) BY <1>3
  <2> QED BY <2>2, <2>4, <2>5, <2>6, <2>7, StateSane
<1> QED BY <1>2, <1>3 DEF TakeReceipt, SetState

(* Banks.allocate: the current WORK has its rows, and no row is refused. *)
LEMMA AllocateSane ==
    ASSUME NEW r, RInv(r), Sane(r), NEW b \in BankIds, NEW s, s # None, s = r.banks[b].current,
           r.records[s].layout = {}, ~AllSkipped(r.records[s]),
           NEW receipts, NEW q, q = Allocate(r, s)
    PROVE  Sane(q) /\ Evolves(r, q, receipts) /\ ~AllSkipped(q.records[s])
<1> DEFINE state == r.records[s]
           bank == r.banks[b]
           work == state.spec
           rows == Lowest(work.rows, r.free_rows)
           st == [state EXCEPT !.layout = rows]
           filling == [bank EXCEPT !.layout = rows, !.epoch = work.bank_epoch, !.phase = "FILLING"]
           p == Put(r, s, st, filling)
<1>1. /\ s \in DOMAIN r.records /\ work.bank_id = b /\ ~state.physical_done
      /\ work \in Work /\ state \in StateOf(work) /\ bank \in BankType
      /\ CurrentSane(state, bank, r.exchange[b])
  BY CurrentSound
<1>2. bank.layout = {} /\ bank.epoch < work.bank_epoch /\ bank.phase = "FREE"
  BY <1>1, Zenon DEF CurrentSane
<1>3. CASE q = r BY <1>3, EvolvesNot
<1>4. CASE Fits(r, work) /\ q = [p EXCEPT !.free_rows = r.free_rows \ rows]
  <2>1. work.rows \in Nat /\ work.rows > 0 /\ work.bank_epoch \in Nat
    BY <1>1, MaxBatchSizeAssumption DEF Work
  <2>2. r.free_rows \in SUBSET PhysicalRows BY Plain
  <2>3. r.free_rows # {}
    <3> HIDE DEF p, rows
    <3>1. work.rows <= Cardinality(r.free_rows) BY <1>4 DEF Fits
    <3>2. Cardinality(r.free_rows) > 0 \/ Cardinality(r.free_rows) # 0 BY <2>1, <3>1
    <3> QED BY <2>1, <3>1, <3>2, FS_EmptySet
  <2>4. rows # {} /\ Cardinality(rows) <= work.rows /\ rows \subseteq PhysicalRows
    BY <2>1, <2>2, <2>3, LowestSome, LowestSize, LowestRows
  <2>5. /\ st.spec = work /\ st.jobs = state.jobs /\ st.layout = rows
        /\ st.plan = state.plan /\ st.outcomes = state.outcomes
        /\ st.captured = state.captured /\ st.metadata = state.metadata
        /\ st.result = state.result /\ st.imported = state.imported
        /\ st.physical_done = state.physical_done
    BY <1>1 DEF StateOf
  <2>6. /\ filling.layout = rows /\ filling.epoch = work.bank_epoch /\ filling.phase = "FILLING"
        /\ filling.current = bank.current /\ filling.pending = bank.pending
    BY <1>1 DEF BankType
  <2> HIDE DEF st, filling, rows, p
  <2>7. /\ Touches(r, p, b, s) /\ p.records[s] = st /\ p.banks[b] = filling /\ p.exchange = r.exchange
        /\ p.compute = r.compute /\ p.command = r.command /\ p.failed = r.failed
    BY <1>1, <2>5, PutTouches DEF p
  <2>8. /\ q.records = p.records /\ q.banks = p.banks /\ q.exchange = p.exchange
        /\ q.compute = p.compute /\ q.command = p.command /\ q.failed = p.failed
        /\ q.draining = p.draining /\ q.shutting_down = p.shutting_down
    BY <1>4
  <2>9. /\ Touches(r, q, b, s) /\ q.records[s] = st /\ q.banks[b] = filling /\ q.exchange = r.exchange
        /\ q.compute = r.compute /\ q.command = r.command /\ q.failed = r.failed
    BY <2>7, <2>8 DEF Touches
  <2>10. RInv(q) BY AllocateInv
  <2>11. Live(st) = Live(state) /\ (AllSkipped(state) <=> AllSkipped(st))
    BY <2>5, Zenon DEF Live, AllSkipped
  <2>12. CurrentSane(st, filling, r.exchange[b])
    <3>1. Staged(st, "FILLING")
      BY <1>1, <1>2, <2>5, Zenon DEF CurrentSane, Staged, Idle, JobKinds
    <3>2. Skipping(st) /\ Planned(st) /\ Exchanging(st, r.exchange[b])
      BY <1>1, <2>5, <2>11, Zenon DEF CurrentSane, Skipping, Planned, Exchanging, Idle
    <3> QED BY <2>4, <2>5, <2>6, <3>1, <3>2 DEF CurrentSane
  <2>13. Sane(q)
    BY <1>1, <1>2, <2>5, <2>6, <2>9, <2>10, <2>12, SaneStay, Zenon
  <2>14. StateEvolves(state, st, receipts[b] = s)
    BY <2>5 DEF StateEvolves, Left
  <2>15. Evolves(r, q, receipts) BY <1>1, <1>2, <2>6, <2>9, <2>14, EvolvesChange, Zenon
  <2> QED BY <2>9, <2>11, <2>13, <2>15
<1> HIDE DEF p
<1>5. q = r \/ (Fits(r, work) /\ q = [p EXCEPT !.free_rows = r.free_rows \ rows])
  <2>1. ~(work.bank_epoch <= bank.epoch)
    <3>1. bank.epoch \in Nat /\ work.bank_epoch \in Nat BY <1>1 DEF BankType, Work
    <3> QED BY <1>2, <3>1
  <2> QED BY <1>1, <1>2, <2>1, Zenon DEF Allocate, p
<1> QED BY <1>3, <1>4, <1>5

(* Runtime._advance: the layout of a WORK some member of which will run. *)
LEMMA LayOutSane ==
    ASSUME NEW r, RInv(r), Sane(r), NEW b \in BankIds, NEW s, s # None, s = r.banks[b].current,
           ~AllSkipped(r.records[s]),
           NEW receipts, NEW q, q = LayOut(r, s)
    PROVE  /\ RInv(q) /\ Sane(q) /\ Evolves(r, q, receipts) /\ ~AllSkipped(q.records[s])
           /\ q.banks[b].current = s
<1>1. CASE q = r BY <1>1, EvolvesNot
<1>2. CASE r.records[s].layout = {} /\ q = Allocate(r, s)
  <2>1. RInv(q) /\ q.banks[b].current = s BY <1>2, AllocateInv
  <2>2. Sane(q) /\ Evolves(r, q, receipts) /\ ~AllSkipped(q.records[s]) BY <1>2, AllocateSane, Zenon
  <2> QED BY <2>1, <2>2
<1> QED BY <1>1, <1>2, Zenon DEF LayOut

(* Runtime._advance: the inline jobs and the start of the metadata job. *)
LEMMA CompileSane ==
    ASSUME NEW r, RInv(r), Sane(r), NEW b \in BankIds, NEW s, s # None, s = r.banks[b].current,
           r.records[s].layout # {}, ~AllSkipped(r.records[s]),
           NEW receipts, NEW q, q = SetState(r, s, Compile(r.records[s]))
    PROVE  /\ RInv(q) /\ Sane(q) /\ Evolves(r, q, receipts)
           /\ ~AllSkipped(q.records[s]) /\ q.records[s].layout = r.records[s].layout
           /\ q.banks[b].current = s
<1> DEFINE state == r.records[s]
           bank == r.banks[b]
           st == Compile(state)
<1>1. /\ s \in DOMAIN r.records /\ state.spec.bank_id = b /\ ~state.physical_done
      /\ state \in StateOf(state.spec) /\ bank \in BankType
      /\ CurrentSane(state, bank, r.exchange[b])
  BY CurrentSound
<1>2. /\ st.spec = state.spec /\ st.layout = state.layout /\ st.outcomes = state.outcomes
      /\ st.captured = state.captured /\ st.metadata = state.metadata
      /\ st.result = state.result /\ st.imported = state.imported
      /\ st.physical_done = state.physical_done
      /\ st.jobs["H2D"] = state.jobs["H2D"] /\ st.jobs["COMPUTE"] = state.jobs["COMPUTE"]
      /\ st.jobs["D2H"] = state.jobs["D2H"]
  BY <1>1, Zenon DEF Compile, StateOf, JobKinds
<1>3. \/ st.jobs["METADATA"] = state.jobs["METADATA"]
      \/ st.jobs["METADATA"] = "RUNNING" /\ ~state.metadata
  BY <1>1, Zenon DEF Compile, StateOf, JobKinds
<1>4. \/ st.plan = state.plan
      \/ /\ state.plan = {} /\ st.plan = Live(state)
         /\ \A i \in Live(state) : Dependencies(state.spec.operation) \subseteq state.captured[i]
  BY <1>1, Zenon DEF Compile, StateOf
<1>5. RInv(q) /\ q.banks = r.banks BY CompileInv DEF SetState
<1>6. q = SetState(r, s, st) OBVIOUS
<1> HIDE DEF st
<1>8. Live(st) = Live(state) /\ ~AllSkipped(st)
  BY <1>2, Zenon DEF Live, AllSkipped
<1>9. CurrentSane(st, bank, r.exchange[b])
  <2>1. bank.phase # "FREE" BY <1>1, Zenon DEF CurrentSane
  <2>2. Staged(st, bank.phase)
    <3>1. Staged(state, bank.phase) BY <1>1, Zenon DEF CurrentSane
    <3>2. bank.phase \in Phases BY <1>1 DEF BankType
    <3>3. CASE bank.phase = "FILLING" BY <1>2, <1>3, <3>1, <3>3, IdleJobs, Zenon DEF Staged
    <3>4. CASE bank.phase = "READY" BY <1>2, <1>3, <3>1, <3>4, IdleJobs, Zenon DEF Staged
    <3>5. CASE bank.phase = "COMPUTING"
      <4>1. /\ ~state.result /\ state.metadata /\ state.imported
            /\ state.jobs["COMPUTE"] = "RUNNING" /\ Idle(state, {"COMPUTE"})
            /\ state.plan = Live(state) /\ state.plan # {}
        BY <3>1, <3>5, Zenon DEF Staged
      <4>0. st.jobs["METADATA"] = state.jobs["METADATA"] BY <1>3, <4>1
      <4>2. Idle(st, {"COMPUTE"})
        <5>1. \A k \in JobKinds : st.jobs[k] = state.jobs[k] BY <1>2, <4>0, Zenon DEF JobKinds
        <5> QED BY <4>1, <5>1, Zenon DEF Idle
      <4>3. st.plan = Live(st) /\ st.plan # {} BY <1>4, <1>8, <4>1, Zenon
      <4> QED BY <1>2, <3>5, <4>1, <4>2, <4>3, Zenon DEF Staged
    <3>6. CASE bank.phase = "EXPORTING" BY <1>2, <1>3, <1>8, <3>1, <3>6, IdleJobs, Zenon DEF Staged
    <3> QED BY <2>1, <3>2, <3>3, <3>4, <3>5, <3>6 DEF Phases
  <2>3. Skipping(st)
    BY <1>1, <1>2, Zenon DEF CurrentSane, Skipping
  <2>4. Planned(st)
    BY <1>1, <1>2, <1>4, <1>8, Zenon DEF CurrentSane, Planned
  <2>5. Exchanging(st, r.exchange[b])
    BY <1>1, <1>2, Zenon DEF CurrentSane, Exchanging, JobKinds
  <2> QED BY <1>1, <1>2, <2>2, <2>3, <2>4, <2>5, Zenon DEF CurrentSane
<1>10. StateEvolves(state, st, receipts[b] = s)
  BY <1>2 DEF StateEvolves, Left
<1>11. Sane(q) /\ q.records[s] = st /\ Evolves(r, q, receipts)
  <2>1. st.spec = r.records[s].spec /\ ~st.physical_done /\ RInv(q) BY <1>1, <1>2, <1>5, Zenon
  <2> HIDE DEF state, bank
  <2> QED BY <1>6, <1>9, <1>10, <2>1, StateSane DEF state, bank
<1> QED BY <1>2, <1>5, <1>8, <1>11, Zenon

(* Runtime._advance: joining, submitting or skipping the import. *)
LEMMA JoinImportSane ==
    ASSUME NEW r, RInv(r), Sane(r), NEW b \in BankIds, NEW s, s # None, s = r.banks[b].current,
           r.records[s].layout # {}, ~AllSkipped(r.records[s]),
           NEW receipts, NEW q, q = JoinImport(r, s)
    PROVE  Sane(q) /\ Evolves(r, q, receipts)
<1> DEFINE state == r.records[s]
           bank == r.banks[b]
           st == [state EXCEPT !.imported = TRUE]
           submitted == [state EXCEPT !.jobs["H2D"] = "RUNNING"]
           ready == [bank EXCEPT !.phase = "READY"]
<1>1. /\ s \in DOMAIN r.records /\ state.spec.bank_id = b /\ ~state.physical_done
      /\ state \in StateOf(state.spec) /\ bank \in BankType
      /\ CurrentSane(state, bank, r.exchange[b])
  BY CurrentSound
<1>2. RInv(q) BY JoinImportInv
<1>3. CASE q = r BY <1>3, EvolvesNot
<1>4. bank.phase \in Phases /\ bank.phase # "FREE" BY <1>1, Zenon DEF CurrentSane, BankType
<1>5. ready.phase = "READY" /\ ready.current = bank.current /\ ready.pending = bank.pending
      /\ ready.layout = bank.layout /\ ready.epoch = bank.epoch
  BY <1>1 DEF BankType
<1>6. CASE /\ DirectImports /\ bank.phase = "FILLING" /\ state.imported /\ state.metadata
           /\ q = SetPhase(r, b, "READY")
  <2>1. /\ q.records = r.records /\ q.banks = [r.banks EXCEPT ![b] = ready]
        /\ q.exchange = r.exchange /\ q.compute = r.compute /\ q.command = r.command
        /\ q.failed = r.failed /\ q.draining = r.draining /\ q.shutting_down = r.shutting_down
    BY <1>6, Plain DEF SetPhase
  <2> HIDE DEF ready
  <2>2. q.banks[b] = ready /\ \A c \in BankIds : c # b => q.banks[c] = r.banks[c]
    BY <2>1, Plain
  <2>3. Touches(r, q, b, s) BY <2>1, <2>2 DEF Touches
  <2>4. CurrentSane(state, ready, r.exchange[b])
    <3>1. Staged(state, "READY") BY <1>1, <1>6, Zenon DEF CurrentSane, Staged, Idle, Skipping, JobKinds
    <3> QED BY <1>1, <1>4, <1>5, <3>1, Zenon DEF CurrentSane
  <2>5. Sane(q) BY <1>1, <1>2, <1>5, <1>6, <2>1, <2>2, <2>3, <2>4, SaneStay
  <2>6. StateEvolves(state, q.records[s], receipts[b] = s) BY <2>1 DEF StateEvolves, Left
  <2>7. Evolves(r, q, receipts) BY <1>1, <1>5, <2>2, <2>3, <2>6, EvolvesChange, Zenon
  <2> QED BY <2>5, <2>7
<1>7. CASE /\ ~DirectImports /\ state.metadata /\ ~state.imported /\ state.jobs["H2D"] = "NONE"
  <2>1. bank.phase = "FILLING" BY <1>1, <1>4, <1>7, Zenon DEF CurrentSane, Staged, Phases
  <2>2. /\ r.exchange[b] = "NONE" /\ state.jobs["D2H"] = "NONE" /\ state.jobs["METADATA"] = "NONE"
        /\ state.jobs["COMPUTE"] = "NONE" /\ ~state.result
    <3>1. /\ state.jobs["D2H"] = "NONE" /\ state.jobs["METADATA"] = "NONE"
          /\ state.jobs["COMPUTE"] = "NONE" /\ ~state.result
      BY <1>1, <1>7, <2>1, Zenon DEF CurrentSane, Staged, Skipping, Idle, JobKinds
    <3>2. r.exchange[b] \in {"NONE", "IMPORT", "EXPORT", "RELEASE"} BY Plain DEF Flags
    <3> QED BY <1>1, <1>7, <3>1, <3>2, Zenon DEF CurrentSane, Exchanging
  <2>3. CASE q = Exchange(r, s, "H2D", "IMPORT")
    <3>1. /\ submitted.spec = state.spec /\ submitted.layout = state.layout
          /\ submitted.outcomes = state.outcomes /\ submitted.plan = state.plan
          /\ submitted.captured = state.captured /\ submitted.metadata = state.metadata
          /\ submitted.result = state.result /\ submitted.imported = state.imported
          /\ submitted.physical_done = state.physical_done
          /\ submitted.jobs["H2D"] = "RUNNING"
          /\ submitted.jobs["METADATA"] = state.jobs["METADATA"]
          /\ submitted.jobs["COMPUTE"] = state.jobs["COMPUTE"]
          /\ submitted.jobs["D2H"] = state.jobs["D2H"]
      BY <1>1, Zenon DEF StateOf, JobKinds
    <3>2. /\ Touches(r, q, b, s) /\ q.records[s] = submitted
          /\ q.banks = r.banks /\ q.exchange[b] = "IMPORT"
          /\ q.compute = r.compute /\ q.command = r.command /\ q.failed = r.failed
      <4>1. s \in DOMAIN r.records /\ state.spec.bank_id = b /\ state \in StateOf(state.spec)
        BY <1>1
      <4>2. r.exchange[b] = "NONE" BY <2>2
      <4>3. submitted = WithJob(r.records[s], "H2D", "RUNNING") BY DEF WithJob
      <4> HIDE DEF submitted
      <4> QED BY <2>3, <4>1, <4>2, <4>3, ExchangeTouches
    <3> HIDE DEF submitted
    <3>3. Live(submitted) = Live(state) BY <3>1 DEF Live
    <3>4. CurrentSane(submitted, bank, "IMPORT")
      <4>1. Staged(submitted, "FILLING")
        BY <1>1, <1>7, <2>1, <2>2, <3>1, Zenon DEF CurrentSane, Staged, Idle, JobKinds
      <4>2. Exchanging(submitted, "IMPORT") /\ Skipping(submitted)
        BY <2>2, <3>1 DEF Exchanging, Skipping, JobKinds
      <4>3. Planned(submitted) BY <1>1, <3>1, <3>3, Zenon DEF CurrentSane, Planned
      <4> QED BY <1>1, <2>1, <3>1, <4>1, <4>2, <4>3, Zenon DEF CurrentSane
    <3>5. Sane(q)
      <4>1. ~submitted.physical_done BY <1>1, <3>1, Zenon
      <4>2. CurrentSane(q.records[s], q.banks[b], q.exchange[b]) BY <3>2, <3>4
      <4> QED BY <1>2, <3>2, <4>1, <4>2, SaneStay
    <3>6. StateEvolves(state, submitted, receipts[b] = s) BY <3>1 DEF StateEvolves, Left, JobKinds
    <3>7. Evolves(r, q, receipts) BY <1>1, <3>2, <3>6, EvolvesChange
    <3> QED BY <3>5, <3>7
  <2>4. CASE q = Put(r, s, st, ready)
    <3>1. /\ st.spec = state.spec /\ st.jobs = state.jobs /\ st.layout = state.layout
          /\ st.plan = state.plan /\ st.outcomes = state.outcomes
          /\ st.captured = state.captured /\ st.metadata = state.metadata
          /\ st.result = state.result /\ st.imported = TRUE
          /\ st.physical_done = state.physical_done
      BY <1>1 DEF StateOf
    <3> HIDE DEF st, ready
    <3>2. /\ Touches(r, q, b, s) /\ q.records[s] = st /\ q.banks[b] = ready /\ q.exchange = r.exchange
          /\ q.compute = r.compute /\ q.command = r.command /\ q.failed = r.failed
      BY <1>1, <2>4, <3>1, PutTouches
    <3>3. Live(st) = Live(state) BY <3>1 DEF Live
    <3>4. CurrentSane(st, ready, r.exchange[b])
      <4>1. Staged(st, "READY") BY <1>7, <2>2, <3>1, Zenon DEF Staged, Idle, JobKinds
      <4>2. Skipping(st) /\ Exchanging(st, r.exchange[b]) /\ Planned(st)
        BY <1>1, <2>2, <3>1, <3>3, Zenon DEF CurrentSane, Skipping, Exchanging, Planned
      <4> QED BY <1>1, <1>4, <1>5, <3>1, <4>1, <4>2, Zenon DEF CurrentSane
    <3>5. Sane(q) BY <1>1, <1>2, <1>5, <2>1, <3>1, <3>2, <3>4, SaneStay
    <3>6. StateEvolves(state, st, receipts[b] = s) BY <1>7, <3>1 DEF StateEvolves, Left
    <3>7. Evolves(r, q, receipts) BY <1>1, <1>5, <3>2, <3>6, EvolvesChange
    <3> QED BY <3>5, <3>7
  <2> HIDE DEF st, ready
  <2>5. q = Exchange(r, s, "H2D", "IMPORT") \/ q = Put(r, s, st, ready)
    BY <1>1, <1>7, Zenon DEF JoinImport, st, ready
  <2> QED BY <2>3, <2>4, <2>5
<1> HIDE DEF st, ready
<1>8. \/ q = r
      \/ /\ DirectImports /\ bank.phase = "FILLING" /\ state.imported /\ state.metadata
         /\ q = SetPhase(r, b, "READY")
      \/ /\ ~DirectImports /\ state.metadata /\ ~state.imported /\ state.jobs["H2D"] = "NONE"
  BY <1>1, Zenon DEF JoinImport, SetPhase
<1> QED BY <1>3, <1>6, <1>7, <1>8
=============================================================================
