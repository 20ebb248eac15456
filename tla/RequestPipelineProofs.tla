----------------------- MODULE RequestPipelineProofs -----------------------
(***************************************************************************)
(* Proofs about RequestPipeline, for any number of requests, workers,      *)
(* Banks and tokens.  The inductive invariant PipelineInv says where every *)
(* row may have been copied to and that all copies of a request agree      *)
(* (Content), how far the rows of each role may be apart (Frontier), who   *)
(* answers for a round (OneOwner, Ledger, Held, Kept) and what each WORK   *)
(* waits for and has produced (JobSane).  From it: no exception is         *)
(* reachable, results are accepted one at a time, the host KV of a request *)
(* has one writer, and the published results follow SequentialDecoding.    *)
(* Beside it, Woken: a worker that can take a WORK is dirty.               *)
(***************************************************************************)
EXTENDS RequestPipeline, FiniteSetTheorems, WellFoundedInduction, TLAPS

(***************************************************************************)
(* Types.                                                                  *)
(***************************************************************************)
(* The name of a WORK. *)
Keys == Nat \X Nat

(* A row that a worker publishes for a request. *)
Row == [round : Int, work : Keys, version : Int, count : Int, size : Int, finished : BOOLEAN]

(* What a WORK keeps for each of its members, and what is kept for each WORK. *)
PerMember(S) == UNION {[B -> S] : B \in SUBSET Requests}
PerWork(S) == UNION {[K -> S] : K \in SUBSET Keys}

(* A frozen WORK. *)
Work == [key : Keys, role : Roles, bank : Banks, initial : BOOLEAN, round : PerMember(Int),
         source : PerMember(Int), budget : PerMember(Int)]

(* A WORK on its worker. *)
Job == [work : Work, watch : PerMember(SUBSET Names), got : PerMember([Names -> Row]),
        skip : SUBSET Requests, computed : BOOLEAN, imported : SUBSET Requests,
        published : SUBSET Requests, exported : SUBSET Requests, out : PerMember(Row)]

(* A WORK in the ledger. *)
Record == [work : Work, applied : SUBSET Requests, computed : BOOLEAN, completed : BOOLEAN]

(* The dirty workers of each stage. *)
Dirty == {d \in [Roles -> SUBSET Workers] : \A s \in Roles : d[s] \subseteq WorkersOf(s)}

(* The Engine. *)
Engine == [req : [Requests -> [lifecycle : {"absent", "active", "finished"}, count : Int, round : Int]],
           issued : [Roles -> [Requests -> Int]], rows : [Cells -> Row], records : PerWork(Record),
           pending : [Roles -> SUBSET Work], dirty : Dirty,
           occupied : SUBSET (Workers \X Banks), sequence : [Workers -> Nat]]

(* The types of an Engine e, rows R, jobs J and completions C. *)
Typed(e, R, J, C) ==
    /\ e \in Engine
    /\ R \in [Cells -> Row]
    /\ J \in PerWork(Job)
    /\ C \in PerWork(SUBSET Requests)

(***************************************************************************)
(* Rounds.  The first round of Draft is 1, that of Target 0.               *)
(***************************************************************************)
First(s) == IF s = "D" THEN 1 ELSE 0
Other(s) == IF s = "D" THEN "T" ELSE "D"

(* The rows of a request. *)
Res(R, s, r) == R[<<s, "result", r>>]
Host(R, s, r) == R[<<s, "host", r>>]
Import(R, s, r) == R[<<s, "import", r>>]

(* The round a row has reached. *)
Last(s, x) == IF x.round < First(s) THEN First(s) - 1 ELSE x.round

(* The version of the KV after a round. *)
Version(s, q) == IF s = "D" THEN q ELSE 2 * q + 1

(***************************************************************************)
(* The contents of rows, wherever they have been copied to.                *)
(***************************************************************************)
(* A job holds row x of role s of request r. *)
Carries(job, s, r, x) ==
    /\ r \in Members(job.work)
    /\ \/ job.work.role = s /\ x \in {job.got[r]["source"], job.out[r]}
       \/ job.work.role # s /\ x = job.got[r]["predecessor"]
       \/ s = "T" /\ x = job.got[r]["classified"]

(* Row x of role s of request r is somewhere in the system. *)
Item(e, R, J, s, r, x) ==
    \/ x \in {Res(R, s, r), Host(R, s, r), Result(e, s, r)}
    \/ \E k \in DOMAIN J : Carries(J[k], s, r, x)

(* What a row of a role can say. *)
GoodRow(s, x) ==
    /\ x \in Row
    /\ x # NoFact =>
        /\ x.round >= First(s)
        /\ x.version = Version(s, x.round)
        /\ x.size >= 1
        /\ s = "T" => /\ x.round < x.count /\ x.count <= MaxNew
                      /\ x.count = MaxNew => x.finished
                      /\ x.round = 0 => x.count = x.size /\ x.size = 1
        /\ s = "D" => /\ 1 <= x.count /\ x.count + x.size <= MaxNew
                      /\ x.size <= Depth

(* A row of role s and a row of role t, of the same request: a round has one
   content, a proposal continues the output of the round before, and a
   verification commits at most one token more than the proposal. *)
Agree(s, x, t, y) ==
    (x # NoFact /\ y # NoFact) =>
        /\ s = t /\ x.round = y.round => x = y
        /\ s = "T" /\ t = "T" /\ x.round = y.round + 1 =>
               x.count = y.count + x.size /\ ~y.finished
        /\ s = "D" /\ t = "T" /\ x.round = y.round + 1 => x.count = y.count
        /\ s = "D" /\ t = "T" /\ x.round = y.round =>
               y.count = x.count + y.size /\ y.size <= x.size + 1

Content(e, R, J) ==
    \A r \in Requests, s \in Roles : \A x : Item(e, R, J, s, r, x) =>
        /\ GoodRow(s, x)
        /\ \A t \in Roles : \A y : Item(e, R, J, t, r, y) => Agree(s, x, t, y)

(***************************************************************************)
(* How far a request has come, in each role.                               *)
(***************************************************************************)
(* Host KV, the rows the Engine has accepted, and authorisations. *)
Order(e, R, s, r) ==
    /\ Last(s, Host(R, s, r)) <= Last(s, Res(R, s, r))
    /\ Last(s, Result(e, s, r)) <= Last(s, Res(R, s, r))
    /\ Last(s, Res(R, s, r)) <= IssuedRound(e, s, r)
    /\ IssuedRound(e, s, r) <= Last(s, Result(e, s, r)) + 1

(* Draft is ahead of Target by one round at most. *)
Chain(e, R, r) ==
    /\ Res(R, "T", r).round <= Last("D", Res(R, "D", r))
    /\ Last("D", Res(R, "D", r)) <= Res(R, "T", r).round + 1
    /\ 0 <= e.issued["D"][r]
    /\ e.issued["D"][r] <= e.issued["T"][r]
    /\ e.issued["T"][r] <= e.issued["D"][r] + 1
    /\ e.issued["T"][r] <= MaxNew

(* What the client is told is the Target row that the Engine holds. *)
Told(e, r) ==
    /\ e.req[r].round = Result(e, "T", r).round
    /\ e.req[r].count = Result(e, "T", r).count
    /\ e.req[r].lifecycle = "finished" <=> Result(e, "T", r).finished
    /\ e.req[r].lifecycle = "absent" => e.issued["T"][r] = 0

Frontier(e, R) ==
    \A r \in Requests : /\ \A s \in Roles : Order(e, R, s, r)
                        /\ Chain(e, R, r)
                        /\ Told(e, r)

(***************************************************************************)
(* Authorisations.                                                         *)
(***************************************************************************)
(* Record k authorises round q of a request. *)
Authorises(e, k, s, r, q) ==
    /\ k \in DOMAIN e.records
    /\ e.records[k].work.role = s
    /\ r \in Members(e.records[k].work)
    /\ e.records[k].work.round[r] = q

(* WORK k is responsible for round q of a request. *)
Bears(e, R, s, r, q, k) ==
    \/ \E x \in {Res(R, s, r), Host(R, s, r), Import(R, s, r), Result(e, s, r)} :
           x.round = q /\ x.work = k
    \/ Authorises(e, k, s, r, q)

(* A round belongs to one WORK, and has been issued. *)
OneOwner(e, R) ==
    \A s \in Roles, r \in Requests, q \in Int, k \in Keys :
        q >= First(s) /\ Bears(e, R, s, r, q, k) =>
            /\ q <= IssuedRound(e, s, r)
            /\ \A l \in Keys : Bears(e, R, s, r, q, l) => k = l

(* An import row carries the version that its WORK has frozen. *)
Imported(work, row, r) == row.round = work.round[r] => row.version = work.source[r]
ImportsMatch(e, R) ==
    /\ \A s \in Roles, r \in Requests : Import(R, s, r) = NoFact \/ First(s) <= Import(R, s, r).round
    /\ \A k \in DOMAIN e.records : \A r \in Members(e.records[k].work) :
           Imported(e.records[k].work, Import(R, e.records[k].work.role, r), r)

(* What the Engine freezes in a WORK. *)
Frozen(work) ==
    /\ DOMAIN work.source = Members(work) /\ DOMAIN work.budget = Members(work)
    /\ \A r \in Members(work) :
        /\ First(work.role) <= work.round[r]
        /\ work.initial <=> work.round[r] = First(work.role)
        /\ ~work.initial => work.source[r] = Version(work.role, work.round[r] - 1)
        /\ 1 <= work.budget[r]

(* The ledger holds the WORKs that run and those that have completed. *)
Ledger(e, J, C) ==
    /\ DOMAIN e.records = DOMAIN J \cup DOMAIN C
    /\ DOMAIN J \cap DOMAIN C = {}
    /\ \A k \in DOMAIN e.records :
        /\ e.records[k].work.key = k /\ Frozen(e.records[k].work)
        /\ k \in DOMAIN J => J[k].work = e.records[k].work
        /\ e.records[k].completed => k \in DOMAIN C
        /\ k[1] \in WorkersOf(e.records[k].work.role)
        /\ k[2] < e.sequence[k[1]]
        /\ \A r \in e.records[k].applied \cap Members(e.records[k].work) :
               e.records[k].work.round[r] <= Result(e, e.records[k].work.role, r).round

(* A published result has a record until it has been accepted, and the record
   counts its request among the executed ones. *)
Held(e, R, J, C) ==
    \A k \in DOMAIN e.records : \A r \in Members(e.records[k].work) :
        LET row == Res(R, e.records[k].work.role, r)
        IN  row.work = k /\ row.round = e.records[k].work.round[r] =>
               \/ k \in DOMAIN J /\ r \in J[k].published
               \/ k \in DOMAIN C /\ r \in C[k]
Kept(e, R) ==
    \A s \in Roles, r \in Requests :
        Result(e, s, r).round # Res(R, s, r).round =>
            Authorises(e, Res(R, s, r).work, s, r, Res(R, s, r).round)

(***************************************************************************)
(* WORKs.                                                                  *)
(***************************************************************************)
(* The dependencies of a member. *)
Applies(work, name) ==
    \/ ~work.initial
    \/ work.role = "D" /\ name # "source"

(* The round a dependency waits for. *)
Awaited(work, r, name) ==
    IF work.role = "T" /\ name = "predecessor" THEN work.round[r] ELSE work.round[r] - 1

(* The order of the steps of a job. *)
Staged(job) ==
    /\ DOMAIN job.watch = Members(job.work) /\ DOMAIN job.got = Members(job.work)
    /\ DOMAIN job.out = Members(job.work)
    /\ job.published \subseteq Live(job)
    /\ job.exported \subseteq job.published
    /\ job.imported \subseteq Live(job)
    /\ job.published # {} => job.computed
    /\ job.imported # {} => \A r \in Members(job.work) : job.watch[r] \subseteq {"predecessor"}
    /\ \A r \in Members(job.work) :
        /\ job.computed \/ r \in job.skip => job.watch[r] = {}
        /\ \A name \in job.watch[r] : Applies(job.work, name)

(* Where the rows of its role stand, for one member. *)
Placed(e, R, job, r) ==
    LET s == job.work.role
        q == job.work.round[r]
    IN  /\ q <= IssuedRound(e, s, r)
        /\ r \in Live(job) \ job.published => Last(s, Res(R, s, r)) = q - 1
        /\ r \in job.published => q <= Last(s, Res(R, s, r))
        /\ r \in Live(job) \ job.exported => Last(s, Host(R, s, r)) < q
        /\ r \in job.exported => q <= Last(s, Host(R, s, r))

(* What has been captured for one member. *)
Captured(R, job, r) ==
    \A name \in Names :
        LET row == R[Watched(job, r, name)]
            got == job.got[r][name]
        IN  /\ got.round <= row.round
            /\ (r \in Live(job) /\ name \notin job.watch[r] /\ Applies(job.work, name)) =>
                   /\ Awaited(job.work, r, name) <= row.round
                   /\ ~job.computed \/ name = "source" => got.round = Awaited(job.work, r, name)

(* A member that is still to be published continues an open request. *)
Continues(R, job, r) ==
    LET row == Res(R, "T", r)
        q == job.work.round[r]
    IN  r \in Live(job) \ job.published =>
            /\ job.work.role = "D" /\ "classified" \notin job.watch[r] /\ row.round = q - 1 =>
                   ~row.finished
            /\ job.work.role = "T" /\ ~job.work.initial =>
                   ~row.finished /\ job.work.budget[r] = Minimum(Depth, MaxNew - row.count)

(* What has been computed. *)
Produced(k, job, r) ==
    IF job.computed /\ r \in Live(job)
    THEN job.out[r].round = job.work.round[r] /\ job.out[r].work = k
    ELSE job.out[r] = NoFact

JobSane(e, R, k, job) ==
    /\ Frozen(job.work) /\ Staged(job)
    /\ \A r \in Members(job.work) : /\ Placed(e, R, job, r)
                                    /\ Captured(R, job, r)
                                    /\ Continues(R, job, r)
                                    /\ Produced(k, job, r)

(* A WORK that may be sent: it is the next round of each of its members. *)
Ready(e, s, work) ==
    /\ work.role = s /\ Frozen(work)
    /\ work.key[1] \in WorkersOf(s) /\ work.key[2] = e.sequence[work.key[1]]
    /\ \A r \in Members(work) :
        LET row == Result(e, "T", r)
            q == work.round[r]
        IN  /\ q = IssuedRound(e, s, r) + 1
            /\ q = Last(s, Result(e, s, r)) + 1
            /\ e.req[r].lifecycle # "absent"
            /\ s = "D" => e.issued["T"][r] = q
            /\ s = "T" => e.issued["D"][r] = q
            /\ s = "T" /\ ~work.initial =>
                   ~row.finished /\ work.budget[r] = Minimum(Depth, MaxNew - row.count)

Pending(e) ==
    \A s \in Roles : \A work \in e.pending[s] :
        Ready(e, s, work) /\ e.pending[s] = {work}

(* The inductive invariant. *)
Good(e, R, J, C) ==
    /\ Typed(e, R, J, C)
    /\ Content(e, R, J)
    /\ Frontier(e, R)
    /\ OneOwner(e, R) /\ ImportsMatch(e, R)
    /\ Ledger(e, J, C) /\ Held(e, R, J, C) /\ Kept(e, R)
    /\ \A k \in DOMAIN J : JobSane(e, R, k, J[k])
    /\ Pending(e)
PipelineInv == failure = "none" /\ Good(eng, rows, jobs, completions)
-----------------------------------------------------------------------------
(***************************************************************************)
(* Maps over members and over WORKs.                                       *)
(***************************************************************************)
(* What a map over members is. *)
LEMMA MemberMap ==
    ASSUME NEW S, NEW f \in PerMember(S)
    PROVE  /\ DOMAIN f \subseteq Requests
           /\ f = [r \in DOMAIN f |-> f[r]]
           /\ \A r \in DOMAIN f : f[r] \in S
<1>1. PICK B \in SUBSET Requests : f \in [B -> S] BY DEF PerMember
<1> QED BY <1>1

(* How to make one. *)
LEMMA MakeMemberMap ==
    ASSUME NEW S, NEW B \in SUBSET Requests, NEW f, f = [r \in B |-> f[r]], \A r \in B : f[r] \in S
    PROVE  f \in PerMember(S)
<1>1. f \in [B -> S] OBVIOUS
<1> QED BY <1>1 DEF PerMember

(* What a map over WORKs is. *)
LEMMA WorkMap ==
    ASSUME NEW S, NEW f \in PerWork(S)
    PROVE  /\ DOMAIN f \subseteq Keys
           /\ f = [k \in DOMAIN f |-> f[k]]
           /\ \A k \in DOMAIN f : f[k] \in S
<1>1. PICK B \in SUBSET Keys : f \in [B -> S] BY DEF PerWork
<1> QED BY <1>1

(* How to make one. *)
LEMMA MakeWorkMap ==
    ASSUME NEW S, NEW B \in SUBSET Keys, NEW f, f = [k \in B |-> f[k]], \A k \in B : f[k] \in S
    PROVE  f \in PerWork(S)
<1>1. f \in [B -> S] OBVIOUS
<1> QED BY <1>1 DEF PerWork

(* Adding a WORK. *)
LEMMA PutMap ==
    ASSUME NEW S, NEW f \in PerWork(S), NEW k \in Keys, NEW x \in S
    PROVE  /\ Put(f, k, x) \in PerWork(S)
           /\ DOMAIN Put(f, k, x) = DOMAIN f \cup {k}
           /\ Put(f, k, x)[k] = x
           /\ \A j \in DOMAIN f : j # k => Put(f, k, x)[j] = f[j]
<1> DEFINE p == Put(f, k, x)
           B == DOMAIN f \cup {k}
<1>0. DOMAIN f \subseteq Keys /\ \A j \in DOMAIN f : f[j] \in S BY WorkMap
<1>1. p = [j \in B |-> p[j]] BY DEF Put
<1>2. p[k] = x /\ \A j \in DOMAIN f : j # k => p[j] = f[j] BY DEF Put
<1>3. \A j \in B : p[j] \in S BY <1>0, <1>2
<1>4. p \in PerWork(S) BY <1>0, <1>1, <1>3, MakeWorkMap
<1>5. DOMAIN p = B BY DEF Put
<1> QED BY <1>2, <1>4, <1>5

(* Removing WORKs. *)
LEMMA WithoutMap ==
    ASSUME NEW S, NEW f \in PerWork(S), NEW K
    PROVE  /\ Without(f, K) \in PerWork(S)
           /\ DOMAIN Without(f, K) = DOMAIN f \ K
           /\ \A j \in DOMAIN f \ K : Without(f, K)[j] = f[j]
<1> DEFINE p == Without(f, K)
           B == DOMAIN f \ K
<1>0. DOMAIN f \subseteq Keys /\ \A j \in DOMAIN f : f[j] \in S BY WorkMap
<1>1. p = [j \in B |-> p[j]] BY DEF Without
<1>2. \A j \in B : p[j] = f[j] BY DEF Without
<1>3. \A j \in B : p[j] \in S BY <1>0, <1>2
<1>4. p \in PerWork(S) BY <1>0, <1>1, <1>3, MakeWorkMap
<1>5. DOMAIN p = B BY DEF Without
<1> QED BY <1>2, <1>4, <1>5

(* Changing one WORK. *)
LEMMA ChangeMap ==
    ASSUME NEW S, NEW f \in PerWork(S), NEW k \in DOMAIN f, NEW x \in S
    PROVE  [f EXCEPT ![k] = x] \in PerWork(S)
<1> DEFINE p == [f EXCEPT ![k] = x]
           B == DOMAIN f
<1>0. DOMAIN f \subseteq Keys /\ \A j \in DOMAIN f : f[j] \in S BY WorkMap
<1>1. p = [j \in B |-> p[j]] OBVIOUS
<1>3. \A j \in B : p[j] \in S BY <1>0
<1> QED BY <1>0, <1>1, <1>3, MakeWorkMap
-----------------------------------------------------------------------------
(***************************************************************************)
(* The Engine's functions.                                                 *)
(***************************************************************************)
(* The two records authorise the same work, and have applied as much. *)
SameRecord(a, b) == a.work = b.work /\ a.applied = b.applied

(* e and f agree on what has been accepted, authorised and is pending. *)
Quiet(e, f) ==
    /\ f \in Engine
    /\ f.req = e.req /\ f.issued = e.issued /\ f.rows = e.rows
    /\ f.pending = e.pending /\ f.sequence = e.sequence
    /\ DOMAIN f.records = DOMAIN e.records
    /\ \A k \in DOMAIN e.records : SameRecord(e.records[k], f.records[k])

(* A wake-up changes the dirty workers only. *)
LEMMA WakeQuiet ==
    ASSUME NEW e \in Engine, NEW woken
    PROVE  Quiet(e, Wake(e, woken)) /\ Wake(e, woken).records = e.records
<1> DEFINE f == Wake(e, woken)
           d == [s \in Roles |-> e.dirty[s] \cup {w \in WorkersOf(s) : <<s, w>> \in woken}]
<1>1. \A s \in Roles : WorkersOf(s) \subseteq Workers BY DEF WorkersOf, Workers
<1>2. d \in Dirty BY <1>1 DEF Engine, Dirty
<1>3. f = [e EXCEPT !.dirty = d] BY DEF Wake
<1>4. f \in Engine BY <1>2, <1>3 DEF Engine
<1>5. /\ f.req = e.req /\ f.issued = e.issued /\ f.rows = e.rows
      /\ f.pending = e.pending /\ f.sequence = e.sequence /\ f.records = e.records
  BY <1>3 DEF Engine
<1> QED BY <1>4, <1>5 DEF Quiet, SameRecord

(* The Engine's records are typed. *)
LEMMA EngineRecords ==
    ASSUME NEW e \in Engine
    PROVE  /\ e.records \in PerWork(Record)
           /\ DOMAIN e.records \subseteq Keys
           /\ \A k \in DOMAIN e.records :
                /\ e.records[k] \in Record
                /\ e.records[k].work \in Work
                /\ Members(e.records[k].work) \subseteq Requests
<1>1. e.records \in PerWork(Record) BY DEF Engine
<1>2. DOMAIN e.records \subseteq Keys /\ \A k \in DOMAIN e.records : e.records[k] \in Record
  BY <1>1, WorkMap
<1>3. \A k \in DOMAIN e.records : e.records[k].work \in Work BY <1>2 DEF Record
<1>4. \A k \in DOMAIN e.records : e.records[k].work.round \in PerMember(Int) BY <1>3 DEF Work
<1> QED BY <1>1, <1>2, <1>3, <1>4, MemberMap DEF Members

(* Quiet changes compose. *)
LEMMA QuietAgain ==
    ASSUME NEW e, NEW f, NEW g, Quiet(e, f), Quiet(f, g) PROVE Quiet(e, g)
  BY DEF Quiet, SameRecord

(* The worker rows mark computations only. *)
LEMMA ReadWorkersStill ==
    ASSUME NEW e \in Engine, jobs \in PerWork(Job)
    PROVE  /\ Quiet(e, ReadWorkers(e))
           /\ \A k \in DOMAIN e.records :
                  ReadWorkers(e).records[k].completed = e.records[k].completed
<1> DEFINE computed == {k \in DOMAIN e.records : DirectImports
                         /\ (k \in DOMAIN completions \/ (k \in DOMAIN jobs /\ jobs[k].computed))}
           freed == {p[1] : p \in e.occupied \ OccupiedBanks}
           ended == {k[1] : k \in {k \in computed : ~ e.records[k].computed}}
           rec == [k \in DOMAIN e.records |-> [e.records[k] EXCEPT !.computed = @ \/ k \in computed]]
           f == [e EXCEPT !.occupied = OccupiedBanks, !.records = rec]
<1>0. \A k \in DOMAIN e.records : e.records[k] \in Record BY EngineRecords
<1>1. \A k \in DOMAIN e.records : /\ rec[k] \in Record /\ SameRecord(e.records[k], rec[k])
                                  /\ rec[k].completed = e.records[k].completed
  <2> SUFFICES ASSUME NEW k \in DOMAIN e.records
               PROVE  /\ rec[k] \in Record /\ SameRecord(e.records[k], rec[k])
                      /\ rec[k].completed = e.records[k].completed
    OBVIOUS
  <2>1. (e.records[k].computed \/ k \in computed) \in BOOLEAN BY <1>0 DEF Record
  <2> QED BY <2>1, <1>0 DEF Record, SameRecord
<1>2. rec \in PerWork(Record)
  <2> HIDE DEF rec
  <2>1. rec = [k \in DOMAIN e.records |-> rec[k]] BY DEF rec
  <2> QED BY <2>1, <1>1, EngineRecords, MakeWorkMap
<1>3. OccupiedBanks \subseteq Workers \X Banks BY DEF OccupiedBanks
<1>4. f \in Engine BY <1>2, <1>3 DEF Engine
<1>5. /\ f.req = e.req /\ f.issued = e.issued /\ f.rows = e.rows
      /\ f.pending = e.pending /\ f.sequence = e.sequence /\ f.records = rec
  BY DEF Engine
<1>6. Quiet(e, f) BY <1>1, <1>4, <1>5 DEF Quiet
<1>7. ReadWorkers(e) = Wake(f, Roles \X (freed \cup ended)) BY Zenon DEF ReadWorkers, computed, freed, ended, rec, f
<1>8. Quiet(f, ReadWorkers(e)) /\ ReadWorkers(e).records = f.records BY <1>4, <1>7, WakeQuiet
<1>9. \A k \in DOMAIN e.records : ReadWorkers(e).records[k].completed = e.records[k].completed
  BY <1>1, <1>5, <1>8
<1> QED BY <1>6, <1>8, <1>9, QuietAgain

(* Completions are noted as they stand. *)
LEMMA ObserveCompletionsStill ==
    ASSUME NEW e \in Engine
    PROVE  /\ Quiet(e, ObserveCompletions(e))
           /\ \A k \in DOMAIN e.records :
                  ObserveCompletions(e).records[k].completed =>
                      e.records[k].completed \/ k \in DOMAIN completions
<1> DEFINE new == {k \in DOMAIN completions : ~ e.records[k].completed}
           rec == [k \in DOMAIN e.records |->
                     [e.records[k] EXCEPT !.completed = @ \/ k \in new, !.computed = @ \/ k \in new]]
           f == [e EXCEPT !.records = rec]
<1>0. \A k \in DOMAIN e.records : e.records[k] \in Record BY EngineRecords
<1>1. \A k \in DOMAIN e.records : /\ rec[k] \in Record /\ SameRecord(e.records[k], rec[k])
                                  /\ rec[k].completed => e.records[k].completed \/ k \in new
  <2> SUFFICES ASSUME NEW k \in DOMAIN e.records
               PROVE  /\ rec[k] \in Record /\ SameRecord(e.records[k], rec[k])
                      /\ rec[k].completed => e.records[k].completed \/ k \in new
    OBVIOUS
  <2> HIDE DEF new
  <2>1. (e.records[k].computed \/ k \in new) \in BOOLEAN /\ (e.records[k].completed \/ k \in new) \in BOOLEAN
    BY <1>0 DEF Record
  <2> QED BY <2>1, <1>0 DEF Record, SameRecord
<1>2. rec \in PerWork(Record)
  <2> HIDE DEF rec
  <2>1. rec = [k \in DOMAIN e.records |-> rec[k]] BY DEF rec
  <2> QED BY <2>1, <1>1, EngineRecords, MakeWorkMap
<1>4. f \in Engine BY <1>2 DEF Engine
<1>5. /\ f.req = e.req /\ f.issued = e.issued /\ f.rows = e.rows
      /\ f.pending = e.pending /\ f.sequence = e.sequence /\ f.records = rec
  BY DEF Engine
<1>6. Quiet(e, f) BY <1>1, <1>4, <1>5 DEF Quiet
<1>7. ObserveCompletions(e) = Wake(f, Roles \X {k[1] : k \in new}) BY DEF ObserveCompletions
<1>8. Quiet(f, ObserveCompletions(e)) /\ ObserveCompletions(e).records = f.records BY <1>4, <1>7, WakeQuiet
<1>9. \A k \in DOMAIN e.records : ObserveCompletions(e).records[k].completed =>
          e.records[k].completed \/ k \in DOMAIN completions
  BY <1>1, <1>5, <1>8
<1> QED BY <1>6, <1>8, <1>9, QuietAgain

(* Refresh removes the records it can retire; Settle clears dirty workers. *)
Retired(e, f) ==
    /\ f \in Engine
    /\ f.req = e.req /\ f.issued = e.issued /\ f.rows = e.rows
    /\ f.pending = e.pending /\ f.sequence = e.sequence
    /\ DOMAIN f.records = DOMAIN e.records \ Retirable(e)
    /\ \A k \in DOMAIN f.records : f.records[k] = e.records[k]

(* Settling only retires records, and counts nothing twice. *)
LEMMA RefreshRetires ==
    ASSUME NEW e \in Engine PROVE Retired(e, Settle(Refresh(e)))
<1> DEFINE rec == Without(e.records, Retirable(e))
           f == [e EXCEPT !.records = rec]
           g == Refresh(e)
           d == [s \in Roles |->
                   IF g.pending[s] = {} /\ ~ Plannable(g, s, g.dirty[s], Requests) THEN {} ELSE g.dirty[s]]
<1>1. /\ rec \in PerWork(Record) /\ DOMAIN rec = DOMAIN e.records \ Retirable(e)
      /\ \A k \in DOMAIN e.records \ Retirable(e) : rec[k] = e.records[k]
  <2> DEFINE K == Retirable(e)
             r == e.records
  <2>1. r \in PerWork(Record) BY EngineRecords
  <2> HIDE DEF g, d, f, K, r
  <2>2. /\ Without(r, K) \in PerWork(Record) /\ DOMAIN Without(r, K) = DOMAIN r \ K
        /\ \A k \in DOMAIN r \ K : Without(r, K)[k] = r[k]
    BY <2>1, WithoutMap
  <2> QED BY <2>2 DEF K, r
<1>2. f \in Engine BY <1>1 DEF Engine
<1>3. /\ f.req = e.req /\ f.issued = e.issued /\ f.rows = e.rows
      /\ f.pending = e.pending /\ f.sequence = e.sequence /\ f.records = rec
  BY DEF Engine
<1>4. g = Wake(f, Roles \X {k[1] : k \in Retirable(e)}) BY DEF Refresh
<1>5. Quiet(f, g) /\ g.records = rec BY <1>2, <1>3, <1>4, WakeQuiet
<1>6. d \in Dirty BY <1>5 DEF Quiet, Engine, Dirty
<1>7. Settle(g) = [g EXCEPT !.dirty = d] BY DEF Settle
<1> HIDE DEF g, d, f, rec
<1>8. g \in Engine BY <1>5 DEF Quiet
<1>9. Settle(g) \in Engine BY <1>6, <1>7, <1>8 DEF Engine
<1>10. /\ Settle(g).req = g.req /\ Settle(g).issued = g.issued /\ Settle(g).rows = g.rows
       /\ Settle(g).pending = g.pending /\ Settle(g).sequence = g.sequence
       /\ Settle(g).records = g.records
  BY <1>7, <1>8 DEF Engine
<1>11. Retired(e, Settle(g)) BY <1>1, <1>3, <1>5, <1>9, <1>10 DEF Retired, Quiet
<1> QED BY <1>11 DEF g

(* The facts of a batch that the Engine accepts. *)
Accepted(e, batch) == {c \in batch : Verdict(e, c) = "accept"}

(* What record k counts as applied after them. *)
AppliedBy(e, good, k) ==
    e.records[k].applied \cup
        {r \in Members(e.records[k].work) :
            /\ <<e.records[k].work.role, "result", r>> \in good
            /\ Applied(e, k, r)}

(* The Engine holds the accepted facts. *)
Updated(e, f, good) ==
    /\ f \in Engine
    /\ f.issued = e.issued /\ f.pending = e.pending /\ f.sequence = e.sequence
    /\ \A c \in Cells : f.rows[c] = IF c \in good THEN rows[c] ELSE e.rows[c]
    /\ \A r \in Requests :
           f.req[r] = IF <<"T", "result", r>> \in good
                      THEN Consumed(e.req[r], rows[<<"T", "result", r>>]) ELSE e.req[r]

(* Consumed leaves the fields of a request typed. *)
LEMMA ConsumedType ==
    ASSUME NEW e \in Engine, NEW r \in Requests, NEW row \in Row
    PROVE  Consumed(e.req[r], row) \in
               [lifecycle : {"absent", "active", "finished"}, count : Int, round : Int]
<1>1. e.req[r] \in [lifecycle : {"absent", "active", "finished"}, count : Int, round : Int]
  BY DEF Engine
<1>2. row.round \in Int /\ row.count \in Int BY DEF Row
<1>3. [e.req[r] EXCEPT !.round = row.round] \in
          [lifecycle : {"absent", "active", "finished"}, count : Int, round : Int]
  BY <1>1, <1>2
<1>4. [lifecycle |-> IF row.finished THEN "finished" ELSE "active", count |-> row.count, round |-> row.round]
          \in [lifecycle : {"absent", "active", "finished"}, count : Int, round : Int]
  BY <1>2
<1> QED BY <1>1, <1>3, <1>4 DEF Consumed

(* The accepted rows replace those the Engine held, and are counted in their records. *)
LEMMA ApplyFactsUpdates ==
    ASSUME NEW e \in Engine, rows \in [Cells -> Row], NEW batch \in SUBSET Cells
    PROVE  LET f == ApplyFacts(e, batch)
               good == Accepted(e, batch)
           IN  /\ Updated(e, f, good)
               /\ DOMAIN f.records = DOMAIN e.records
               /\ \A k \in DOMAIN e.records :
                    /\ f.records[k].work = e.records[k].work
                    /\ f.records[k].completed = e.records[k].completed
                    /\ f.records[k].applied = AppliedBy(e, good, k)
<1> DEFINE good == Accepted(e, batch)
           new == [c \in Cells |-> IF c \in good THEN rows[c] ELSE e.rows[c]]
           req == [r \in Requests |->
                     IF <<"T", "result", r>> \in good
                     THEN Consumed(e.req[r], rows[<<"T", "result", r>>]) ELSE e.req[r]]
           rec == [k \in DOMAIN e.records |->
                     [e.records[k] EXCEPT !.applied = @ \cup
                        {r \in Members(e.records[k].work) :
                            /\ <<e.records[k].work.role, "result", r>> \in good
                            /\ Applied(e, k, r)}]]
           f == [e EXCEPT !.rows = new, !.req = req, !.records = rec]
<1>0. \A k \in DOMAIN e.records : e.records[k] \in Record /\ Members(e.records[k].work) \subseteq Requests
  BY EngineRecords
<1>1. \A k \in DOMAIN e.records : /\ rec[k] \in Record /\ rec[k].work = e.records[k].work
                                  /\ rec[k].completed = e.records[k].completed
                                  /\ rec[k].applied = AppliedBy(e, good, k)
  <2> SUFFICES ASSUME NEW k \in DOMAIN e.records
               PROVE  /\ rec[k] \in Record /\ rec[k].work = e.records[k].work
                      /\ rec[k].completed = e.records[k].completed
                      /\ rec[k].applied = AppliedBy(e, good, k)
    OBVIOUS
  <2> HIDE DEF good
  <2>1. rec[k] = [e.records[k] EXCEPT !.applied = AppliedBy(e, good, k)] BY DEF AppliedBy
  <2>2. e.records[k] \in Record /\ Members(e.records[k].work) \subseteq Requests BY <1>0
  <2>3. AppliedBy(e, good, k) \subseteq Requests BY <2>2 DEF Record, AppliedBy
  <2> HIDE DEF rec
  <2> QED BY <2>1, <2>2, <2>3 DEF Record
<1>2. rec \in PerWork(Record)
  <2> HIDE DEF rec
  <2>1. rec = [k \in DOMAIN e.records |-> rec[k]] BY DEF rec
  <2> QED BY <2>1, <1>1, EngineRecords, MakeWorkMap
<1>3. new \in [Cells -> Row] BY DEF Engine
<1>4. req \in [Requests -> [lifecycle : {"absent", "active", "finished"}, count : Int, round : Int]]
  <2>1. ASSUME NEW r \in Requests
        PROVE  req[r] \in [lifecycle : {"absent", "active", "finished"}, count : Int, round : Int]
    <3> HIDE DEF good
    <3>1. <<"T", "result", r>> \in Cells BY DEF Cells, Roles, Kinds
    <3>2. rows[<<"T", "result", r>>] \in Row BY <3>1
    <3>3. Consumed(e.req[r], rows[<<"T", "result", r>>]) \in
              [lifecycle : {"absent", "active", "finished"}, count : Int, round : Int]
      BY <3>2, ConsumedType
    <3>4. e.req[r] \in [lifecycle : {"absent", "active", "finished"}, count : Int, round : Int]
      BY DEF Engine
    <3> QED BY <3>3, <3>4
  <2> QED BY <2>1
<1> HIDE DEF new, req, rec
<1>5. f \in Engine BY <1>2, <1>3, <1>4 DEF Engine
<1>6. /\ f.req = req /\ f.issued = e.issued /\ f.rows = new
      /\ f.pending = e.pending /\ f.sequence = e.sequence /\ f.records = rec
  BY DEF Engine
<1>7. Updated(e, f, good)
  BY <1>5, <1>6 DEF Updated, new, req
<1>8. ApplyFacts(e, batch) = Wake(f, FactWakes(good)) BY DEF ApplyFacts, Accepted, new, req, rec
<1>9. Quiet(f, ApplyFacts(e, batch)) /\ ApplyFacts(e, batch).records = f.records
  BY <1>5, <1>8, WakeQuiet
<1>10. Updated(e, ApplyFacts(e, batch), good) BY <1>7, <1>9 DEF Updated, Quiet
<1>11. DOMAIN rec = DOMAIN e.records BY DEF rec
<1> QED BY <1>1, <1>6, <1>9, <1>10, <1>11

(* What a poll leaves of the records: those it retires had completed, and the
   results of their executed members have been applied. *)
Polled(e, f, good) ==
    /\ Updated(e, f, good)
    /\ DOMAIN f.records \subseteq DOMAIN e.records
    /\ \A k \in DOMAIN f.records :
        /\ f.records[k].work = e.records[k].work
        /\ f.records[k].applied = AppliedBy(e, good, k)
        /\ f.records[k].completed => e.records[k].completed \/ k \in DOMAIN completions
    /\ \A k \in DOMAIN e.records \ DOMAIN f.records :
        /\ e.records[k].completed \/ k \in DOMAIN completions
        /\ completions[k] \subseteq AppliedBy(e, good, k)

(* All that one poll changes in the Engine. *)
LEMMA ObservedPolls ==
    ASSUME NEW e \in Engine, rows \in [Cells -> Row], jobs \in PerWork(Job),
           NEW batch \in SUBSET Cells, NEW fresh \in BOOLEAN, NEW reading \in BOOLEAN
    PROVE  Polled(e, Observed(e, batch, fresh, reading), Accepted(e, batch))
<1> DEFINE good == Accepted(e, batch)
           a == ApplyFacts(e, batch)
           b == IF fresh THEN ReadWorkers(a) ELSE a
           c == IF reading THEN ObserveCompletions(b) ELSE b
           f == Settle(Refresh(c))
<1>1. /\ Updated(e, a, good) /\ DOMAIN a.records = DOMAIN e.records
      /\ \A k \in DOMAIN e.records : /\ a.records[k].work = e.records[k].work
                                     /\ a.records[k].completed = e.records[k].completed
                                     /\ a.records[k].applied = AppliedBy(e, good, k)
  BY ApplyFactsUpdates
<1>2. a \in Engine BY <1>1 DEF Updated
<1>3. f = Observed(e, batch, fresh, reading) BY DEF Observed
<1> HIDE DEF a
<1>4. Quiet(a, b) /\ \A k \in DOMAIN a.records : b.records[k].completed = a.records[k].completed
  <2>1. CASE fresh BY <2>1, <1>2, ReadWorkersStill
  <2>2. CASE ~fresh BY <2>2, <1>2 DEF Quiet, SameRecord
  <2> QED BY <2>1, <2>2
<1> HIDE DEF b
<1>5. Quiet(b, c) /\ \A k \in DOMAIN b.records :
          c.records[k].completed => b.records[k].completed \/ k \in DOMAIN completions
  <2>0. b \in Engine BY <1>4 DEF Quiet
  <2>1. CASE reading BY <2>0, <2>1, ObserveCompletionsStill
  <2>2. CASE ~reading BY <2>0, <2>2 DEF Quiet, SameRecord
  <2> QED BY <2>1, <2>2
<1> HIDE DEF c
<1>6. Quiet(a, c) BY <1>4, <1>5, QuietAgain
<1>7. Retired(c, f)
  <2>1. c \in Engine BY <1>5 DEF Quiet
  <2> QED BY <2>1, RefreshRetires
<1> HIDE DEF f, good
<1>8. Updated(e, f, good) BY <1>1, <1>6, <1>7 DEF Updated, Quiet, Retired
<1>9. DOMAIN c.records = DOMAIN e.records BY <1>1, <1>6 DEF Quiet
<1>10. \A k \in DOMAIN e.records :
          /\ c.records[k].work = e.records[k].work
          /\ c.records[k].applied = AppliedBy(e, good, k)
          /\ c.records[k].completed => e.records[k].completed \/ k \in DOMAIN completions
  BY <1>1, <1>4, <1>5, <1>6 DEF Quiet, SameRecord
<1>11. \A k \in Retirable(c) : /\ c.records[k].completed
                               /\ completions[k] \subseteq c.records[k].applied
  BY DEF Retirable
<1>12. DOMAIN f.records = DOMAIN e.records \ Retirable(c) BY <1>7, <1>9 DEF Retired
<1>13. \A k \in DOMAIN f.records : f.records[k] = c.records[k] BY <1>7 DEF Retired
<1>14. \A k \in DOMAIN e.records \ DOMAIN f.records : k \in Retirable(c) BY <1>12
<1>15. \A k \in DOMAIN f.records : k \in DOMAIN e.records BY <1>12
<1>16. \A k \in DOMAIN f.records :
        /\ f.records[k].work = e.records[k].work
        /\ f.records[k].applied = AppliedBy(e, good, k)
        /\ f.records[k].completed => e.records[k].completed \/ k \in DOMAIN completions
  BY <1>10, <1>13, <1>15
<1>17. \A k \in DOMAIN e.records \ DOMAIN f.records :
        /\ e.records[k].completed \/ k \in DOMAIN completions
        /\ completions[k] \subseteq AppliedBy(e, good, k)
  BY <1>10, <1>11, <1>14
<1>18. Polled(e, f, good) BY <1>8, <1>15, <1>16, <1>17 DEF Polled
<1> QED BY <1>3, <1>18 DEF good
-----------------------------------------------------------------------------
(***************************************************************************)
(* What the invariant says of rows.                                        *)
(***************************************************************************)
(* Cells are named by role, kind and request. *)
LEMMA CellNames ==
    /\ \A s \in Roles, r \in Requests :
         <<s, "result", r>> \in Cells /\ <<s, "host", r>> \in Cells /\ <<s, "import", r>> \in Cells
    /\ \A c \in Cells : c[1] \in Roles /\ c[2] \in Kinds /\ c[3] \in Requests /\ c = <<c[1], c[2], c[3]>>
  BY DEF Cells, Kinds

(* The rows of a request are typed, in shared memory and in the Engine. *)
LEMMA RowTypes ==
    ASSUME NEW e \in Engine, NEW R \in [Cells -> Row], NEW s \in Roles, NEW r \in Requests
    PROVE  /\ Res(R, s, r) \in Row /\ Host(R, s, r) \in Row /\ Import(R, s, r) \in Row
           /\ Result(e, s, r) \in Row
           /\ Res(R, s, r).round \in Int /\ Host(R, s, r).round \in Int
           /\ Import(R, s, r).round \in Int /\ Result(e, s, r).round \in Int
           /\ Res(R, s, r).work \in Keys /\ Result(e, s, r).work \in Keys
           /\ Host(R, s, r).work \in Keys /\ Import(R, s, r).work \in Keys
           /\ e.issued[s][r] \in Int
           /\ IssuedRound(e, s, r) \in Int
           /\ First(s) \in 0 .. 1
<1>1. e.rows \in [Cells -> Row] BY DEF Engine
<1>2. /\ Res(R, s, r) \in Row /\ Host(R, s, r) \in Row /\ Import(R, s, r) \in Row
      /\ Result(e, s, r) \in Row
  BY <1>1, CellNames DEF Res, Host, Import, Result
<1>3. e.issued[s][r] \in Int BY DEF Engine
<1> QED BY <1>2, <1>3 DEF Row, IssuedRound, First

(* A row that is somewhere in the system. *)
LEMMA ItemRound ==
    ASSUME NEW e, NEW R, NEW J, Content(e, R, J), NEW r \in Requests, NEW s \in Roles,
           NEW x, Item(e, R, J, s, r, x)
    PROVE  /\ GoodRow(s, x)
           /\ x.round < First(s) <=> x = NoFact
           /\ x = NoFact => x.round = -1
<1>1. GoodRow(s, x) BY DEF Content
<1>2. NoFact.round = -1 BY DEF NoFact
<1>3. x.round \in Int BY <1>1 DEF GoodRow, Row
<1> QED BY <1>1, <1>2, <1>3 DEF GoodRow, First

(* A round has one content. *)
LEMMA SameRound ==
    ASSUME NEW e, NEW R, NEW J, Content(e, R, J), NEW r \in Requests, NEW s \in Roles,
           NEW x, Item(e, R, J, s, r, x), NEW y, Item(e, R, J, s, r, y), x.round = y.round
    PROVE  x = y
<1>1. Agree(s, x, s, y) BY DEF Content
<1>2. x = NoFact <=> y = NoFact BY ItemRound
<1> QED BY <1>1, <1>2 DEF Agree

(* Rows that are copied keep their contents. *)
LEMMA ContentKept ==
    ASSUME NEW e, NEW R, NEW J, Content(e, R, J), NEW f, NEW Q, NEW K,
           \A r \in Requests, s \in Roles : \A x :
               Item(f, Q, K, s, r, x) => x = NoFact \/ Item(e, R, J, s, r, x)
    PROVE  Content(f, Q, K)
<1>1. \A s, t \in Roles : \A x : GoodRow(s, NoFact) /\ Agree(s, x, t, NoFact) /\ Agree(s, NoFact, t, x)
  BY DEF GoodRow, Agree, NoFact, NoKey, Row, Keys
<1>2. ASSUME NEW r \in Requests, NEW s \in Roles, NEW x, Item(f, Q, K, s, r, x)
      PROVE  /\ GoodRow(s, x)
             /\ \A t \in Roles : \A y : Item(f, Q, K, t, r, y) => Agree(s, x, t, y)
  <2>1. GoodRow(s, x) BY <1>1, <1>2 DEF Content
  <2>2. ASSUME NEW t \in Roles, NEW y, Item(f, Q, K, t, r, y) PROVE Agree(s, x, t, y)
    BY <1>1, <1>2, <2>2 DEF Content
  <2> QED BY <2>1, <2>2
<1> QED BY <1>2 DEF Content
-----------------------------------------------------------------------------
(***************************************************************************)
(* A poll.                                                                 *)
(***************************************************************************)
(* A changed result belongs to the next round, which a record authorises. *)
LEMMA NewResult ==
    ASSUME NEW e, NEW J, NEW C, Good(e, rows, J, C), NEW s \in Roles, NEW r \in Requests,
           Result(e, s, r) # Res(rows, s, r)
    PROVE  LET row == Res(rows, s, r) IN
           /\ row.round = Last(s, Result(e, s, r)) + 1 /\ row # NoFact
           /\ Authorises(e, row.work, s, r, row.round)
           /\ Authorised(e, s, r, row.round) = {row.work}
           /\ ResultVerdict(e, <<s, "result", r>>) = "accept"
<1> DEFINE row == Res(rows, s, r)
           old == Result(e, s, r)
<1>0. e \in Engine /\ rows \in [Cells -> Row] /\ Content(e, rows, J) BY DEF Good, Typed
<1>1. Item(e, rows, J, s, r, row) /\ Item(e, rows, J, s, r, old) BY DEF Item
<1>2. row.round # old.round BY <1>0, <1>1, SameRound
<1>3. /\ row.round < First(s) <=> row = NoFact
      /\ old.round < First(s) <=> old = NoFact
      /\ row = NoFact => row.round = -1
      /\ old = NoFact => old.round = -1
  BY <1>0, <1>1, ItemRound
<1>4. row.round \in Int /\ old.round \in Int /\ First(s) \in 0 .. 1 /\ row.work \in Keys
      /\ IssuedRound(e, s, r) \in Int
  BY <1>0, RowTypes
<1>5. Order(e, rows, s, r) BY DEF Good, Frontier
<1>6. Last(s, old) <= Last(s, row) /\ Last(s, row) <= Last(s, old) + 1
  <2>1. Last(s, old) \in Int /\ Last(s, row) \in Int BY <1>4 DEF Last
  <2> QED BY <1>4, <1>5, <2>1 DEF Order
<1>7. row.round = Last(s, old) + 1 /\ row # NoFact /\ row.round >= First(s)
  BY <1>2, <1>3, <1>4, <1>6 DEF Last
<1>8. Authorises(e, row.work, s, r, row.round) BY <1>2 DEF Good, Kept
<1>9. ASSUME NEW k \in Authorised(e, s, r, row.round) PROVE k = row.work
  <2>1. Authorises(e, k, s, r, row.round) BY DEF Authorised, Authorises
  <2>2. k \in Keys BY <1>0, <2>1, EngineRecords DEF Authorises
  <2>3. Bears(e, rows, s, r, row.round, k) /\ Bears(e, rows, s, r, row.round, row.work)
    BY <1>8, <2>1 DEF Bears
  <2> QED BY <1>4, <1>7, <2>2, <2>3 DEF Good, OneOwner
<1>10. row.work \in Authorised(e, s, r, row.round) BY <1>8 DEF Authorised, Authorises
<1>11. Authorised(e, s, r, row.round) = {row.work} BY <1>9, <1>10
<1>12. ResultVerdict(e, <<s, "result", r>>) = "accept"
  BY <1>11 DEF ResultVerdict, Res
<1> QED BY <1>7, <1>8, <1>11, <1>12

(* The round that a row has reached. *)
LEMMA LastRound ==
    ASSUME NEW e, NEW R, NEW J, Content(e, R, J), NEW s \in Roles, NEW r \in Requests,
           NEW x, Item(e, R, J, s, r, x)
    PROVE  /\ x.round \in Int /\ Last(s, x) \in Int /\ First(s) \in 0 .. 1
           /\ First(s) - 1 <= Last(s, x) /\ x.round <= Last(s, x)
           /\ x # NoFact => Last(s, x) = x.round /\ First(s) <= x.round
           /\ x = NoFact => Last(s, x) = First(s) - 1 /\ x.round = -1
           /\ First(s) <= Last(s, x) => x # NoFact
<1>1. x.round \in Int BY ItemRound DEF GoodRow, Row
<1>2. First(s) \in 0 .. 1 BY DEF First
<1>3. x.round < First(s) <=> x = NoFact BY ItemRound
<1>4. x = NoFact => x.round = -1 BY ItemRound
<1> QED BY <1>1, <1>2, <1>3, <1>4 DEF Last

(* How far the rows of a request are. *)
LEMMA Standing ==
    ASSUME NEW e, NEW R, NEW J, NEW C, Good(e, R, J, C), NEW s \in Roles, NEW r \in Requests
    PROVE  LET res == Res(R, s, r)
               host == Host(R, s, r)
               old == Result(e, s, r)
           IN  /\ res.round \in Int /\ host.round \in Int /\ old.round \in Int
               /\ Last(s, res) \in Int /\ Last(s, host) \in Int /\ Last(s, old) \in Int
               /\ IssuedRound(e, s, r) \in Int /\ First(s) \in 0 .. 1
               /\ First(s) - 1 <= Last(s, host) /\ First(s) - 1 <= Last(s, old)
               /\ Last(s, host) <= Last(s, res)
               /\ Last(s, old) <= Last(s, res)
               /\ Last(s, res) <= IssuedRound(e, s, r)
               /\ IssuedRound(e, s, r) <= Last(s, old) + 1
<1>1. Content(e, R, J) /\ e \in Engine /\ R \in [Cells -> Row] BY DEF Good, Typed
<1>2. Item(e, R, J, s, r, Res(R, s, r)) /\ Item(e, R, J, s, r, Host(R, s, r))
      /\ Item(e, R, J, s, r, Result(e, s, r))
  BY DEF Item
<1>3. Order(e, R, s, r) BY DEF Good, Frontier
<1>4. IssuedRound(e, s, r) \in Int BY <1>1, RowTypes
<1>5. Res(R, s, r).round \in Int /\ Last(s, Res(R, s, r)) \in Int BY <1>1, <1>2, LastRound
<1>6. Host(R, s, r).round \in Int /\ Last(s, Host(R, s, r)) \in Int
      /\ First(s) \in 0 .. 1 /\ First(s) - 1 <= Last(s, Host(R, s, r))
  BY <1>1, <1>2, LastRound
<1>7. Result(e, s, r).round \in Int /\ Last(s, Result(e, s, r)) \in Int
      /\ First(s) - 1 <= Last(s, Result(e, s, r))
  BY <1>1, <1>2, LastRound
<1> QED BY <1>3, <1>4, <1>5, <1>6, <1>7 DEF Order

(* A poll of a batch of changed rows. *)
Poll(e, f, J, batch) ==
    /\ Good(e, rows, J, completions)
    /\ batch \in SUBSET Changed(e)
    /\ Polled(e, f, Accepted(e, batch))

(* The results that the Engine holds after a poll. *)
LEMMA PollResults ==
    ASSUME NEW e, NEW f, NEW J, NEW batch, Poll(e, f, J, batch), NEW s \in Roles, NEW r \in Requests
    PROVE  LET c == <<s, "result", r>>
               old == Result(e, s, r)
               new == Result(f, s, r)
               res == Res(rows, s, r)
           IN  /\ c \in batch => c \in Accepted(e, batch)
               /\ c \in Accepted(e, batch) => old # res /\ new = res
               /\ c \notin Accepted(e, batch) => new = old
               /\ new # old => res.round = Last(s, old) + 1
               /\ new.round \in Int /\ old.round <= new.round
               /\ Last(s, new) \in Int /\ Last(s, old) <= Last(s, new) /\ Last(s, new) <= Last(s, res)
<1> DEFINE c == <<s, "result", r>>
           old == Result(e, s, r)
           new == Result(f, s, r)
           res == Res(rows, s, r)
<1>1. Good(e, rows, J, completions) /\ Polled(e, f, Accepted(e, batch)) BY DEF Poll
<1>2. c \in Cells BY CellNames
<1>3. new = IF c \in Accepted(e, batch) THEN res ELSE old
  BY <1>1, <1>2 DEF Polled, Updated, Result, Res
<1>4. c \in batch => old # res BY DEF Poll, Changed, Result, Res
<1>5. c \in batch => res.round = Last(s, old) + 1 /\ res # NoFact /\ ResultVerdict(e, c) = "accept"
  BY <1>1, <1>4, NewResult
<1>6. c \in batch => c \in Accepted(e, batch)
  <2>1. Verdict(e, c) = ResultVerdict(e, c) BY DEF Verdict
  <2> QED BY <1>5, <2>1 DEF Accepted
<1>7. c \in Accepted(e, batch) => c \in batch BY DEF Accepted
<1>8. Content(e, rows, J) BY <1>1 DEF Good
<1>9. Item(e, rows, J, s, r, res) /\ Item(e, rows, J, s, r, old) BY DEF Item
<1>10. /\ old.round \in Int /\ Last(s, old) \in Int /\ old.round <= Last(s, old)
       /\ res.round \in Int /\ Last(s, res) \in Int
  BY <1>8, <1>9, LastRound
<1>11. Last(s, old) <= Last(s, res) BY <1>1, Standing
<1> HIDE DEF old, new, res, c
<1>12. new = old \/ (new = res /\ c \in batch) BY <1>3, <1>7
<1> QED BY <1>3, <1>4, <1>5, <1>6, <1>7, <1>10, <1>11, <1>12
        DEF old, new, res, c

(* It holds what it held or the published row. *)
LEMMA PollEither ==
    ASSUME NEW e, NEW f, NEW J, NEW batch, Poll(e, f, J, batch), NEW s \in Roles, NEW r \in Requests
    PROVE  Result(f, s, r) = Result(e, s, r) \/ Result(f, s, r) = Res(rows, s, r)
<1> QED BY CellNames DEF Poll, Polled, Updated, Result, Res

(* The WORKs authorised for a round are those that bear it. *)
LEMMA AuthorisedBears ==
    ASSUME NEW e, NEW R, NEW J, NEW C, Good(e, R, J, C), NEW s \in Roles, NEW r \in Requests,
           NEW q \in Int, NEW k \in Authorised(e, s, r, q)
    PROVE  /\ k \in Keys /\ Authorises(e, k, s, r, q) /\ Bears(e, R, s, r, q, k)
           /\ First(s) <= q /\ k \in DOMAIN e.records
<1>1. Authorises(e, k, s, r, q) BY DEF Authorised, Authorises
<1>2. k \in Keys BY <1>1, EngineRecords DEF Authorises, Good, Typed
<1>3. First(s) <= q BY <1>1 DEF Authorises, Good, Ledger, Frozen
<1> QED BY <1>1, <1>2, <1>3 DEF Bears, Authorises

(* A round has one owner. *)
LEMMA Owner ==
    ASSUME NEW e, NEW R, NEW J, NEW C, Good(e, R, J, C), NEW s \in Roles, NEW r \in Requests,
           NEW q \in Int, First(s) <= q, NEW k \in Keys, Bears(e, R, s, r, q, k)
    PROVE  /\ q <= IssuedRound(e, s, r)
           /\ \A l \in Keys : Bears(e, R, s, r, q, l) => k = l
<1>1. First(s) \in 0 .. 1 BY DEF First
<1>2. q >= First(s) BY <1>1
<1> QED BY <1>2 DEF Good, OneOwner

(* A copy row is accepted or dropped. *)
LEMMA CopyAccepted ==
    ASSUME NEW e, NEW J, NEW C, Good(e, rows, J, C), NEW s \in Roles, NEW r \in Requests,
           NEW kind \in {"import", "host"}
    PROVE  CopyVerdict(e, <<s, kind, r>>) \in {"accept", "drop"}
<1> DEFINE c == <<s, kind, r>>
           row == rows[c]
           result == Result(e, s, r)
           known == Authorised(e, s, r, row.round)
<1>1. Content(e, rows, J) /\ e \in Engine /\ rows \in [Cells -> Row] BY DEF Good, Typed
<1>2. c \in Cells /\ row \in Row BY <1>1, CellNames
<1>3. row.round \in Int /\ row.work \in Keys /\ result.work \in Keys BY <1>1, <1>2, RowTypes DEF Row
<1>4. Item(e, rows, J, s, r, result) BY DEF Item
<1>5. kind = "host" => Item(e, rows, J, s, r, row) BY DEF Item, Host
<1>6. First(s) <= row.round \/ row = NoFact
  <2>1. CASE kind = "host" BY <1>1, <1>5, <2>1, LastRound
  <2>2. CASE kind = "import" BY <2>2 DEF Good, ImportsMatch, Import
  <2> QED BY <2>1, <2>2
<1>7. Bears(e, rows, s, r, row.round, row.work)
  <2>1. CASE kind = "host" BY <2>1 DEF Bears, Host
  <2>2. CASE kind = "import" BY <2>2 DEF Bears, Import
  <2> QED BY <2>1, <2>2
<1>8. known # {} => First(s) <= row.round BY <1>3, AuthorisedBears
<1>9. ASSUME First(s) <= row.round, NEW k \in known PROVE k = row.work
  <2>1. k \in Keys /\ Bears(e, rows, s, r, row.round, k) BY <1>3, AuthorisedBears
  <2> QED BY <1>3, <1>7, <1>9, <2>1, Owner
<1>10. kind = "host" /\ result.round = row.round => row.version = result.version
  BY <1>1, <1>4, <1>5, SameRound
<1>11. CASE known = {} /\ result.round # row.round
  BY <1>11 DEF CopyVerdict
<1>12. CASE known = {} /\ result.round = row.round
  <2>1. row.work = result.work
    <3>1. CASE row = NoFact
      <4>1. result.round < First(s) BY <1>12, <3>1 DEF NoFact, First
      <4>2. result = NoFact BY <1>1, <1>4, <4>1, ItemRound
      <4> QED BY <3>1, <4>2
    <3>2. CASE First(s) <= row.round
      <4>1. Bears(e, rows, s, r, row.round, result.work) BY <1>12 DEF Bears
      <4> QED BY <1>3, <1>7, <3>2, <4>1, Owner
    <3> QED BY <1>6, <3>1, <3>2
  <2> QED BY <1>10, <1>12, <2>1 DEF CopyVerdict
<1>13. CASE known # {}
  <2>1. known = {row.work} BY <1>8, <1>9, <1>13
  <2>2. ASSUME kind = "import", NEW k \in known PROVE row.version = e.records[k].work.source[r]
    <3>1. Authorises(e, k, s, r, row.round) BY <1>3, AuthorisedBears
    <3>2. Imported(e.records[k].work, Import(rows, s, r), r)
      BY <3>1 DEF Authorises, Good, ImportsMatch
    <3>3. Import(rows, s, r) = row BY <2>2 DEF Import
    <3> QED BY <3>1, <3>2, <3>3 DEF Imported, Authorises
  <2> QED BY <1>10, <1>13, <2>1, <2>2 DEF CopyVerdict
<1> QED BY <1>11, <1>12, <1>13

(* No row that a poll observes is refused. *)
LEMMA PollAccepts ==
    ASSUME NEW e, NEW J, NEW C, Good(e, rows, J, C), NEW batch \in SUBSET Changed(e)
    PROVE  ~FactsMismatch(e, batch)
<1>1. ASSUME NEW c \in batch PROVE Verdict(e, c) \in {"accept", "drop"}
  <2>1. c \in Cells /\ rows[c] # e.rows[c] BY DEF Changed
  <2>2. PICK s \in Roles, kind \in Kinds, r \in Requests : c = <<s, kind, r>> BY <2>1 DEF Cells
  <2>3. CASE kind = "result"
    <3>1. ResultVerdict(e, c) = "accept" BY <2>1, <2>2, <2>3, NewResult DEF Result, Res
    <3> QED BY <2>2, <2>3, <3>1 DEF Verdict
  <2>4. CASE kind \in {"import", "host"}
    <3>1. CopyVerdict(e, c) \in {"accept", "drop"} BY <2>2, <2>4, CopyAccepted
    <3>2. c[2] # "result" BY <2>2, <2>4
    <3> QED BY <3>1, <3>2 DEF Verdict
  <2> QED BY <2>3, <2>4 DEF Kinds
<1>2. ASSUME NEW c \in batch, c[1] = "T", c[2] = "result"
      PROVE  ~PrefixMismatch(e.req[c[3]], rows[c])
  <2>1. c \in Cells /\ rows[c] # e.rows[c] BY DEF Changed
  <2>2. PICK r \in Requests : c = <<"T", "result", r>> BY <1>2, <2>1 DEF Cells
  <2> DEFINE row == Res(rows, "T", r)
             old == Result(e, "T", r)
  <2>3. "T" \in Roles BY DEF Roles
  <2>4. old # row BY <2>1, <2>2 DEF Res, Result
  <2>5. row.round = Last("T", old) + 1 /\ row # NoFact BY <2>3, <2>4, NewResult
  <2>6. Content(e, rows, J) BY DEF Good
  <2>7. Item(e, rows, J, "T", r, row) /\ Item(e, rows, J, "T", r, old) BY DEF Item
  <2>8. GoodRow("T", row) /\ GoodRow("T", old) BY <2>3, <2>6, <2>7, ItemRound
  <2>9. e.req[r].count = old.count BY DEF Good, Frontier, Told
  <2>10. row.count <= MaxNew /\ row.round < row.count /\ row.size >= 1 /\ row.count \in Int /\ row.size \in Int
         /\ row.round \in Int /\ old.count \in Int /\ 0 <= row.round
    BY <2>5, <2>8 DEF GoodRow, Row, First
  <2>11. CASE old = NoFact
    <3>1. old.count = 0 BY <2>11 DEF NoFact
    <3> QED BY <2>2, <2>9, <2>10, <3>1, PipelineAssumptions DEF PrefixMismatch, Res
  <2>12. CASE old # NoFact
    <3>1. row.round = old.round + 1 BY <2>3, <2>5, <2>6, <2>7, <2>12, LastRound
    <3>2. Agree("T", row, "T", old) BY <2>3, <2>6, <2>7 DEF Content
    <3>3. row.count = old.count + row.size BY <2>5, <2>12, <3>1, <3>2 DEF Agree
    <3> QED BY <2>2, <2>9, <2>10, <3>3, PipelineAssumptions DEF PrefixMismatch, Res
  <2> QED BY <2>11, <2>12
<1> QED BY <1>1, <1>2 DEF FactsMismatch

(* The completions that a poll leaves. *)
Left(e, f) == Without(completions, DOMAIN e.records \ DOMAIN f.records)

(* After a poll the Engine and the completions are typed. *)
LEMMA PollTyped ==
    ASSUME NEW e, NEW f, NEW J, NEW batch, Poll(e, f, J, batch)
    PROVE  Typed(f, rows, J, Left(e, f))
<1>1. f \in Engine /\ rows \in [Cells -> Row] /\ J \in PerWork(Job) /\ completions \in PerWork(SUBSET Requests)
  BY DEF Poll, Good, Typed, Polled, Updated
<1>2. Left(e, f) \in PerWork(SUBSET Requests) BY <1>1, WithoutMap DEF Left
<1> QED BY <1>1, <1>2 DEF Typed

(* A poll copies rows, and writes none. *)
LEMMA PollContent ==
    ASSUME NEW e, NEW f, NEW J, NEW batch, Poll(e, f, J, batch)
    PROVE  Content(f, rows, J)
<1>1. Content(e, rows, J) BY DEF Poll, Good
<1>2. ASSUME NEW s \in Roles, NEW r \in Requests, NEW x, Item(f, rows, J, s, r, x)
      PROVE  Item(e, rows, J, s, r, x)
  <2>1. Result(f, s, r) = Result(e, s, r) \/ Result(f, s, r) = Res(rows, s, r) BY PollEither
  <2> QED BY <1>2, <2>1 DEF Item
<1> QED BY <1>1, <1>2, ContentKept

(* The client is told of the Target row that a poll accepts. *)
LEMMA PollTold ==
    ASSUME NEW e, NEW f, NEW J, NEW batch, Poll(e, f, J, batch), NEW r \in Requests
    PROVE  Told(f, r) /\ (e.req[r].lifecycle # "absent" => f.req[r].lifecycle # "absent")
<1> DEFINE c == <<"T", "result", r>>
           row == Res(rows, "T", r)
           old == Result(e, "T", r)
           good == Accepted(e, batch)
<1>0. "T" \in Roles BY DEF Roles
<1>1. Good(e, rows, J, completions) /\ Updated(e, f, good) BY DEF Poll, Polled
<1>2. Told(e, r) BY <1>1 DEF Good, Frontier
<1>3. f.req[r] = IF c \in good THEN Consumed(e.req[r], row) ELSE e.req[r]
  BY <1>1 DEF Updated, Res
<1>4. f.issued = e.issued BY <1>1 DEF Updated
<1>5. CASE c \notin good
  <2>1. Result(f, "T", r) = old BY <1>0, <1>5, PollResults
  <2> QED BY <1>2, <1>3, <1>4, <1>5, <2>1 DEF Told
<1>6. CASE c \in good
  <2>1. old # row /\ Result(f, "T", r) = row BY <1>0, <1>6, PollResults
  <2>2. row.round = Last("T", old) + 1 /\ row # NoFact BY <1>0, <1>1, <2>1, NewResult
  <2>3. Item(e, rows, J, "T", r, row) /\ Item(e, rows, J, "T", r, old) BY DEF Item
  <2>4. Content(e, rows, J) BY <1>1 DEF Good
  <2>5. /\ old.round \in Int /\ Last("T", old) \in Int /\ old.round <= Last("T", old)
        /\ old # NoFact => Last("T", old) = old.round
    BY <1>0, <2>3, <2>4, LastRound
  <2>6. row.round \in Int /\ 0 <= row.round BY <1>0, <2>2, <2>3, <2>4, LastRound DEF First
  <2>7. ~(row.round <= e.req[r].round) BY <1>2, <2>2, <2>5, <2>6 DEF Told
  <2>8. e.req[r].lifecycle # "finished"
    <3>1. SUFFICES ASSUME old.finished PROVE FALSE BY <1>2 DEF Told
    <3>2. old # NoFact BY <3>1 DEF NoFact
    <3>3. row.round = old.round + 1 BY <2>2, <2>5, <3>2
    <3>4. Agree("T", row, "T", old) BY <1>0, <2>3, <2>4 DEF Content
    <3> QED BY <2>2, <3>1, <3>2, <3>3, <3>4 DEF Agree
  <2>9. e.req[r].lifecycle # "absent"
    <3>1. SUFFICES ASSUME e.req[r].lifecycle = "absent" PROVE FALSE OBVIOUS
    <3>2. IssuedRound(e, "T", r) = -1 BY <1>2, <3>1 DEF Told, IssuedRound
    <3>3. Last("T", row) <= IssuedRound(e, "T", r) BY <1>0, <1>1, Standing
    <3>4. Last("T", row) = row.round BY <2>6 DEF Last, First
    <3> QED BY <2>6, <3>2, <3>3, <3>4
  <2>10. e.req[r] \in [lifecycle : {"absent", "active", "finished"}, count : Int, round : Int]
    BY <1>1 DEF Good, Typed, Engine
  <2>11. e.req[r].lifecycle = "active" BY <2>8, <2>9, <2>10
  <2>12. f.req[r] = [lifecycle |-> IF row.finished THEN "finished" ELSE "active",
                     count |-> row.count, round |-> row.round]
    BY <1>3, <1>6, <2>7, <2>11 DEF Consumed
  <2>13. row.finished \in BOOLEAN BY <1>0, <2>3, <2>4, ItemRound DEF GoodRow, Row
  <2>14. f.req[r].lifecycle = IF row.finished THEN "finished" ELSE "active" BY <2>12
  <2>15. f.req[r].count = row.count /\ f.req[r].round = row.round BY <2>12
  <2> HIDE DEF row, old
  <2> QED BY <2>1, <2>13, <2>14, <2>15 DEF Told
<1> QED BY <1>5, <1>6

(* What the Engine holds never overtakes what is published. *)
LEMMA PollFrontier ==
    ASSUME NEW e, NEW f, NEW J, NEW batch, Poll(e, f, J, batch)
    PROVE  Frontier(f, rows)
<1>1. Good(e, rows, J, completions) /\ f.issued = e.issued BY DEF Poll, Polled, Updated
<1>2. ASSUME NEW r \in Requests, NEW s \in Roles PROVE Order(f, rows, s, r)
  <2>1. IssuedRound(f, s, r) = IssuedRound(e, s, r) BY <1>1 DEF IssuedRound
  <2>2. /\ Last(s, Result(f, s, r)) \in Int /\ Last(s, Result(e, s, r)) <= Last(s, Result(f, s, r))
        /\ Last(s, Result(f, s, r)) <= Last(s, Res(rows, s, r))
    BY PollResults
  <2>3. /\ Last(s, Res(rows, s, r)) \in Int /\ Last(s, Host(rows, s, r)) \in Int
        /\ Last(s, Result(e, s, r)) \in Int /\ IssuedRound(e, s, r) \in Int
        /\ Last(s, Host(rows, s, r)) <= Last(s, Res(rows, s, r))
        /\ Last(s, Res(rows, s, r)) <= IssuedRound(e, s, r)
        /\ IssuedRound(e, s, r) <= Last(s, Result(e, s, r)) + 1
    BY <1>1, Standing
  <2> QED BY <2>1, <2>2, <2>3 DEF Order
<1>3. \A r \in Requests : Chain(f, rows, r) BY <1>1 DEF Good, Frontier, Chain
<1> QED BY <1>2, <1>3, PollTold DEF Frontier

(* The records that a poll leaves authorise what they authorised. *)
LEMMA PollAuthorises ==
    ASSUME NEW e, NEW f, NEW J, NEW batch, Poll(e, f, J, batch), NEW k, NEW s, NEW r, NEW q,
           Authorises(f, k, s, r, q)
    PROVE  Authorises(e, k, s, r, q)
  BY DEF Authorises, Poll, Polled

(* A poll gives no round a second WORK. *)
LEMMA PollOwner ==
    ASSUME NEW e, NEW f, NEW J, NEW batch, Poll(e, f, J, batch)
    PROVE  OneOwner(f, rows) /\ ImportsMatch(f, rows)
<1>1. Good(e, rows, J, completions) /\ f.issued = e.issued BY DEF Poll, Polled, Updated
<1>2. ASSUME NEW s \in Roles, NEW r \in Requests, NEW q \in Int, NEW k \in Keys, Bears(f, rows, s, r, q, k)
      PROVE  Bears(e, rows, s, r, q, k)
  <2>1. Result(f, s, r) = Result(e, s, r) \/ Result(f, s, r) = Res(rows, s, r) BY PollEither
  <2>2. Authorises(f, k, s, r, q) => Authorises(e, k, s, r, q) BY PollAuthorises
  <2> QED BY <1>2, <2>1, <2>2 DEF Bears
<1>3. ASSUME NEW s \in Roles, NEW r \in Requests, NEW q \in Int, NEW k \in Keys, q >= First(s),
             Bears(f, rows, s, r, q, k)
      PROVE  /\ q <= IssuedRound(f, s, r)
             /\ \A l \in Keys : Bears(f, rows, s, r, q, l) => k = l
  <2>1. IssuedRound(f, s, r) = IssuedRound(e, s, r) BY <1>1 DEF IssuedRound
  <2>2. Bears(e, rows, s, r, q, k) BY <1>2, <1>3
  <2>3. OneOwner(e, rows) BY <1>1 DEF Good
  <2> QED BY <1>2, <1>3, <2>1, <2>2, <2>3 DEF OneOwner
<1>4. OneOwner(f, rows) BY <1>3 DEF OneOwner
<1>5. ImportsMatch(f, rows) BY <1>1 DEF Good, ImportsMatch, Poll, Polled
<1> QED BY <1>4, <1>5

(* What a poll does to one record that it leaves. *)
LEMMA PollRecord ==
    ASSUME NEW e, NEW f, NEW J, NEW batch, Poll(e, f, J, batch), NEW k \in DOMAIN f.records
    PROVE  /\ k \in DOMAIN e.records /\ f.records[k].work = e.records[k].work
           /\ f.records[k].completed => e.records[k].completed \/ k \in DOMAIN completions
           /\ f.records[k].applied = AppliedBy(e, Accepted(e, batch), k)
           /\ Members(e.records[k].work) \subseteq Requests
           /\ e.records[k].work.role \in Roles
           /\ \A r \in Members(e.records[k].work) : e.records[k].work.round[r] \in Int
<1>1. Polled(e, f, Accepted(e, batch)) BY DEF Poll
<1>2. e \in Engine BY DEF Poll, Good, Typed
<1>3. k \in DOMAIN e.records BY <1>1 DEF Polled
<1>4. e.records[k].work \in Work /\ Members(e.records[k].work) \subseteq Requests BY <1>2, <1>3, EngineRecords
<1>5. e.records[k].work.role \in Roles /\ e.records[k].work.round \in PerMember(Int) BY <1>4 DEF Work
<1>6. \A r \in Members(e.records[k].work) : e.records[k].work.round[r] \in Int
  BY <1>5, MemberMap DEF Members
<1> QED BY <1>1, <1>3, <1>4, <1>5, <1>6 DEF Polled

(* A member counts as applied when its result has been accepted. *)
LEMMA AppliedMember ==
    ASSUME NEW e, NEW f, NEW J, NEW batch, Poll(e, f, J, batch), NEW k \in DOMAIN e.records,
           NEW r \in AppliedBy(e, Accepted(e, batch), k), r \in Members(e.records[k].work)
    PROVE  e.records[k].work.round[r] <= Result(f, e.records[k].work.role, r).round
<1> DEFINE work == e.records[k].work
           s == work.role
           q == work.round[r]
<1>1. Good(e, rows, J, completions) /\ e \in Engine BY DEF Poll, Good, Typed
<1>2. work \in Work /\ r \in Requests BY <1>1, EngineRecords
<1>3. s \in Roles /\ work.round \in PerMember(Int) BY <1>2 DEF Work
<1>4. q \in Int BY <1>3, MemberMap DEF Members
<1>5. /\ <<s, "result", r>> \in Accepted(e, batch) => Result(f, s, r) = Res(rows, s, r)
      /\ Result(f, s, r).round \in Int /\ Result(e, s, r).round <= Result(f, s, r).round
  BY <1>2, <1>3, PollResults
<1>6. Result(e, s, r).round \in Int BY <1>1, <1>2, <1>3, Standing
<1>7. CASE r \in e.records[k].applied
  <2>1. q <= Result(e, s, r).round BY <1>1, <1>7 DEF Good, Ledger
  <2> QED BY <1>4, <1>5, <1>6, <2>1
<1>8. CASE <<s, "result", r>> \in Accepted(e, batch) /\ Applied(e, k, r)
  <2>1. q <= rows[<<s, "result", r>>].round BY <1>4, <1>5, <1>8 DEF Applied, Res
  <2> QED BY <1>5, <1>8, <2>1 DEF Res
<1> QED BY <1>7, <1>8 DEF AppliedBy

(* The completions that are left are unchanged. *)
LEMMA LeftMap ==
    ASSUME NEW e, NEW f
    PROVE  LET gone == DOMAIN e.records \ DOMAIN f.records
           IN  /\ DOMAIN Left(e, f) = DOMAIN completions \ gone
               /\ \A k \in DOMAIN completions \ gone : Left(e, f)[k] = completions[k]
  BY DEF Left, Without

(* A record leaves the ledger together with its completion. *)
LEMMA PollLedger ==
    ASSUME NEW e, NEW f, NEW J, NEW batch, Poll(e, f, J, batch)
    PROVE  Ledger(f, J, Left(e, f)) /\ Held(f, rows, J, Left(e, f))
<1> DEFINE C == completions
           D == Left(e, f)
           gone == DOMAIN e.records \ DOMAIN f.records
<1>1. Good(e, rows, J, C) /\ Polled(e, f, Accepted(e, batch)) BY DEF Poll
<1>2. Ledger(e, J, C) /\ Held(e, rows, J, C) BY <1>1 DEF Good
<1>3. C \in PerWork(SUBSET Requests) BY <1>1 DEF Good, Typed
<1>4. DOMAIN D = DOMAIN C \ gone /\ \A k \in DOMAIN C \ gone : D[k] = C[k]
  BY LeftMap
<1>5. \A k \in gone : k \in DOMAIN C BY <1>1, <1>2 DEF Polled, Ledger
<1>6. DOMAIN f.records \subseteq DOMAIN e.records BY <1>1 DEF Polled
<1>7. DOMAIN f.records = DOMAIN J \cup DOMAIN D /\ DOMAIN J \cap DOMAIN D = {}
  BY <1>2, <1>4, <1>5, <1>6 DEF Ledger
<1>8. f.sequence = e.sequence BY <1>1 DEF Polled, Updated
<1>9. ASSUME NEW k \in DOMAIN f.records
      PROVE  /\ f.records[k].work.key = k /\ Frozen(f.records[k].work)
             /\ k \in DOMAIN J => J[k].work = f.records[k].work
             /\ f.records[k].completed => k \in DOMAIN D
             /\ k[1] \in WorkersOf(f.records[k].work.role)
             /\ k[2] < f.sequence[k[1]]
  <2>1. /\ k \in DOMAIN e.records /\ f.records[k].work = e.records[k].work
        /\ f.records[k].completed => e.records[k].completed \/ k \in DOMAIN completions
    BY PollRecord
  <2> QED BY <1>2, <1>4, <1>8, <2>1 DEF Ledger
<1>10. ASSUME NEW k \in DOMAIN f.records, NEW r \in f.records[k].applied \cap Members(f.records[k].work)
       PROVE  f.records[k].work.round[r] <= Result(f, f.records[k].work.role, r).round
  BY PollRecord, AppliedMember
<1>11. Ledger(f, J, D) BY <1>7, <1>9, <1>10 DEF Ledger
<1>12. ASSUME NEW k \in DOMAIN f.records, NEW r \in Members(f.records[k].work),
              Res(rows, f.records[k].work.role, r).work = k,
              Res(rows, f.records[k].work.role, r).round = f.records[k].work.round[r]
       PROVE  \/ k \in DOMAIN J /\ r \in J[k].published
              \/ k \in DOMAIN D /\ r \in D[k]
  <2>1. k \in DOMAIN e.records /\ f.records[k].work = e.records[k].work BY PollRecord
  <2>2. \/ k \in DOMAIN J /\ r \in J[k].published
        \/ k \in DOMAIN C /\ r \in C[k]
    BY <1>2, <1>12, <2>1 DEF Held
  <2> QED BY <1>4, <2>2
<1>13. Held(f, rows, J, D) BY <1>12 DEF Held
<1> QED BY <1>11, <1>13

(* A record is not retired before its results have been accepted. *)
LEMMA PollKept ==
    ASSUME NEW e, NEW f, NEW J, NEW batch, Poll(e, f, J, batch)
    PROVE  Kept(f, rows)
<1> SUFFICES ASSUME NEW s \in Roles, NEW r \in Requests, Result(f, s, r).round # Res(rows, s, r).round
             PROVE  Authorises(f, Res(rows, s, r).work, s, r, Res(rows, s, r).round)
  BY DEF Kept
<1> DEFINE row == Res(rows, s, r)
           k == row.work
           good == Accepted(e, batch)
<1>1. Good(e, rows, J, completions) /\ Polled(e, f, good) BY DEF Poll
<1>2. Result(f, s, r) = Result(e, s, r) BY PollEither
<1>3. Result(e, s, r) # row BY <1>2
<1>4. Authorises(e, k, s, r, row.round) /\ row.round = Last(s, Result(e, s, r)) + 1 BY <1>1, <1>3, NewResult
<1>5. <<s, "result", r>> \notin good BY PollResults
<1>6. k \in DOMAIN f.records
  <2>1. SUFFICES ASSUME k \notin DOMAIN f.records PROVE FALSE OBVIOUS
  <2>2. k \in DOMAIN e.records \ DOMAIN f.records BY <1>4, <2>1 DEF Authorises
  <2>3. k \in DOMAIN completions
    BY <1>1, <2>2 DEF Polled, Good, Ledger
  <2>4. completions[k] \subseteq AppliedBy(e, good, k) BY <1>1, <2>2 DEF Polled
  <2>5. r \in completions[k]
    BY <1>1, <1>4, <2>2, <2>3 DEF Good, Held, Ledger, Authorises
  <2>6. r \in e.records[k].applied BY <1>4, <1>5, <2>4, <2>5 DEF AppliedBy, Authorises
  <2>7. row.round <= Result(e, s, r).round BY <1>1, <1>4, <2>6 DEF Good, Ledger, Authorises
  <2>8. Content(e, rows, J) /\ Item(e, rows, J, s, r, Result(e, s, r)) BY <1>1 DEF Good, Item
  <2>9. Result(e, s, r).round <= Last(s, Result(e, s, r)) /\ Result(e, s, r).round \in Int
        /\ Last(s, Result(e, s, r)) \in Int
    BY <2>8, LastRound
  <2> QED BY <1>4, <2>7, <2>9
<1>7. f.records[k].work = e.records[k].work BY <1>6, PollRecord
<1> QED BY <1>4, <1>6, <1>7 DEF Authorises

(* A WORK that waits for a ring stays the next one of its members: their last results
   were accepted before. *)
LEMMA PollPending ==
    ASSUME NEW e, NEW f, NEW J, NEW batch, Poll(e, f, J, batch)
    PROVE  Pending(f)
<1>1. Good(e, rows, J, completions) /\ Updated(e, f, Accepted(e, batch)) BY DEF Poll, Polled
<1>2. f.pending = e.pending /\ f.issued = e.issued /\ f.sequence = e.sequence BY <1>1 DEF Updated
<1>3. ASSUME NEW s \in Roles, NEW work \in e.pending[s] PROVE Ready(f, s, work)
  <2>1. Ready(e, s, work) BY <1>1 DEF Good, Pending
  <2>2. work \in Work BY <1>1 DEF Good, Typed, Engine
  <2>3. Members(work) \subseteq Requests /\ \A r \in Members(work) : work.round[r] \in Int
    <3>1. work.round \in PerMember(Int) BY <2>2 DEF Work
    <3> QED BY <3>1, MemberMap DEF Members
  <2>4. ASSUME NEW r \in Members(work)
        PROVE  /\ work.round[r] = Last(s, Result(f, s, r)) + 1
               /\ f.req[r].lifecycle # "absent"
               /\ s = "T" /\ ~work.initial => Result(f, "T", r) = Result(e, "T", r)
    <3> DEFINE q == work.round[r]
               old == Result(e, s, r)
               new == Result(f, s, r)
    <3>1. r \in Requests /\ q \in Int BY <2>3
    <3>2. q = IssuedRound(e, s, r) + 1 /\ q = Last(s, old) + 1 /\ e.req[r].lifecycle # "absent" BY <2>1 DEF Ready
    <3>3. /\ Last(s, new) \in Int /\ Last(s, old) <= Last(s, new)
          /\ Last(s, new) <= Last(s, Res(rows, s, r))
      BY <3>1, PollResults
    <3>4. /\ Last(s, Res(rows, s, r)) \in Int /\ Last(s, old) \in Int /\ IssuedRound(e, s, r) \in Int
          /\ Last(s, Res(rows, s, r)) <= IssuedRound(e, s, r)
      BY <1>1, <3>1, Standing
    <3>5. Last(s, new) = Last(s, old) BY <3>2, <3>3, <3>4
    <3>6. f.req[r].lifecycle # "absent" BY <3>1, <3>2, PollTold
    <3>7. ASSUME s = "T", ~work.initial PROVE new = old
      <4>1. q # 0 /\ 0 <= q BY <2>1, <3>7 DEF Ready, Frozen, First
      <4>2. Content(e, rows, J) /\ Content(f, rows, J) BY <1>1, PollContent DEF Good
      <4>3. Item(e, rows, J, s, r, old) /\ Item(f, rows, J, s, r, new) BY DEF Item
      <4>4. Last(s, old) = q - 1 BY <3>1, <3>2, <3>4
      <4>5. old # NoFact /\ new # NoFact
        BY <3>1, <3>5, <3>7, <4>1, <4>2, <4>3, <4>4, LastRound DEF First
      <4>6. new.round = old.round BY <3>1, <3>5, <4>2, <4>3, <4>5, LastRound
      <4>7. Item(e, rows, J, s, r, new)
        <5>1. new = old \/ new = Res(rows, s, r) BY <3>1, PollEither
        <5> QED BY <5>1 DEF Item
      <4> QED BY <3>1, <4>2, <4>3, <4>6, <4>7, SameRound
    <3> QED BY <3>2, <3>5, <3>6, <3>7
  <2>5. \A r \in Members(work) : IssuedRound(f, s, r) = IssuedRound(e, s, r) BY <1>2 DEF IssuedRound
  <2> QED BY <1>2, <2>1, <2>4, <2>5 DEF Ready
<1> QED BY <1>1, <1>2, <1>3 DEF Good, Pending

(* The jobs depend on what has been issued. *)
LEMMA SaneSame ==
    ASSUME NEW e, NEW f, f.issued = e.issued, NEW R, NEW k, NEW job, JobSane(e, R, k, job)
    PROVE  JobSane(f, R, k, job)
<1>1. \A s, r : IssuedRound(f, s, r) = IssuedRound(e, s, r) BY DEF IssuedRound
<1>2. \A r \in Members(job.work) : Placed(f, R, job, r) BY <1>1 DEF JobSane, Placed
<1> QED BY <1>2 DEF JobSane

(* A poll keeps the invariant. *)
LEMMA PollGood ==
    ASSUME NEW e, NEW f, NEW J, NEW batch, Poll(e, f, J, batch)
    PROVE  Good(f, rows, J, Left(e, f))
<1>1. Good(e, rows, J, completions) /\ f.issued = e.issued BY DEF Poll, Polled, Updated
<1>2. \A k \in DOMAIN J : JobSane(f, rows, k, J[k]) BY <1>1, SaneSame DEF Good
<1> QED BY <1>2, PollTyped, PollContent, PollFrontier, PollOwner, PollLedger, PollKept, PollPending DEF Good
-----------------------------------------------------------------------------
(***************************************************************************)
(* Sending a WORK.                                                         *)
(***************************************************************************)
(* A WORK is about to be sent. *)
Sending(e, R, J, C, s, work) ==
    /\ Good(e, R, J, C)
    /\ s \in Roles /\ work \in Work /\ Ready(e, s, work)
    /\ e.pending[s] \subseteq {work}

(* What the Engine holds when it has sent a WORK. *)
Issued(e, f, s, work) ==
    /\ f \in Engine
    /\ f.req = e.req /\ f.rows = e.rows
    /\ f.records = Put(e.records, work.key, [work |-> work, applied |-> {}, computed |-> FALSE,
                                             completed |-> FALSE])
    /\ \A t \in Roles : f.pending[t] = IF t = s THEN e.pending[t] \ {work} ELSE e.pending[t]
    /\ \A w \in Workers : f.sequence[w] = IF w = work.key[1] THEN work.key[2] + 1 ELSE e.sequence[w]
    /\ \A t \in Roles, r \in Requests :
           f.issued[t][r] = IF t # s \/ r \notin Members(work) THEN e.issued[t][r]
                            ELSE IF s = "D" THEN work.round[r] ELSE work.round[r] + 1

(* The fields of a frozen WORK. *)
LEMMA WorkFacts ==
    ASSUME NEW work \in Work
    PROVE  /\ work.key \in Keys /\ work.role \in Roles /\ work.initial \in BOOLEAN
           /\ Members(work) \subseteq Requests
           /\ \A r \in Members(work) : work.round[r] \in Int
           /\ DOMAIN work.source = Members(work) => \A r \in Members(work) : work.source[r] \in Int
           /\ DOMAIN work.budget = Members(work) => \A r \in Members(work) : work.budget[r] \in Int
<1>1. work.round \in PerMember(Int) /\ work.source \in PerMember(Int) /\ work.budget \in PerMember(Int)
  BY DEF Work
<1>2. work.key \in Keys /\ work.role \in Roles /\ work.initial \in BOOLEAN BY DEF Work
<1> QED BY <1>1, <1>2, MemberMap DEF Members

(* What Sent changes in the Engine. *)
LEMMA SentIssues ==
    ASSUME NEW e \in Engine, NEW work \in Work, work.key[1] \in Workers
    PROVE  Issued(e, Sent(e, work), work.role, work)
<1> DEFINE s == work.role
           k == work.key
           rec == [work |-> work, applied |-> {}, computed |-> FALSE, completed |-> FALSE]
           records == Put(e.records, k, rec)
           sequence == [e.sequence EXCEPT ![k[1]] = k[2] + 1]
           told == [r \in Requests |->
                      IF r \notin Members(work) THEN e.issued[s][r]
                      ELSE IF s = "D" THEN work.round[r] ELSE work.round[r] + 1]
           issued == [e.issued EXCEPT ![s] = told]
           pending == [e.pending EXCEPT ![s] = e.pending[s] \ {work}]
           f == [e EXCEPT !.records = records, !.sequence = sequence, !.issued = issued,
                          !.pending = pending]
<1>1. k \in Keys /\ s \in Roles /\ \A r \in Members(work) : work.round[r] \in Int BY WorkFacts
<1>2. rec \in Record BY DEF Record
<1>3. records \in PerWork(Record)
  <2>1. e.records \in PerWork(Record) BY EngineRecords
  <2> HIDE DEF rec, k
  <2> QED BY <1>1, <1>2, <2>1, PutMap
<1>4. e.sequence \in [Workers -> Nat] /\ e.pending \in [Roles -> SUBSET Work]
      /\ e.issued \in [Roles -> [Requests -> Int]]
  BY DEF Engine
<1>5. sequence \in [Workers -> Nat]
  <2>1. k[2] + 1 \in Nat BY <1>1 DEF Keys
  <2> HIDE DEF k
  <2> QED BY <1>4, <2>1
<1>6. told \in [Requests -> Int]
  <2>1. ASSUME NEW r \in Requests PROVE told[r] \in Int
    <3>1. e.issued[s][r] \in Int BY <1>1, <1>4
    <3>2. r \in Members(work) => work.round[r] \in Int /\ work.round[r] + 1 \in Int BY <1>1
    <3> HIDE DEF s
    <3> QED BY <3>1, <3>2
  <2> QED BY <2>1
<1>7. issued \in [Roles -> [Requests -> Int]]
  <2> HIDE DEF told, s
  <2> QED BY <1>1, <1>4, <1>6
<1>8. pending \in [Roles -> SUBSET Work] BY <1>1, <1>4
<1>9. \A w \in Workers : sequence[w] = IF w = k[1] THEN k[2] + 1 ELSE e.sequence[w]
  <2> HIDE DEF k
  <2> QED BY <1>4
<1>10. \A t \in Roles : pending[t] = IF t = s THEN e.pending[t] \ {work} ELSE e.pending[t]
  <2> HIDE DEF s
  <2> QED BY <1>4
<1>11. \A t \in Roles, r \in Requests :
           issued[t][r] = IF t # s \/ r \notin Members(work) THEN e.issued[t][r]
                          ELSE IF s = "D" THEN work.round[r] ELSE work.round[r] + 1
  <2> HIDE DEF s
  <2> QED BY <1>4
<1> HIDE DEF records, sequence, issued, pending
<1>12. f \in Engine BY <1>3, <1>5, <1>7, <1>8 DEF Engine
<1>13. /\ f.req = e.req /\ f.rows = e.rows /\ f.records = records
       /\ f.sequence = sequence /\ f.issued = issued /\ f.pending = pending
  BY DEF Engine
<1>14. Sent(e, work) = Wake(f, SentWakes(work))
  BY DEF Sent, records, sequence, issued, pending
<1> HIDE DEF f
<1>15. Quiet(f, Sent(e, work)) /\ Sent(e, work).records = f.records BY <1>12, <1>14, WakeQuiet
<1>16. Sent(e, work) \in Engine /\ Sent(e, work).req = e.req /\ Sent(e, work).rows = e.rows
       /\ Sent(e, work).records = records /\ Sent(e, work).sequence = sequence
       /\ Sent(e, work).issued = issued /\ Sent(e, work).pending = pending
  BY <1>13, <1>15 DEF Quiet
<1>17. Sent(e, work).records = Put(e.records, work.key, [work |-> work, applied |-> {}, computed |-> FALSE,
                                             completed |-> FALSE])
  BY <1>16 DEF records
<1> HIDE DEF s, k
<1>18. Issued(e, Sent(e, work), s, work)
  BY <1>9, <1>10, <1>11, <1>16, <1>17 DEF Issued, k
<1> QED BY <1>18 DEF s

(* A step that sends a WORK. *)
Send(e, R, J, C, s, work, f, K) ==
    /\ Sending(e, R, J, C, s, work)
    /\ Issued(e, f, s, work)
    /\ K = Put(J, work.key, NewJob(work))

(* The rounds of its members are the next ones. *)
LEMMA SendRound ==
    ASSUME NEW e, NEW R, NEW J, NEW C, NEW s, NEW work, NEW f,
           Sending(e, R, J, C, s, work), Issued(e, f, s, work), NEW r \in Members(work)
    PROVE  LET q == work.round[r] IN
           /\ r \in Requests /\ q \in Int /\ First(s) <= q
           /\ IssuedRound(e, s, r) = q - 1 /\ IssuedRound(f, s, r) = q
           /\ Last(s, Res(R, s, r)) = q - 1 /\ Last(s, Result(e, s, r)) = q - 1
           /\ \A k \in Keys : ~Bears(e, R, s, r, q, k)
<1> DEFINE q == work.round[r]
<1>1. Good(e, R, J, C) /\ s \in Roles /\ work \in Work /\ Ready(e, s, work) BY DEF Sending
<1>2. r \in Requests /\ q \in Int BY <1>1, WorkFacts
<1>3. q = IssuedRound(e, s, r) + 1 /\ q = Last(s, Result(e, s, r)) + 1 /\ First(s) <= q
  BY <1>1 DEF Ready, Frozen
<1>4. /\ Last(s, Res(R, s, r)) \in Int /\ Last(s, Result(e, s, r)) \in Int
      /\ IssuedRound(e, s, r) \in Int
      /\ Last(s, Result(e, s, r)) <= Last(s, Res(R, s, r))
      /\ Last(s, Res(R, s, r)) <= IssuedRound(e, s, r)
  BY <1>1, <1>2, Standing
<1>5. IssuedRound(f, s, r) = q BY <1>1, <1>2 DEF Issued, IssuedRound
<1>6. ASSUME NEW k \in Keys, Bears(e, R, s, r, q, k) PROVE FALSE
  <2>1. q <= IssuedRound(e, s, r) BY <1>1, <1>2, <1>3, <1>6, Owner
  <2> QED BY <1>2, <1>3, <1>4, <2>1
<1> QED BY <1>2, <1>3, <1>4, <1>5, <1>6

(* Nothing else is issued. *)
LEMMA SendOther ==
    ASSUME NEW e, NEW f, NEW s \in Roles, NEW work, Issued(e, f, s, work),
           NEW t \in Roles, NEW r \in Requests, t # s \/ r \notin Members(work)
    PROVE  f.issued[t][r] = e.issued[t][r] /\ IssuedRound(f, t, r) = IssuedRound(e, t, r)
  BY DEF Issued, IssuedRound

(* Rounds are issued in order. *)
LEMMA SendGrows ==
    ASSUME NEW e, NEW R, NEW J, NEW C, NEW s, NEW work, NEW f,
           Sending(e, R, J, C, s, work), Issued(e, f, s, work), NEW t \in Roles, NEW r \in Requests
    PROVE  IssuedRound(e, t, r) <= IssuedRound(f, t, r)
<1>0. s \in Roles /\ Good(e, R, J, C) BY DEF Sending
<1>1. IssuedRound(e, t, r) \in Int BY <1>0, Standing
<1>2. CASE t = s /\ r \in Members(work)
  <2>1. work.round[r] \in Int /\ IssuedRound(e, t, r) = work.round[r] - 1 /\ IssuedRound(f, t, r) = work.round[r]
    BY <1>2, SendRound
  <2> QED BY <2>1
<1>3. CASE t # s \/ r \notin Members(work)
  <2>1. IssuedRound(f, t, r) = IssuedRound(e, t, r) BY <1>0, <1>3, SendOther
  <2> QED BY <1>1, <2>1
<1> QED BY <1>2, <1>3

(* The WORK has a new name. *)
LEMMA SendKey ==
    ASSUME NEW e, NEW R, NEW J, NEW C, NEW s, NEW work, Sending(e, R, J, C, s, work)
    PROVE  /\ work.key \in Keys /\ work.key \notin DOMAIN e.records
           /\ work.key \notin DOMAIN J /\ work.key \notin DOMAIN C
           /\ work.role = s /\ work.key[1] \in WorkersOf(s) /\ work.key[1] \in Workers
           /\ work.key[2] = e.sequence[work.key[1]] /\ e.sequence \in [Workers -> Nat]
<1>1. Good(e, R, J, C) /\ s \in Roles /\ work \in Work /\ Ready(e, s, work) BY DEF Sending
<1>2. work.key \in Keys BY <1>1, WorkFacts
<1>3. work.role = s /\ work.key[1] \in WorkersOf(s) /\ work.key[2] = e.sequence[work.key[1]]
  BY <1>1 DEF Ready
<1>4. work.key[1] \in Workers BY <1>3 DEF WorkersOf, Workers
<1>5. e.sequence \in [Workers -> Nat] BY <1>1 DEF Good, Typed, Engine
<1>6. work.key \notin DOMAIN e.records
  <2>1. SUFFICES ASSUME work.key \in DOMAIN e.records PROVE FALSE OBVIOUS
  <2>2. work.key[2] < e.sequence[work.key[1]] BY <1>1, <2>1 DEF Good, Ledger
  <2>3. e.sequence[work.key[1]] \in Nat BY <1>4, <1>5
  <2> QED BY <1>3, <2>2, <2>3
<1>7. DOMAIN e.records = DOMAIN J \cup DOMAIN C BY <1>1 DEF Good, Ledger
<1> QED BY <1>2, <1>3, <1>4, <1>5, <1>6, <1>7

(* It is sent. *)
LEMMA SendAccepted ==
    ASSUME NEW e, NEW R, NEW J, NEW C, NEW s, NEW work, Sending(e, R, J, C, s, work)
    PROVE  ~SentMismatch(e, work) /\ Issued(e, Sent(e, work), s, work)
<1>1. Good(e, R, J, C) /\ s \in Roles /\ work \in Work /\ e \in Engine BY DEF Sending, Good, Typed
<1>2. work.role = s /\ work.key \notin DOMAIN e.records /\ work.key[1] \in Workers BY SendKey
<1>3. Issued(e, Sent(e, work), s, work) BY <1>1, <1>2, SentIssues
<1>4. ASSUME NEW r \in Members(work) PROVE Authorised(e, s, r, work.round[r]) = {}
  <2>1. /\ r \in Requests /\ work.round[r] \in Int
        /\ \A k \in Keys : ~Bears(e, R, s, r, work.round[r], k)
    BY <1>3, SendRound
  <2> QED BY <1>1, <2>1, AuthorisedBears
<1> QED BY <1>2, <1>3, <1>4 DEF SentMismatch

(* The records of the Engine when it has been sent, and the jobs of the workers. *)
LEMMA SendRecords ==
    ASSUME NEW e, NEW R, NEW J, NEW C, NEW s, NEW work, NEW f, NEW K, Send(e, R, J, C, s, work, f, K)
    PROVE  /\ \A k : k \in DOMAIN f.records <=> (k \in DOMAIN e.records \/ k = work.key)
           /\ \A k \in DOMAIN e.records : k # work.key /\ f.records[k] = e.records[k]
           /\ f.records[work.key].work = work /\ f.records[work.key].applied = {}
           /\ ~f.records[work.key].completed
<1>1. work.key \notin DOMAIN e.records BY SendKey DEF Send
<1>2. f.records = Put(e.records, work.key, [work |-> work, applied |-> {}, computed |-> FALSE,
                                            completed |-> FALSE])
  BY DEF Send, Issued
<1>3. /\ DOMAIN f.records = DOMAIN e.records \cup {work.key}
      /\ f.records[work.key] = [work |-> work, applied |-> {}, computed |-> FALSE, completed |-> FALSE]
      /\ \A k \in DOMAIN e.records : k # work.key /\ f.records[k] = e.records[k]
  BY <1>1, <1>2 DEF Put
<1> QED BY <1>3

(* The WORK that is sent is new to its worker. *)
LEMMA SendJobs ==
    ASSUME NEW e, NEW R, NEW J, NEW C, NEW s, NEW work, NEW f, NEW K, Send(e, R, J, C, s, work, f, K)
    PROVE  /\ \A k : k \in DOMAIN K <=> (k \in DOMAIN J \/ k = work.key)
           /\ K[work.key] = NewJob(work)
           /\ \A k \in DOMAIN J : k # work.key /\ K[k] = J[k]
<1>1. work.key \notin DOMAIN J BY SendKey DEF Send
<1>2. K = Put(J, work.key, NewJob(work)) BY DEF Send
<1> QED BY <1>1, <1>2 DEF Put

(* A job that has just arrived. *)
LEMMA NewJobFields ==
    ASSUME NEW work \in Work
    PROVE  /\ NewJob(work) \in Job
           /\ NewJob(work).work = work
           /\ NewJob(work).skip = {} /\ ~NewJob(work).computed
           /\ NewJob(work).imported = {} /\ NewJob(work).published = {} /\ NewJob(work).exported = {}
           /\ DOMAIN NewJob(work).watch = Members(work) /\ DOMAIN NewJob(work).got = Members(work)
           /\ DOMAIN NewJob(work).out = Members(work)
           /\ \A r \in Members(work) :
                /\ \A name \in Names : name \in NewJob(work).watch[r] <=> Applies(work, name)
                /\ NewJob(work).watch[r] \subseteq Names
                /\ \A name \in Names : NewJob(work).got[r][name] = NoFact
                /\ NewJob(work).out[r] = NoFact
<1> DEFINE B == Members(work)
           watch == [r \in B |-> IF ~ work.initial THEN Names
                                 ELSE IF work.role = "D" THEN {"classified", "predecessor"} ELSE {}]
           got == [r \in B |-> [n \in Names |-> NoFact]]
           out == [r \in B |-> NoFact]
           job == [work |-> work, watch |-> watch, got |-> got, skip |-> {}, computed |-> FALSE,
                   imported |-> {}, published |-> {}, exported |-> {}, out |-> out]
<1>1. B \subseteq Requests BY WorkFacts
<1>2. NoFact \in Row BY DEF NoFact, Row, NoKey, Keys
<1>3. \A r \in B : watch[r] \in SUBSET Names BY DEF Names
<1>4. \A r \in B : got[r] \in [Names -> Row] BY <1>2
<1>5. watch \in PerMember(SUBSET Names) BY <1>1, <1>3 DEF PerMember
<1>6. got \in PerMember([Names -> Row]) BY <1>1, <1>4 DEF PerMember
<1>7. out \in PerMember(Row) BY <1>1, <1>2 DEF PerMember
<1>8. NewJob(work) = job BY DEF NewJob
<1>9. \A r \in B : \A name \in Names : name \in watch[r] <=> Applies(work, name)
  BY DEF Names, Applies, Work, Roles
<1>10. \A r \in B : \A name \in Names : got[r][name] = NoFact OBVIOUS
<1>11. \A r \in B : out[r] = NoFact OBVIOUS
<1>12. DOMAIN watch = B /\ DOMAIN got = B /\ DOMAIN out = B OBVIOUS
<1> HIDE DEF watch, got, out
<1>13. job \in Job BY <1>5, <1>6, <1>7 DEF Job
<1>14. /\ job.work = work /\ job.skip = {} /\ ~job.computed /\ job.imported = {}
       /\ job.published = {} /\ job.exported = {}
       /\ job.watch = watch /\ job.got = got /\ job.out = out
  OBVIOUS
<1> HIDE DEF job, B
<1>15. \A r \in B : /\ \A name \in Names : name \in job.watch[r] <=> Applies(work, name)
                    /\ job.watch[r] \subseteq Names
                    /\ \A name \in Names : job.got[r][name] = NoFact
                    /\ job.out[r] = NoFact
  BY <1>3, <1>9, <1>10, <1>11, <1>14
<1>16. DOMAIN job.watch = B /\ DOMAIN job.got = B /\ DOMAIN job.out = B BY <1>12, <1>14
<1> QED BY <1>8, <1>13, <1>14, <1>15, <1>16 DEF B

(* A WORK is sent to its worker: the types. *)
LEMMA SendTyped ==
    ASSUME NEW e, NEW R, NEW J, NEW C, NEW s, NEW work, NEW f, NEW K, Send(e, R, J, C, s, work, f, K)
    PROVE  Typed(f, R, K, C)
<1>1. Typed(e, R, J, C) /\ f \in Engine /\ work \in Work BY DEF Send, Sending, Good, Issued
<1>2. work.key \in Keys /\ NewJob(work) \in Job BY <1>1, WorkFacts, NewJobFields
<1>3. J \in PerWork(Job) BY <1>1 DEF Typed
<1>4. Put(J, work.key, NewJob(work)) \in PerWork(Job) BY <1>2, <1>3, PutMap
<1>5. K \in PerWork(Job) BY <1>4 DEF Send
<1> QED BY <1>1, <1>5 DEF Typed

(* A new WORK carries no rows. *)
LEMMA SendContent ==
    ASSUME NEW e, NEW R, NEW J, NEW C, NEW s, NEW work, NEW f, NEW K, Send(e, R, J, C, s, work, f, K)
    PROVE  Content(f, R, K)
<1>0. /\ \A k : k \in DOMAIN K <=> (k \in DOMAIN J \/ k = work.key)
      /\ K[work.key] = NewJob(work)
      /\ \A k \in DOMAIN J : k # work.key /\ K[k] = J[k]
  BY SendJobs
<1>1. Content(e, R, J) /\ f.rows = e.rows /\ work \in Work BY DEF Send, Sending, Good, Issued
<1>2. ASSUME NEW t \in Roles, NEW r \in Requests, NEW x, Item(f, R, K, t, r, x)
      PROVE  x = NoFact \/ Item(e, R, J, t, r, x)
  <2>1. Result(f, t, r) = Result(e, t, r) BY <1>1 DEF Result
  <2>2. CASE x \in {Res(R, t, r), Host(R, t, r), Result(f, t, r)} BY <2>1, <2>2 DEF Item
  <2>3. ASSUME NEW k \in DOMAIN K, Carries(K[k], t, r, x) PROVE x = NoFact \/ Item(e, R, J, t, r, x)
    <3>1. CASE k \in DOMAIN J
      <4>1. K[k] = J[k] BY <3>1, <1>0
      <4> QED BY <2>3, <3>1, <4>1 DEF Item
    <3>2. CASE k = work.key
      <4>1. K[k] = NewJob(work) BY <3>2, <1>0
      <4>0. K[k].work = work BY <1>1, <4>1, NewJobFields
      <4>2. r \in Members(work) BY <2>3, <4>0 DEF Carries
      <4>3. "source" \in Names /\ "predecessor" \in Names /\ "classified" \in Names BY DEF Names
      <4>4. \A name \in Names : K[k].got[r][name] = NoFact BY <1>1, <4>1, <4>2, NewJobFields
      <4>5. K[k].out[r] = NoFact BY <1>1, <4>1, <4>2, NewJobFields
      <4> QED BY <2>3, <4>3, <4>4, <4>5 DEF Carries
    <3> QED BY <1>0, <3>1, <3>2
  <2> QED BY <1>2, <2>2, <2>3 DEF Item
<1> QED BY <1>1, <1>2, ContentKept

(* What may be issued next: nothing beyond the output that was asked for. *)
LEMMA SendBudget ==
    ASSUME NEW e, NEW R, NEW J, NEW C, NEW work, NEW f,
           Sending(e, R, J, C, "T", work), Issued(e, f, "T", work), NEW r \in Members(work)
    PROVE  work.round[r] + 1 <= MaxNew
<1> DEFINE q == work.round[r]
           row == Result(e, "T", r)
<1>0. "T" \in Roles BY DEF Roles
<1>1. Good(e, R, J, C) /\ Ready(e, "T", work) BY DEF Sending
<1>2. r \in Requests /\ q \in Int /\ Last("T", row) = q - 1 /\ 0 <= q BY SendRound DEF First
<1>3. CASE work.initial
  <2>1. q = 0 BY <1>1, <1>3 DEF Ready, Frozen, First
  <2> QED BY <2>1, PipelineAssumptions
<1>4. CASE ~work.initial
  <2>1. q # 0 /\ ~row.finished BY <1>1, <1>4 DEF Ready, Frozen, First
  <2>2. Content(e, R, J) /\ Item(e, R, J, "T", r, row) BY <1>1 DEF Good, Item
  <2>3. row # NoFact /\ row.round = q - 1 BY <1>0, <1>2, <2>1, <2>2, LastRound DEF First
  <2>4. GoodRow("T", row) BY <1>0, <1>2, <2>2, ItemRound
  <2>5. row.round < row.count /\ row.count <= MaxNew /\ row.count \in Int /\ row.count # MaxNew
    BY <2>1, <2>3, <2>4 DEF GoodRow, Row
  <2> QED BY <1>2, <2>3, <2>5, PipelineAssumptions
<1> QED BY <1>3, <1>4

(* Draft and Target are issued in turn. *)
LEMMA SendChain ==
    ASSUME NEW e, NEW R, NEW J, NEW C, NEW s, NEW work, NEW f, NEW K, Send(e, R, J, C, s, work, f, K),
           NEW r \in Requests
    PROVE  Chain(f, R, r)
<1>0. "T" \in Roles /\ "D" \in Roles BY DEF Roles
<1>1. /\ Good(e, R, J, C) /\ s \in Roles /\ Ready(e, s, work) /\ Issued(e, f, s, work)
      /\ Sending(e, R, J, C, s, work)
  BY DEF Send, Sending
<1>2. Chain(e, R, r) BY <1>1 DEF Good, Frontier
<1>3. e.issued["D"][r] \in Int /\ e.issued["T"][r] \in Int BY <1>0, <1>1, RowTypes DEF Good, Typed
<1>4. CASE r \notin Members(work)
  <2>1. f.issued["D"][r] = e.issued["D"][r] /\ f.issued["T"][r] = e.issued["T"][r]
    BY <1>0, <1>1, <1>4, SendOther
  <2> QED BY <1>2, <2>1 DEF Chain
<1>5. CASE r \in Members(work) /\ s = "D"
  <2>1. f.issued["T"][r] = e.issued["T"][r] BY <1>0, <1>1, <1>5, SendOther
  <2>2. f.issued["D"][r] = work.round[r] BY <1>0, <1>1, <1>5 DEF Issued
  <2>3. e.issued["T"][r] = work.round[r] BY <1>1, <1>5 DEF Ready
  <2> QED BY <1>2, <1>3, <2>1, <2>2, <2>3 DEF Chain
<1>6. CASE r \in Members(work) /\ s = "T"
  <2>1. f.issued["D"][r] = e.issued["D"][r] BY <1>0, <1>1, <1>6, SendOther
  <2>2. f.issued["T"][r] = work.round[r] + 1 BY <1>0, <1>1, <1>6 DEF Issued
  <2>3. e.issued["D"][r] = work.round[r] BY <1>1, <1>6 DEF Ready
  <2>4. work.round[r] + 1 <= MaxNew BY <1>1, <1>6, SendBudget
  <2> QED BY <1>2, <1>3, <2>1, <2>2, <2>3, <2>4 DEF Chain
<1> QED BY <1>1, <1>4, <1>5, <1>6 DEF Roles

(* Only the issued rounds advance. *)
LEMMA SendFrontier ==
    ASSUME NEW e, NEW R, NEW J, NEW C, NEW s, NEW work, NEW f, NEW K, Send(e, R, J, C, s, work, f, K)
    PROVE  Frontier(f, R)
<1>1. /\ Good(e, R, J, C) /\ s \in Roles /\ Ready(e, s, work) /\ Issued(e, f, s, work)
      /\ Sending(e, R, J, C, s, work)
  BY DEF Send, Sending
<1>2. f.req = e.req /\ f.rows = e.rows BY <1>1 DEF Issued
<1>3. ASSUME NEW t \in Roles, NEW r \in Requests PROVE Order(f, R, t, r)
  <2>1. Result(f, t, r) = Result(e, t, r) BY <1>2 DEF Result
  <2>2. /\ Last(t, Host(R, t, r)) <= Last(t, Res(R, t, r)) /\ Last(t, Result(e, t, r)) <= Last(t, Res(R, t, r))
        /\ Last(t, Res(R, t, r)) <= IssuedRound(e, t, r)
        /\ IssuedRound(e, t, r) <= Last(t, Result(e, t, r)) + 1
        /\ Last(t, Res(R, t, r)) \in Int /\ Last(t, Result(e, t, r)) \in Int /\ IssuedRound(e, t, r) \in Int
    BY <1>1, Standing
  <2>3. CASE t = s /\ r \in Members(work)
    <3>1. /\ work.round[r] \in Int /\ IssuedRound(f, t, r) = work.round[r]
          /\ IssuedRound(e, t, r) = work.round[r] - 1 /\ Last(t, Result(e, t, r)) = work.round[r] - 1
      BY <1>1, <2>3, SendRound
    <3> QED BY <2>1, <2>2, <3>1 DEF Order
  <2>4. CASE t # s \/ r \notin Members(work)
    <3>0. s \in Roles /\ Issued(e, f, s, work) BY <1>1
    <3>1. IssuedRound(f, t, r) = IssuedRound(e, t, r) BY <2>4, <3>0 DEF Issued, IssuedRound
    <3> QED BY <2>1, <2>2, <3>1 DEF Order
  <2> QED BY <2>3, <2>4
<1>4. ASSUME NEW r \in Requests PROVE Told(f, r)
  <2>1. Told(e, r) BY <1>1 DEF Good, Frontier
  <2>2. "T" \in Roles BY DEF Roles
  <2>3. Result(f, "T", r) = Result(e, "T", r) BY <1>2 DEF Result
  <2>4. f.req[r].lifecycle = "absent" => f.issued["T"][r] = e.issued["T"][r]
    BY <1>1, <1>2, <2>2, SendOther DEF Ready
  <2> QED BY <1>2, <2>1, <2>3, <2>4 DEF Told
<1> QED BY <1>3, <1>4, SendChain DEF Frontier

(* The round of a WORK that is sent had no WORK before. *)
LEMMA SendOwner ==
    ASSUME NEW e, NEW R, NEW J, NEW C, NEW s, NEW work, NEW f, NEW K, Send(e, R, J, C, s, work, f, K)
    PROVE  OneOwner(f, R) /\ ImportsMatch(f, R)
<1>1. /\ Good(e, R, J, C) /\ s \in Roles /\ work \in Work /\ Issued(e, f, s, work)
      /\ Sending(e, R, J, C, s, work)
  BY DEF Send, Sending
<1>2. f.rows = e.rows BY <1>1 DEF Issued
<1>3. /\ \A k : k \in DOMAIN f.records <=> (k \in DOMAIN e.records \/ k = work.key)
      /\ \A k \in DOMAIN e.records : k # work.key /\ f.records[k] = e.records[k]
      /\ f.records[work.key].work = work
  BY SendRecords
<1>4. work.role = s /\ work.key \in Keys BY <1>1, SendKey
<1>5. ASSUME NEW t \in Roles, NEW r \in Requests, NEW q \in Int, NEW k \in Keys, Bears(f, R, t, r, q, k)
      PROVE  \/ Bears(e, R, t, r, q, k)
             \/ t = s /\ r \in Members(work) /\ q = work.round[r] /\ k = work.key
  <2>1. Result(f, t, r) = Result(e, t, r) BY <1>2 DEF Result
  <2>2. Authorises(f, k, t, r, q) =>
           \/ Authorises(e, k, t, r, q)
           \/ t = s /\ r \in Members(work) /\ q = work.round[r] /\ k = work.key
    BY <1>3, <1>4 DEF Authorises
  <2> QED BY <1>5, <2>1, <2>2 DEF Bears
<1>6. ASSUME NEW t \in Roles, NEW r \in Requests, NEW q \in Int, NEW k \in Keys, q >= First(t),
             Bears(f, R, t, r, q, k)
      PROVE  /\ q <= IssuedRound(f, t, r)
             /\ \A l \in Keys : Bears(f, R, t, r, q, l) => k = l
  <2>1. CASE t = s /\ r \in Members(work) /\ q = work.round[r]
    <3>1. IssuedRound(f, s, r) = q /\ \A l \in Keys : ~Bears(e, R, s, r, q, l) BY <1>1, <2>1, SendRound
    <3>2. \A l \in Keys : Bears(f, R, t, r, q, l) => l = work.key BY <1>5, <2>1, <3>1
    <3> QED BY <1>6, <2>1, <3>1, <3>2
  <2>2. CASE ~(t = s /\ r \in Members(work) /\ q = work.round[r])
    <3>1. \A l \in Keys : Bears(f, R, t, r, q, l) => Bears(e, R, t, r, q, l) BY <1>5, <2>2
    <3>2. First(t) <= q BY <1>6 DEF First
    <3>3. /\ q <= IssuedRound(e, t, r)
          /\ \A l \in Keys : Bears(e, R, t, r, q, l) => k = l
      BY <1>1, <1>6, <3>1, <3>2, Owner
    <3>4. IssuedRound(e, t, r) <= IssuedRound(f, t, r) BY <1>1, SendGrows
    <3>5. IssuedRound(e, t, r) \in Int /\ IssuedRound(f, t, r) \in Int
      BY <1>1, RowTypes DEF Issued, Good, Typed
    <3> QED BY <3>1, <3>3, <3>4, <3>5
  <2> QED BY <2>1, <2>2
<1>7. OneOwner(f, R) BY <1>6 DEF OneOwner
<1>8. ASSUME NEW r \in Members(work) PROVE Imported(work, Import(R, s, r), r)
  <2>1. SUFFICES ASSUME Import(R, s, r).round = work.round[r] PROVE FALSE BY DEF Imported
  <2>2. r \in Requests /\ \A k \in Keys : ~Bears(e, R, s, r, work.round[r], k) BY <1>1, SendRound
  <2>3. Import(R, s, r).work \in Keys BY <1>1, <2>2, RowTypes DEF Good, Typed
  <2>4. Bears(e, R, s, r, work.round[r], Import(R, s, r).work) BY <2>1 DEF Bears
  <2> QED BY <2>2, <2>3, <2>4
<1>9. ImportsMatch(f, R)
  <2>1. ImportsMatch(e, R) BY <1>1 DEF Good
  <2>2. ASSUME NEW k \in DOMAIN f.records, NEW r \in Members(f.records[k].work)
        PROVE  Imported(f.records[k].work, Import(R, f.records[k].work.role, r), r)
    <3>1. CASE k \in DOMAIN e.records BY <1>3, <2>1, <2>2, <3>1 DEF ImportsMatch
    <3>2. CASE k = work.key BY <1>3, <1>4, <1>8, <2>2, <3>2
    <3> QED BY <1>3, <3>1, <3>2
  <2> QED BY <2>1, <2>2 DEF ImportsMatch
<1> QED BY <1>7, <1>9

(* The ledger gains the record of the WORK that is sent. *)
LEMMA SendLedger ==
    ASSUME NEW e, NEW R, NEW J, NEW C, NEW s, NEW work, NEW f, NEW K, Send(e, R, J, C, s, work, f, K)
    PROVE  Ledger(f, K, C)
<1>1. /\ Good(e, R, J, C) /\ s \in Roles /\ work \in Work /\ Issued(e, f, s, work)
      /\ Sending(e, R, J, C, s, work)
  BY DEF Send, Sending
<1>2. f.rows = e.rows /\ Ledger(e, J, C) BY <1>1 DEF Issued, Good
<1>3. /\ \A k : k \in DOMAIN f.records <=> (k \in DOMAIN e.records \/ k = work.key)
      /\ \A k \in DOMAIN e.records : k # work.key /\ f.records[k] = e.records[k]
      /\ f.records[work.key].work = work /\ f.records[work.key].applied = {}
      /\ ~f.records[work.key].completed
  BY SendRecords
<1>4. /\ \A k : k \in DOMAIN K <=> (k \in DOMAIN J \/ k = work.key)
      /\ K[work.key] = NewJob(work)
      /\ \A k \in DOMAIN J : k # work.key /\ K[k] = J[k]
  BY SendJobs
<1>5. /\ work.key \in Keys /\ work.key \notin DOMAIN C /\ work.role = s
      /\ work.key[1] \in WorkersOf(s) /\ work.key[1] \in Workers
      /\ work.key[2] = e.sequence[work.key[1]]
      /\ e.sequence \in [Workers -> Nat]
  BY <1>1, SendKey
<1>6. NewJob(work).work = work BY <1>1, NewJobFields
<1>7. \A w \in Workers : f.sequence[w] = IF w = work.key[1] THEN work.key[2] + 1 ELSE e.sequence[w]
  BY <1>1 DEF Issued
<1>8. \A t \in Roles : \A r : Result(f, t, r) = Result(e, t, r) BY <1>2 DEF Result
<1>9. DOMAIN f.records = DOMAIN K \cup DOMAIN C /\ DOMAIN K \cap DOMAIN C = {}
  BY <1>2, <1>3, <1>4, <1>5 DEF Ledger
<1>10. ASSUME NEW k \in DOMAIN e.records
       PROVE  /\ f.records[k].work.key = k /\ Frozen(f.records[k].work)
              /\ k \in DOMAIN K => K[k].work = f.records[k].work
              /\ f.records[k].completed => k \in DOMAIN C
              /\ k[1] \in WorkersOf(f.records[k].work.role)
              /\ k[2] < f.sequence[k[1]]
              /\ \A r \in f.records[k].applied \cap Members(f.records[k].work) :
                     f.records[k].work.round[r] <= Result(f, f.records[k].work.role, r).round
  <2>1. f.records[k] = e.records[k] /\ k # work.key BY <1>3
  <2>2. e.records[k].work \in Work /\ k \in Keys BY <1>1, EngineRecords DEF Good, Typed
  <2>3. e.records[k].work.role \in Roles BY <2>2, WorkFacts
  <2>4. k[1] \in Workers
    <3>1. k[1] \in WorkersOf(e.records[k].work.role) BY <1>2 DEF Ledger
    <3> QED BY <3>1 DEF WorkersOf, Workers
  <2>5. k[2] < e.sequence[k[1]] /\ k[2] \in Int /\ e.sequence[k[1]] \in Int BY <1>2, <1>5, <2>2, <2>4 DEF Ledger, Keys
  <2>6. k[2] < f.sequence[k[1]] BY <1>5, <1>7, <2>4, <2>5
  <2>7. k \in DOMAIN K => k \in DOMAIN J /\ K[k] = J[k] BY <1>4, <2>1
  <2>8. \A r \in f.records[k].applied \cap Members(f.records[k].work) :
            f.records[k].work.round[r] <= Result(f, f.records[k].work.role, r).round
    BY <1>2, <1>8, <2>1, <2>3 DEF Ledger
  <2> QED BY <1>2, <2>1, <2>6, <2>7, <2>8 DEF Ledger
<1>11. /\ Frozen(work) /\ work.key[2] < f.sequence[work.key[1]]
  <2>1. f.sequence[work.key[1]] = work.key[2] + 1 BY <1>5, <1>7
  <2>2. work.key[2] \in Int BY <1>5 DEF Keys
  <2> QED BY <1>1, <2>1, <2>2 DEF Sending, Ready
<1>12. ASSUME NEW k \in DOMAIN f.records
       PROVE  /\ f.records[k].work.key = k /\ Frozen(f.records[k].work)
              /\ k \in DOMAIN K => K[k].work = f.records[k].work
              /\ f.records[k].completed => k \in DOMAIN C
              /\ k[1] \in WorkersOf(f.records[k].work.role)
              /\ k[2] < f.sequence[k[1]]
              /\ \A r \in f.records[k].applied \cap Members(f.records[k].work) :
                     f.records[k].work.round[r] <= Result(f, f.records[k].work.role, r).round
  <2>1. CASE k \in DOMAIN e.records BY <1>10, <2>1
  <2>2. CASE k = work.key BY <1>3, <1>4, <1>5, <1>6, <1>11, <2>2
  <2> QED BY <1>3, <2>1, <2>2
<1> QED BY <1>9, <1>12 DEF Ledger

(* Nothing is published for the new WORK yet, and no record is lost. *)
LEMMA SendHeld ==
    ASSUME NEW e, NEW R, NEW J, NEW C, NEW s, NEW work, NEW f, NEW K, Send(e, R, J, C, s, work, f, K)
    PROVE  Held(f, R, K, C) /\ Kept(f, R)
<1>1. /\ Good(e, R, J, C) /\ s \in Roles /\ work \in Work /\ Issued(e, f, s, work)
      /\ Sending(e, R, J, C, s, work)
  BY DEF Send, Sending
<1>2. f.rows = e.rows BY <1>1 DEF Issued
<1>3. /\ \A k : k \in DOMAIN f.records <=> (k \in DOMAIN e.records \/ k = work.key)
      /\ \A k \in DOMAIN e.records : k # work.key /\ f.records[k] = e.records[k]
      /\ f.records[work.key].work = work
  BY SendRecords
<1>4. /\ \A k : k \in DOMAIN K <=> (k \in DOMAIN J \/ k = work.key)
      /\ \A k \in DOMAIN J : k # work.key /\ K[k] = J[k]
  BY SendJobs
<1>5. work.role = s /\ work.key \in Keys BY <1>1, SendKey
<1>6. ASSUME NEW k \in DOMAIN f.records, NEW r \in Members(f.records[k].work),
             Res(R, f.records[k].work.role, r).work = k,
             Res(R, f.records[k].work.role, r).round = f.records[k].work.round[r]
      PROVE  \/ k \in DOMAIN K /\ r \in K[k].published
             \/ k \in DOMAIN C /\ r \in C[k]
  <2>1. CASE k \in DOMAIN e.records
    <3>1. f.records[k] = e.records[k] BY <1>3, <2>1
    <3>2. \/ k \in DOMAIN J /\ r \in J[k].published
          \/ k \in DOMAIN C /\ r \in C[k]
      BY <1>1, <1>6, <2>1, <3>1 DEF Good, Held
    <3> QED BY <1>4, <3>2
  <2>2. CASE k = work.key
    <3>1. r \in Members(work) BY <1>3, <1>6, <2>2
    <3>2. \A l \in Keys : ~Bears(e, R, s, r, work.round[r], l) BY <1>1, <3>1, SendRound
    <3>3. Bears(e, R, s, r, work.round[r], k) BY <1>3, <1>5, <1>6, <2>2 DEF Bears
    <3> QED BY <1>5, <2>2, <3>2, <3>3
  <2> QED BY <1>3, <2>1, <2>2
<1>7. ASSUME NEW t \in Roles, NEW r \in Requests, Result(f, t, r).round # Res(R, t, r).round
      PROVE  Authorises(f, Res(R, t, r).work, t, r, Res(R, t, r).round)
  <2>1. Authorises(e, Res(R, t, r).work, t, r, Res(R, t, r).round)
    BY <1>1, <1>2, <1>7 DEF Good, Kept, Result
  <2> QED BY <1>3, <2>1 DEF Authorises
<1> QED BY <1>6, <1>7 DEF Held, Kept

(* Nothing stays pending for the stage, and what pends for the other one may still be
   sent. *)
LEMMA SendPending ==
    ASSUME NEW e, NEW R, NEW J, NEW C, NEW s, NEW work, NEW f, NEW K, Send(e, R, J, C, s, work, f, K)
    PROVE  Pending(f)
<1>1. /\ Good(e, R, J, C) /\ s \in Roles /\ work \in Work /\ Issued(e, f, s, work)
      /\ Sending(e, R, J, C, s, work) /\ e.pending[s] \subseteq {work} /\ Ready(e, s, work)
  BY DEF Send, Sending
<1>2. f.rows = e.rows /\ f.req = e.req BY <1>1 DEF Issued
<1>3. \A t \in Roles : f.pending[t] = IF t = s THEN e.pending[t] \ {work} ELSE e.pending[t]
  BY <1>1 DEF Issued
<1>4. f.pending[s] = {} BY <1>1, <1>3
<1>5. "T" \in Roles /\ "D" \in Roles BY DEF Roles
<1>6. ASSUME NEW t \in Roles, NEW w2 \in f.pending[t] PROVE Ready(f, t, w2) /\ f.pending[t] = {w2}
  <2>1. t # s /\ f.pending[t] = e.pending[t] BY <1>3, <1>4, <1>6
  <2>2. Ready(e, t, w2) /\ e.pending[t] = {w2} BY <1>1, <2>1 DEF Good, Pending
  <2>3. w2 \in Work BY <1>1, <2>1 DEF Good, Typed, Engine
  <2>4. w2.key[1] \in WorkersOf(t) /\ work.key[1] \in WorkersOf(s) BY <1>1, <2>2 DEF Ready
  <2>5. w2.key[1] # work.key[1] /\ w2.key[1] \in Workers
    <3>1. DraftWorkers \cap TargetWorkers = {} BY PipelineAssumptions
    <3>2. CASE s = "D"
      <4>1. work.key[1] \in DraftWorkers /\ w2.key[1] \in TargetWorkers BY <2>1, <2>4, <3>2 DEF WorkersOf
      <4> QED BY <3>1, <4>1 DEF Workers
    <3>3. CASE s = "T"
      <4>1. work.key[1] \in TargetWorkers /\ w2.key[1] \in DraftWorkers
        BY <2>1, <2>4, <3>3 DEF WorkersOf, Roles
      <4> QED BY <3>1, <4>1 DEF Workers
    <3> QED BY <1>1, <3>2, <3>3 DEF Roles
  <2>6. f.sequence[w2.key[1]] = e.sequence[w2.key[1]] BY <1>1, <2>5 DEF Issued
  <2>7. ASSUME NEW r \in Members(w2)
        PROVE  /\ IssuedRound(f, t, r) = IssuedRound(e, t, r)
               /\ f.issued["T"][r] = e.issued["T"][r] /\ f.issued["D"][r] = e.issued["D"][r]
    <3>1. r \in Requests BY <2>3, WorkFacts
    <3>2. /\ e.issued["D"][r] \in Int /\ e.issued["T"][r] \in Int
      BY <1>1, <1>5, <3>1, RowTypes DEF Good, Typed
    <3>3. r \notin Members(work)
      <4>1. SUFFICES ASSUME r \in Members(work) PROVE FALSE OBVIOUS
      <4>2. /\ work.round[r] = IssuedRound(e, s, r) + 1
            /\ s = "D" => e.issued["T"][r] = work.round[r]
            /\ s = "T" => e.issued["D"][r] = work.round[r]
        BY <1>1, <4>1 DEF Ready
      <4>3. /\ w2.round[r] = IssuedRound(e, t, r) + 1
            /\ t = "D" => e.issued["T"][r] = w2.round[r]
            /\ t = "T" => e.issued["D"][r] = w2.round[r]
        BY <2>2 DEF Ready
      <4>4. CASE s = "D" /\ t = "T" BY <3>2, <4>2, <4>3, <4>4 DEF IssuedRound
      <4>5. CASE s = "T" /\ t = "D" BY <3>2, <4>2, <4>3, <4>5 DEF IssuedRound
      <4> QED BY <1>1, <2>1, <4>4, <4>5 DEF Roles
    <3>4. f.issued["T"][r] = e.issued["T"][r] /\ f.issued["D"][r] = e.issued["D"][r]
      BY <1>1, <1>5, <3>1, <3>3, SendOther
    <3> QED BY <3>4 DEF IssuedRound, Roles
  <2>8. \A x, y : Result(f, x, y) = Result(e, x, y) BY <1>2 DEF Result
  <2> QED BY <1>2, <2>1, <2>2, <2>6, <2>7, <2>8 DEF Ready
<1> QED BY <1>6 DEF Pending

(* What is issued later does not concern the jobs. *)
LEMMA SaneGrows ==
    ASSUME NEW e \in Engine, NEW f \in Engine, NEW R,
           \A s \in Roles, r \in Requests : IssuedRound(e, s, r) <= IssuedRound(f, s, r),
           NEW k, NEW job \in Job, JobSane(e, R, k, job)
    PROVE  JobSane(f, R, k, job)
<1>1. job.work \in Work BY DEF Job
<1>2. ASSUME NEW r \in Members(job.work) PROVE Placed(f, R, job, r)
  <2>1. r \in Requests /\ job.work.role \in Roles /\ job.work.round[r] \in Int BY <1>1, WorkFacts
  <2>2. IssuedRound(e, job.work.role, r) \in Int /\ IssuedRound(f, job.work.role, r) \in Int
    BY <2>1 DEF IssuedRound, Engine
  <2>3. Placed(e, R, job, r) BY DEF JobSane
  <2>4. IssuedRound(e, job.work.role, r) <= IssuedRound(f, job.work.role, r) BY <2>1
  <2>5. job.work.round[r] <= IssuedRound(f, job.work.role, r) BY <2>1, <2>2, <2>3, <2>4 DEF Placed
  <2> QED BY <2>3, <2>5 DEF Placed
<1> QED BY <1>2 DEF JobSane

(* The rows that are watched, and what they can say. *)
LEMMA WatchedRow ==
    ASSUME NEW job, NEW r, job.work.role \in Roles
    PROVE  /\ Watched(job, r, "classified") = <<"T", "result", r>>
           /\ Watched(job, r, "source") = <<job.work.role, "host", r>>
           /\ Watched(job, r, "predecessor") = <<Other(job.work.role), "result", r>>
           /\ Other(job.work.role) \in Roles /\ "T" \in Roles /\ "D" \in Roles
  BY DEF Watched, Other, Roles

(* A row that is watched is a row of the system. *)
LEMMA WatchedItem ==
    ASSUME NEW e, NEW R, NEW J, NEW job, NEW r, job.work.role \in Roles, NEW name \in Names
    PROVE  \E s \in Roles : Item(e, R, J, s, r, R[Watched(job, r, name)])
<1>1. CASE name = "classified" BY <1>1, WatchedRow DEF Item, Res
<1>2. CASE name = "source" BY <1>2, WatchedRow DEF Item, Host
<1>3. CASE name = "predecessor" BY <1>3, WatchedRow DEF Item, Res
<1> QED BY <1>1, <1>2, <1>3 DEF Names

(* The other WORKs stand where they stood, and the new one is at its beginning. *)
LEMMA SendSane ==
    ASSUME NEW e, NEW R, NEW J, NEW C, NEW s, NEW work, NEW f, NEW K, Send(e, R, J, C, s, work, f, K)
    PROVE  \A k \in DOMAIN K : JobSane(f, R, k, K[k])
<1>1. /\ Good(e, R, J, C) /\ s \in Roles /\ work \in Work /\ Issued(e, f, s, work)
      /\ Sending(e, R, J, C, s, work) /\ Ready(e, s, work)
  BY DEF Send, Sending
<1>2. e \in Engine /\ f \in Engine /\ J \in PerWork(Job) /\ Content(e, R, J) BY <1>1 DEF Good, Typed, Issued
<1>3. /\ \A k : k \in DOMAIN K <=> (k \in DOMAIN J \/ k = work.key)
      /\ K[work.key] = NewJob(work)
      /\ \A k \in DOMAIN J : k # work.key /\ K[k] = J[k]
  BY SendJobs
<1>4. \A t \in Roles, r \in Requests : IssuedRound(e, t, r) <= IssuedRound(f, t, r) BY <1>1, SendGrows
<1>5. ASSUME NEW k \in DOMAIN J PROVE JobSane(f, R, k, J[k])
  <2>1. J[k] \in Job BY <1>2, WorkMap
  <2>2. JobSane(e, R, k, J[k]) BY <1>1 DEF Good
  <2> QED BY <1>2, <1>4, <2>1, <2>2, SaneGrows
<1> DEFINE job == NewJob(work)
<1>6. /\ job.work = work /\ job.skip = {} /\ ~job.computed /\ job.imported = {}
      /\ job.published = {} /\ job.exported = {}
      /\ DOMAIN job.watch = Members(work) /\ DOMAIN job.got = Members(work) /\ DOMAIN job.out = Members(work)
      /\ \A r \in Members(work) : /\ \A name \in Names : name \in job.watch[r] <=> Applies(work, name)
                                  /\ job.watch[r] \subseteq Names
                                  /\ \A name \in Names : job.got[r][name] = NoFact
                                  /\ job.out[r] = NoFact
  BY <1>1, NewJobFields
<1> HIDE DEF job
<1>7. work.role = s /\ Frozen(work) BY <1>1 DEF Ready
<1>8. Staged(job) BY <1>6 DEF Staged, Live
<1>9. ASSUME NEW r \in Members(work)
      PROVE  Placed(f, R, job, r) /\ Captured(R, job, r) /\ Continues(R, job, r) /\ Produced(work.key, job, r)
  <2> DEFINE q == work.round[r]
  <2>1. /\ r \in Requests /\ q \in Int /\ First(s) <= q
        /\ IssuedRound(f, s, r) = q
        /\ Last(s, Res(R, s, r)) = q - 1 /\ Last(s, Result(e, s, r)) = q - 1
    BY <1>1, SendRound
  <2>2. Last(s, Host(R, s, r)) <= Last(s, Res(R, s, r)) /\ Last(s, Host(R, s, r)) \in Int BY <1>1, <2>1, Standing
  <2>3. Placed(f, R, job, r)
    <3>1. Last(s, Host(R, s, r)) < q BY <2>1, <2>2
    <3>2. q <= q BY <2>1
    <3> QED BY <1>6, <1>7, <2>1, <3>1, <3>2 DEF Placed, Live
  <2>4. Captured(R, job, r)
    <3>1. SUFFICES ASSUME NEW name \in Names
                   PROVE  job.got[r][name].round <= R[Watched(job, r, name)].round
      BY <1>6 DEF Captured
    <3>2. PICK t \in Roles : Item(e, R, J, t, r, R[Watched(job, r, name)])
      BY <1>1, <1>6, <1>7, WatchedItem
    <3>3. R[Watched(job, r, name)].round \in Int /\ -1 <= R[Watched(job, r, name)].round
      BY <1>2, <2>1, <3>2, LastRound
    <3>4. job.got[r][name].round = -1 BY <1>6 DEF NoFact
    <3> QED BY <3>3, <3>4
  <2>5. Continues(R, job, r)
    <3>1. s = "D" => "classified" \in job.watch[r]
      BY <1>6, <1>7 DEF Applies, Names
    <3>2. ASSUME s = "T", ~work.initial
          PROVE  ~Res(R, "T", r).finished /\ work.budget[r] = Minimum(Depth, MaxNew - Res(R, "T", r).count)
      <4>1. /\ ~Result(e, "T", r).finished
            /\ work.budget[r] = Minimum(Depth, MaxNew - Result(e, "T", r).count)
        BY <1>1, <3>2 DEF Ready
      <4>2. q # 0 /\ 0 <= q BY <1>7, <2>1, <3>2 DEF Frozen, First
      <4>3. Item(e, R, J, "T", r, Res(R, "T", r)) /\ Item(e, R, J, "T", r, Result(e, "T", r)) BY DEF Item
      <4>4. Res(R, "T", r) # NoFact /\ Result(e, "T", r) # NoFact
        BY <1>1, <1>2, <2>1, <3>2, <4>2, <4>3, LastRound DEF First
      <4>5. Res(R, "T", r).round = Result(e, "T", r).round
        BY <1>1, <1>2, <2>1, <3>2, <4>3, <4>4, LastRound
      <4>6. Res(R, "T", r) = Result(e, "T", r) BY <1>1, <1>2, <2>1, <3>2, <4>3, <4>5, SameRound
      <4> QED BY <4>1, <4>6
    <3> QED BY <1>6, <1>7, <3>1, <3>2 DEF Continues
  <2>6. Produced(work.key, job, r) BY <1>6 DEF Produced
  <2> QED BY <2>3, <2>4, <2>5, <2>6
<1>10. JobSane(f, R, work.key, job) BY <1>6, <1>7, <1>8, <1>9 DEF JobSane
<1>11. K[work.key] = job BY <1>3 DEF job
<1> QED BY <1>3, <1>5, <1>10, <1>11

(* Sending a WORK keeps the invariant. *)
LEMMA SendGood ==
    ASSUME NEW e, NEW R, NEW J, NEW C, NEW s, NEW work, Sending(e, R, J, C, s, work)
    PROVE  /\ ~SentMismatch(e, work)
           /\ Good(Sent(e, work), R, Put(J, work.key, NewJob(work)), C)
<1> DEFINE f == Sent(e, work)
           K == Put(J, work.key, NewJob(work))
<1>1. ~SentMismatch(e, work) /\ Issued(e, f, s, work) BY SendAccepted
<1>2. Send(e, R, J, C, s, work, f, K) BY <1>1 DEF Send
<1> HIDE DEF f, K
<1>3. Good(f, R, K, C)
  BY <1>2, SendTyped, SendContent, SendFrontier, SendOwner, SendLedger, SendHeld, SendSane, SendPending DEF Good
<1> QED BY <1>1, <1>3 DEF f, K
-----------------------------------------------------------------------------
(***************************************************************************)
(* Scheduling, admission and the steps of the Engine.                      *)
(***************************************************************************)
(* A request that is not finished has tokens left. *)
LEMMA ActiveBudget ==
    ASSUME NEW e, NEW R, NEW J, NEW C, Good(e, R, J, C), NEW r \in Requests, Active(e, r)
    PROVE  /\ ~Result(e, "T", r).finished /\ e.req[r].count = Result(e, "T", r).count
           /\ Minimum(Depth, MaxNew - e.req[r].count) \in Int
           /\ 1 <= Minimum(Depth, MaxNew - e.req[r].count)
<1> DEFINE row == Result(e, "T", r)
<1>0. "T" \in Roles BY DEF Roles
<1>1. Told(e, r) /\ Content(e, R, J) BY DEF Good, Frontier
<1>2. Item(e, R, J, "T", r, row) BY DEF Item
<1>3. GoodRow("T", row) BY <1>0, <1>1, <1>2, ItemRound
<1>4. ~row.finished /\ e.req[r].count = row.count BY <1>1 DEF Told, Active
<1>5. row.count \in Int /\ row.count < MaxNew
  <2>1. row.count \in Int BY <1>3 DEF GoodRow, Row
  <2>2. CASE row = NoFact BY <2>2, PipelineAssumptions DEF NoFact
  <2>3. CASE row # NoFact BY <1>3, <1>4, <2>1, <2>3, PipelineAssumptions DEF GoodRow
  <2> QED BY <2>1, <2>2, <2>3
<1> QED BY <1>4, <1>5, PipelineAssumptions DEF Minimum

(* The Engine's rows stand at rounds. *)
LEMMA Eligible ==
    ASSUME NEW e, NEW R, NEW J, NEW C, Good(e, R, J, C), NEW s \in Roles, NEW r \in Requests,
           NEW initial \in BOOLEAN,
           IF initial THEN EligibleInitial(e, s, r) ELSE EligibleNext(e, s, r)
    PROVE  LET q == IF initial THEN IF s = "D" THEN Result(e, "T", r).round + 1 ELSE 0
                    ELSE Result(e, s, r).round + 1
           IN  /\ Active(e, r) /\ q \in Int /\ First(s) <= q
               /\ initial <=> q = First(s)
               /\ q = IssuedRound(e, s, r) + 1 /\ q = Last(s, Result(e, s, r)) + 1
               /\ s = "D" => e.issued["T"][r] = q
               /\ s = "T" => e.issued["D"][r] = q
               /\ ~initial => /\ Result(e, s, r).version = Version(s, q - 1)
                              /\ Result(e, s, r).version \in Int
                              /\ DirectImports => Host(e.rows, s, r).version = Result(e, s, r).version
<1>0. "T" \in Roles /\ "D" \in Roles BY DEF Roles
<1>1. e \in Engine /\ Content(e, R, J) /\ Chain(e, R, r) BY DEF Good, Typed, Frontier
<1>2. /\ e.issued["T"][r] \in Int /\ e.issued["D"][r] \in Int /\ 0 <= e.issued["D"][r]
      /\ e.issued["D"][r] <= e.issued["T"][r] /\ e.issued["T"][r] <= e.issued["D"][r] + 1
  BY <1>0, <1>1 DEF Chain, Engine
<1>3. ASSUME NEW t \in Roles
      PROVE  /\ Result(e, t, r).round \in Int /\ Last(t, Result(e, t, r)) \in Int
             /\ First(t) - 1 <= Last(t, Result(e, t, r))
             /\ Last(t, Result(e, t, r)) <= IssuedRound(e, t, r)
             /\ Result(e, t, r) # NoFact => /\ Last(t, Result(e, t, r)) = Result(e, t, r).round
                                            /\ First(t) <= Result(e, t, r).round
                                            /\ Result(e, t, r).version = Version(t, Result(e, t, r).round)
             /\ Result(e, t, r) = NoFact => Result(e, t, r).round = -1
             /\ Result(e, t, r).version \in Int
  <2>1. Item(e, R, J, t, r, Result(e, t, r)) BY DEF Item
  <2>2. GoodRow(t, Result(e, t, r)) BY <1>1, <2>1, ItemRound
  <2>3. /\ Last(t, Result(e, t, r)) \in Int /\ Last(t, Res(R, t, r)) \in Int /\ IssuedRound(e, t, r) \in Int
        /\ Last(t, Result(e, t, r)) <= Last(t, Res(R, t, r))
        /\ Last(t, Res(R, t, r)) <= IssuedRound(e, t, r)
        /\ First(t) - 1 <= Last(t, Result(e, t, r))
    BY Standing
  <2>4. Last(t, Result(e, t, r)) <= IssuedRound(e, t, r) BY <2>3
  <2>5. /\ Result(e, t, r).round \in Int
        /\ Result(e, t, r) # NoFact => /\ Last(t, Result(e, t, r)) = Result(e, t, r).round
                                       /\ First(t) <= Result(e, t, r).round
        /\ Result(e, t, r) = NoFact => Result(e, t, r).round = -1
    BY <1>1, <2>1, LastRound
  <2>6. Result(e, t, r).version \in Int BY <2>2 DEF GoodRow, Row
  <2>7. Result(e, t, r) # NoFact => Result(e, t, r).version = Version(t, Result(e, t, r).round)
    BY <2>2 DEF GoodRow
  <2> QED BY <2>3, <2>4, <2>5, <2>6, <2>7
<1>4. CASE initial /\ s = "T"
  <2>1. Active(e, r) /\ e.issued["T"][r] = 0 BY <1>4 DEF EligibleInitial
  <2>2. e.issued["D"][r] = 0 BY <1>2, <2>1
  <2>3. IssuedRound(e, s, r) = -1 /\ First(s) = 0 BY <1>4, <2>1 DEF IssuedRound, First
  <2>4. Last(s, Result(e, s, r)) = -1 BY <1>3, <2>3
  <2> QED BY <1>4, <2>1, <2>2, <2>3, <2>4
<1>5. CASE initial /\ s = "D"
  <2>1. Active(e, r) /\ e.issued["D"][r] = 0 /\ TargetResult(e, r) BY <1>5 DEF EligibleInitial
  <2>2. 0 <= Result(e, "T", r).round /\ Result(e, "T", r).round = e.issued["T"][r] - 1
    BY <1>0, <1>3, <2>1 DEF TargetResult, IssuedRound
  <2>3. e.issued["T"][r] = 1 /\ Result(e, "T", r).round = 0 BY <1>2, <2>1, <2>2
  <2>4. IssuedRound(e, s, r) = 0 /\ First(s) = 1 BY <1>5, <2>1 DEF IssuedRound, First
  <2>5. Last(s, Result(e, s, r)) = 0 BY <1>3, <2>4
  <2> QED BY <1>5, <2>1, <2>3, <2>4, <2>5
<1>6. CASE ~initial /\ s = "D"
  <2>1. /\ Active(e, r) /\ e.issued["D"][r] # 0 /\ DraftSource(e, r)
        /\ IssuedRound(e, "T", r) = Result(e, "D", r).round
        /\ DirectImports => HostReady(e, s, r)
    BY <1>6 DEF EligibleNext
  <2>2. Result(e, "D", r).round = e.issued["D"][r] BY <2>1 DEF DraftSource, IssuedRound
  <2>3. 1 <= Result(e, "D", r).round /\ Result(e, "D", r) # NoFact
    <3>1. 1 <= Result(e, "D", r).round BY <1>2, <2>1, <2>2
    <3> QED BY <1>0, <1>3, <3>1
  <2>4. e.issued["T"][r] = Result(e, "D", r).round + 1 BY <1>2, <2>1, <2>2 DEF IssuedRound
  <2>5. First(s) = 1 /\ IssuedRound(e, s, r) = e.issued["D"][r] BY <1>6 DEF First, IssuedRound
  <2>6. DirectImports => Host(e.rows, s, r).version = Result(e, s, r).version
    BY <1>6, <2>1 DEF HostReady, Host
  <2>7. Last(s, Result(e, s, r)) = Result(e, s, r).round
        /\ Result(e, s, r).version = Version(s, Result(e, s, r).round) /\ Result(e, s, r).version \in Int
        /\ Result(e, s, r).round \in Int
    BY <1>3, <1>6, <2>3
  <2>8. Result(e, s, r).round + 1 - 1 = Result(e, s, r).round BY <2>7
  <2> QED BY <1>6, <2>1, <2>2, <2>3, <2>4, <2>5, <2>6, <2>7, <2>8
<1>7. CASE ~initial /\ s = "T"
  <2>1. /\ Active(e, r) /\ e.issued["T"][r] # 0 /\ TargetResult(e, r)
        /\ IssuedRound(e, "D", r) = Result(e, "T", r).round + 1
        /\ DirectImports => HostReady(e, s, r)
    BY <1>7 DEF EligibleNext
  <2>2. 0 <= Result(e, "T", r).round /\ Result(e, "T", r).round = e.issued["T"][r] - 1
    BY <2>1 DEF TargetResult, IssuedRound
  <2>3. Result(e, "T", r) # NoFact BY <1>0, <1>3, <2>2
  <2>4. e.issued["D"][r] = Result(e, "T", r).round + 1 BY <2>1 DEF IssuedRound
  <2>5. First(s) = 0 /\ IssuedRound(e, s, r) = e.issued["T"][r] - 1 BY <1>7 DEF First, IssuedRound
  <2>6. DirectImports => Host(e.rows, s, r).version = Result(e, s, r).version
    BY <1>7, <2>1 DEF HostReady, Host
  <2>7. Last(s, Result(e, s, r)) = Result(e, s, r).round
        /\ Result(e, s, r).version = Version(s, Result(e, s, r).round) /\ Result(e, s, r).version \in Int
        /\ Result(e, s, r).round \in Int
    BY <1>3, <1>7, <2>3
  <2>8. Result(e, s, r).round + 1 - 1 = Result(e, s, r).round BY <2>7
  <2> QED BY <1>7, <2>1, <2>2, <2>3, <2>4, <2>5, <2>6, <2>7, <2>8
<1> QED BY <1>4, <1>5, <1>6, <1>7 DEF Roles

(* What the Engine freezes. *)
LEMMA BuildReady ==
    ASSUME NEW e, NEW R, NEW J, NEW C, Good(e, R, J, C), NEW s \in Roles, NEW w \in e.dirty[s],
           NEW initial \in BOOLEAN, NEW b \in Banks, NEW batch \in SUBSET Requests,
           \A r \in batch : IF initial THEN EligibleInitial(e, s, r) ELSE EligibleNext(e, s, r)
    PROVE  LET work == Build(e, s, w, b, batch, initial) IN
           /\ work \in Work /\ Ready(e, s, work) /\ ~FreezeMismatch(e, work)
<1> DEFINE round == [r \in batch |->
                       IF initial THEN IF s = "D" THEN Result(e, "T", r).round + 1 ELSE 0
                       ELSE Result(e, s, r).round + 1]
           source == [r \in batch |-> IF initial THEN 0 ELSE Result(e, s, r).version]
           budget == [r \in batch |->
                        IF s = "T" /\ initial THEN 1 ELSE Minimum(Depth, MaxNew - e.req[r].count)]
           work == [key |-> <<w, e.sequence[w]>>, role |-> s, bank |-> b, initial |-> initial,
                    round |-> round, source |-> source, budget |-> budget]
<1>1. work = Build(e, s, w, b, batch, initial) BY DEF Build
<1>2. e \in Engine BY DEF Good, Typed
<1>3. w \in WorkersOf(s) /\ w \in Workers BY <1>2 DEF Engine, Dirty
<1>4. <<w, e.sequence[w]>> \in Keys
  <2>1. e.sequence[w] \in Nat BY <1>2, <1>3 DEF Engine
  <2>2. w \in Nat BY <1>3, PipelineAssumptions DEF Workers
  <2> QED BY <2>1, <2>2 DEF Keys
<1>5. ASSUME NEW r \in batch
      PROVE  /\ Active(e, r) /\ round[r] \in Int /\ First(s) <= round[r]
             /\ initial <=> round[r] = First(s)
             /\ round[r] = IssuedRound(e, s, r) + 1 /\ round[r] = Last(s, Result(e, s, r)) + 1
             /\ s = "D" => e.issued["T"][r] = round[r]
             /\ s = "T" => e.issued["D"][r] = round[r]
             /\ ~initial => /\ source[r] = Version(s, round[r] - 1) /\ source[r] \in Int
                            /\ DirectImports => Host(e.rows, s, r).version = source[r]
  <2> DEFINE q == IF initial THEN IF s = "D" THEN Result(e, "T", r).round + 1 ELSE 0
                  ELSE Result(e, s, r).round + 1
  <2>1. /\ Active(e, r) /\ q \in Int /\ First(s) <= q
        /\ initial <=> q = First(s)
        /\ q = IssuedRound(e, s, r) + 1 /\ q = Last(s, Result(e, s, r)) + 1
        /\ s = "D" => e.issued["T"][r] = q
        /\ s = "T" => e.issued["D"][r] = q
        /\ ~initial => /\ Result(e, s, r).version = Version(s, q - 1)
                       /\ Result(e, s, r).version \in Int
                       /\ DirectImports => Host(e.rows, s, r).version = Result(e, s, r).version
    BY Eligible
  <2>2. round[r] = q OBVIOUS
  <2>3. ~initial => source[r] = Result(e, s, r).version OBVIOUS
  <2> HIDE DEF round, source, q, work, budget
  <2> QED BY <2>1, <2>2, <2>3
<1>6. ASSUME NEW r \in batch
      PROVE  /\ ~Result(e, "T", r).finished
             /\ budget[r] \in Int /\ 1 <= budget[r]
             /\ ~(s = "T" /\ initial) => budget[r] = Minimum(Depth, MaxNew - Result(e, "T", r).count)
  <2>1. Active(e, r) BY <1>5
  <2>2. /\ ~Result(e, "T", r).finished /\ e.req[r].count = Result(e, "T", r).count
        /\ Minimum(Depth, MaxNew - e.req[r].count) \in Int
        /\ 1 <= Minimum(Depth, MaxNew - e.req[r].count)
    BY <2>1, ActiveBudget
  <2>3. budget[r] = IF s = "T" /\ initial THEN 1 ELSE Minimum(Depth, MaxNew - e.req[r].count) OBVIOUS
  <2> HIDE DEF budget, round, source, work
  <2> QED BY <2>2, <2>3
<1>7. ASSUME NEW r \in batch PROVE source[r] \in Int
  <2>1. CASE initial BY <2>1
  <2>2. CASE ~initial BY <1>5, <2>2
  <2> QED BY <2>1, <2>2
<1>8. /\ DOMAIN round = batch /\ DOMAIN source = batch /\ DOMAIN budget = batch
      /\ round = [r \in batch |-> round[r]] /\ source = [r \in batch |-> source[r]]
      /\ budget = [r \in batch |-> budget[r]]
  OBVIOUS
<1> HIDE DEF round, source, budget
<1>9. round \in PerMember(Int) BY <1>5, <1>8, MakeMemberMap
<1>10. source \in PerMember(Int) BY <1>7, <1>8, MakeMemberMap
<1>11. budget \in PerMember(Int) BY <1>6, <1>8, MakeMemberMap
<1>12. work \in Work BY <1>4, <1>9, <1>10, <1>11 DEF Work
<1>13. /\ work.key = <<w, e.sequence[w]>> /\ work.role = s /\ work.initial = initial
       /\ work.round = round /\ work.source = source /\ work.budget = budget
  OBVIOUS
<1> HIDE DEF work
<1>14. Members(work) = batch BY <1>8, <1>13 DEF Members
<1>15. Frozen(work)
  <2>1. DOMAIN work.source = Members(work) /\ DOMAIN work.budget = Members(work) BY <1>8, <1>13, <1>14
  <2>2. ASSUME NEW r \in Members(work)
        PROVE  /\ First(work.role) <= work.round[r]
               /\ work.initial <=> work.round[r] = First(work.role)
               /\ ~work.initial => work.source[r] = Version(work.role, work.round[r] - 1)
               /\ 1 <= work.budget[r]
    BY <1>5, <1>6, <1>13, <1>14
  <2> QED BY <2>1, <2>2 DEF Frozen
<1>16. Ready(e, s, work)
  <2>1. work.key[1] = w /\ work.key[2] = e.sequence[w] BY <1>13
  <2>2. ASSUME NEW r \in Members(work)
        PROVE  /\ work.round[r] = IssuedRound(e, s, r) + 1
               /\ work.round[r] = Last(s, Result(e, s, r)) + 1
               /\ e.req[r].lifecycle # "absent"
               /\ s = "D" => e.issued["T"][r] = work.round[r]
               /\ s = "T" => e.issued["D"][r] = work.round[r]
               /\ s = "T" /\ ~work.initial =>
                      /\ ~Result(e, "T", r).finished
                      /\ work.budget[r] = Minimum(Depth, MaxNew - Result(e, "T", r).count)
    BY <1>5, <1>6, <1>13, <1>14 DEF Active
  <2> QED BY <1>3, <1>13, <1>15, <2>1, <2>2 DEF Ready
<1>17. ~FreezeMismatch(e, work)
  BY <1>5, <1>13, <1>14 DEF FreezeMismatch, Host
<1> QED BY <1>1, <1>12, <1>16, <1>17

(* The end of a step of the Engine. *)
LEMMA FinishKeeps ==
    ASSUME NEW e, NEW J, Good(e, rows, J, completions), jobs \in PerWork(Job), failure = "none",
           NEW batch \in SUBSET Changed(e), NEW fresh \in BOOLEAN, NEW reading \in BOOLEAN,
           Finish(e, batch, fresh, reading)
    PROVE  Good(eng', rows, J, completions') /\ failure' = "none"
<1>1. ~FactsMismatch(e, batch) BY PollAccepts
<1>2. /\ eng' = Observed(e, batch, fresh, reading)
      /\ completions' = Without(completions, DOMAIN e.records \ DOMAIN eng'.records)
      /\ failure' = failure
  BY <1>1 DEF Finish
<1>3. e \in Engine /\ rows \in [Cells -> Row] BY DEF Good, Typed
<1>4. batch \in SUBSET Cells BY DEF Changed
<1>5. Polled(e, eng', Accepted(e, batch)) BY <1>2, <1>3, <1>4, ObservedPolls
<1>6. Poll(e, eng', J, batch) BY <1>5 DEF Poll
<1>7. Good(eng', rows, J, Left(e, eng')) BY <1>6, PollGood
<1>8. completions' = Left(e, eng') BY <1>2 DEF Left
<1> QED BY <1>2, <1>7, <1>8

(* A poll keeps the invariant. *)
LEMMA ObserveKeeps ==
    ASSUME PipelineInv, Observe
    PROVE  PipelineInv'
<1>1. Good(eng, rows, jobs, completions) /\ failure = "none" BY DEF PipelineInv
<1>2. PICK batch \in Batches(eng), fresh \in {TRUE, ~LateRows} : Finish(eng, batch, fresh, TRUE)
  BY DEF Observe
<1>3. jobs \in PerWork(Job) BY <1>1 DEF Good, Typed
<1>4. batch \in SUBSET Changed(eng) BY DEF Batches
<1>5. fresh \in BOOLEAN BY PipelineAssumptions
<1>6. Good(eng', rows, jobs, completions') /\ failure' = "none" BY <1>1, <1>2, <1>3, <1>4, <1>5, FinishKeeps
<1>7. rows' = rows /\ jobs' = jobs BY DEF Observe
<1>8. Good(eng', rows', jobs', completions') BY <1>6, <1>7
<1> QED BY <1>6, <1>8 DEF PipelineInv

(* Sending a WORK keeps the invariant. *)
LEMMA DispatchKeeps ==
    ASSUME failure = "none", NEW s, NEW work, Sending(eng, rows, jobs, completions, s, work),
           Dispatch(eng, work)
    PROVE  PipelineInv'
<1> DEFINE e == Sent(eng, work)
           K == Put(jobs, work.key, NewJob(work))
<1>1. ~SentMismatch(eng, work) /\ Good(e, rows, K, completions) BY SendGood
<1>2. jobs' = K /\ rows' = rows /\ \E batch \in Batches(eng) : Finish(e, batch, TRUE, FALSE)
  BY <1>1 DEF Dispatch
<1>3. PICK batch \in Batches(eng) : Finish(e, batch, TRUE, FALSE) BY <1>2
<1>4. e.rows = eng.rows
  <2>1. Issued(eng, e, s, work) BY SendAccepted
  <2> QED BY <2>1 DEF Issued
<1>5. batch \in SUBSET Changed(e) BY <1>4 DEF Batches, Changed
<1>6. jobs \in PerWork(Job) BY DEF Sending, Good, Typed
<1> HIDE DEF e, K
<1>7. Good(eng', rows, K, completions') /\ failure' = "none" BY <1>1, <1>3, <1>5, <1>6, FinishKeeps
<1>8. Good(eng', rows', jobs', completions') BY <1>2, <1>7
<1> QED BY <1>7, <1>8 DEF PipelineInv

(* The rest of the Engine does not matter. *)
LEMMA GoodAgain ==
    ASSUME NEW e, NEW R, NEW J, NEW C, Good(e, R, J, C), NEW f \in Engine,
           f.issued = e.issued, f.rows = e.rows, f.records = e.records, f.sequence = e.sequence,
           \A r \in Requests : Told(f, r), Pending(f)
    PROVE  Good(f, R, J, C)
<1>1. /\ \A x, y : Result(f, x, y) = Result(e, x, y)
      /\ \A x, y : IssuedRound(f, x, y) = IssuedRound(e, x, y)
      /\ \A k, s, r, q : Authorises(f, k, s, r, q) <=> Authorises(e, k, s, r, q)
  BY DEF Result, IssuedRound, Authorises
<1>2. Typed(f, R, J, C) BY DEF Good, Typed
<1>3. Content(f, R, J)
  <2>1. \A s, r, x : Item(f, R, J, s, r, x) <=> Item(e, R, J, s, r, x) BY <1>1 DEF Item
  <2> QED BY <2>1 DEF Good, Content
<1>4. Frontier(f, R)
  <2>1. \A r \in Requests, s \in Roles : Order(f, R, s, r) BY <1>1 DEF Good, Frontier, Order
  <2>2. \A r \in Requests : Chain(f, R, r) BY DEF Good, Frontier, Chain
  <2> QED BY <2>1, <2>2 DEF Frontier
<1>5. OneOwner(f, R)
  <2>1. \A s, r, q, k : Bears(f, R, s, r, q, k) <=> Bears(e, R, s, r, q, k) BY <1>1 DEF Bears
  <2>2. OneOwner(e, R) BY DEF Good
  <2> QED BY <1>1, <2>1, <2>2 DEF OneOwner
<1>6. ImportsMatch(f, R) BY DEF Good, ImportsMatch
<1>7. Ledger(f, J, C) BY <1>1 DEF Good, Ledger
<1>8. Held(f, R, J, C) BY DEF Good, Held
<1>9. Kept(f, R) BY <1>1 DEF Good, Kept
<1>10. \A k \in DOMAIN J : JobSane(f, R, k, J[k]) BY SaneSame DEF Good
<1> QED BY <1>2, <1>3, <1>4, <1>5, <1>6, <1>7, <1>8, <1>9, <1>10 DEF Good

(* A WORK that waits for room in a ring keeps the invariant. *)
LEMMA PendGood ==
    ASSUME NEW e, NEW R, NEW J, NEW C, NEW s, NEW work, Sending(e, R, J, C, s, work), NEW f,
           f = [e EXCEPT !.pending[s] = {work}, !.dirty[s] = {}]
    PROVE  Good(f, R, J, C)
<1>1. Good(e, R, J, C) /\ s \in Roles /\ work \in Work /\ Ready(e, s, work) /\ e \in Engine
  BY DEF Sending, Good, Typed
<1> DEFINE p == [e.pending EXCEPT ![s] = {work}]
           d == [e.dirty EXCEPT ![s] = {}]
<1>2. f = [e EXCEPT !.pending = p, !.dirty = d] BY <1>1 DEF Engine
<1>3. e.pending \in [Roles -> SUBSET Work] /\ e.dirty \in Dirty BY <1>1 DEF Engine
<1>4. p \in [Roles -> SUBSET Work] /\ p[s] = {work} /\ \A t \in Roles : t # s => p[t] = e.pending[t]
  BY <1>1, <1>3
<1>5. d \in Dirty BY <1>1, <1>3 DEF Dirty
<1> HIDE DEF p, d
<1>6. f \in Engine BY <1>1, <1>2, <1>4, <1>5 DEF Engine
<1>7. /\ f.req = e.req /\ f.issued = e.issued /\ f.rows = e.rows /\ f.records = e.records
      /\ f.sequence = e.sequence /\ f.pending = p
  BY <1>1, <1>2 DEF Engine
<1>8. /\ \A x, y : Result(f, x, y) = Result(e, x, y)
      /\ \A x, y : IssuedRound(f, x, y) = IssuedRound(e, x, y)
  BY <1>7 DEF Result, IssuedRound
<1>9. Pending(f)
  <2>1. ASSUME NEW t \in Roles, NEW w2 \in f.pending[t] PROVE Ready(f, t, w2) /\ f.pending[t] = {w2}
    <3>1. Ready(e, t, w2) /\ f.pending[t] = {w2}
      <4>1. CASE t = s BY <1>1, <1>4, <1>7, <2>1, <4>1
      <4>2. CASE t # s BY <1>1, <1>4, <1>7, <2>1, <4>2 DEF Good, Pending
      <4> QED BY <4>1, <4>2
    <3> QED BY <1>7, <1>8, <3>1 DEF Ready
  <2> QED BY <2>1 DEF Pending
<1>10. \A r \in Requests : Told(f, r) BY <1>1, <1>7, <1>8 DEF Good, Frontier, Told
<1>11. Good(f, R, J, C) BY <1>1, <1>6, <1>7, <1>9, <1>10, GoodAgain
<1> QED BY <1>11

(* The next free Bank of a worker is one of its Banks. *)
LEMMA CapacityBanks ==
    ASSUME NEW e, NEW w PROVE Capacity(e, w) \subseteq Banks
<1>1. OpenBanks(e, w, FALSE) \subseteq Banks /\ OpenBanks(e, w, TRUE) \subseteq Banks BY DEF OpenBanks
<1> QED BY <1>1 DEF Capacity

(* A new request is told nothing yet. *)
LEMMA AdmitKeeps ==
    ASSUME PipelineInv, NEW r \in Requests, Admit(r)
    PROVE  PipelineInv'
<1> DEFINE f == [eng EXCEPT !.req[r].lifecycle = "active"]
           req == [eng.req EXCEPT ![r].lifecycle = "active"]
<1>1. Good(eng, rows, jobs, completions) /\ failure = "none" BY DEF PipelineInv
<1>2. /\ eng.req[r].lifecycle = "absent" /\ eng' = Wake(f, Everyone({"T"}))
      /\ rows' = rows /\ jobs' = jobs /\ completions' = completions /\ failure' = failure
  BY DEF Admit
<1>3. eng \in Engine BY <1>1 DEF Good, Typed
<1>4. eng.req \in [Requests -> [lifecycle : {"absent", "active", "finished"}, count : Int, round : Int]]
  BY <1>3 DEF Engine
<1>5. req \in [Requests -> [lifecycle : {"absent", "active", "finished"}, count : Int, round : Int]]
  BY <1>4
<1>6. \A x \in Requests : /\ req[x].round = eng.req[x].round /\ req[x].count = eng.req[x].count
                          /\ req[x].lifecycle = IF x = r THEN "active" ELSE eng.req[x].lifecycle
  BY <1>4
<1>7. f = [eng EXCEPT !.req = req] BY <1>3 DEF Engine
<1> HIDE DEF req, f
<1>8. f \in Engine BY <1>3, <1>5, <1>7 DEF Engine
<1>9. /\ f.req = req /\ f.issued = eng.issued /\ f.rows = eng.rows /\ f.records = eng.records
      /\ f.sequence = eng.sequence /\ f.pending = eng.pending
  BY <1>3, <1>7 DEF Engine
<1>10. Quiet(f, eng') /\ eng'.records = f.records BY <1>2, <1>8, WakeQuiet
<1>11. /\ eng' \in Engine /\ eng'.req = req /\ eng'.issued = eng.issued /\ eng'.rows = eng.rows
       /\ eng'.records = eng.records /\ eng'.sequence = eng.sequence /\ eng'.pending = eng.pending
  BY <1>9, <1>10 DEF Quiet
<1>12. \A x \in Requests : Told(eng', x)
  <2> SUFFICES ASSUME NEW x \in Requests PROVE Told(eng', x) OBVIOUS
  <2>1. Told(eng, x) BY <1>1 DEF Good, Frontier
  <2>2. Result(eng', "T", x) = Result(eng, "T", x) BY <1>11 DEF Result
  <2>3. eng'.req[x].lifecycle = "finished" <=> eng.req[x].lifecycle = "finished" BY <1>2, <1>6, <1>11
  <2>4. eng'.req[x].lifecycle = "absent" => eng.req[x].lifecycle = "absent" BY <1>2, <1>6, <1>11
  <2>5. eng'.req[x].round = eng.req[x].round /\ eng'.req[x].count = eng.req[x].count BY <1>6, <1>11
  <2> QED BY <1>11, <2>1, <2>2, <2>3, <2>4, <2>5 DEF Told
<1>13. Pending(eng')
  <2> SUFFICES ASSUME NEW s \in Roles, NEW work \in eng.pending[s]
               PROVE  Ready(eng', s, work) /\ eng.pending[s] = {work}
    BY <1>11 DEF Pending
  <2>1. Ready(eng, s, work) /\ eng.pending[s] = {work} BY <1>1 DEF Good, Pending
  <2>2. work \in Work BY <1>3 DEF Engine
  <2>3. \A x, y : Result(eng', x, y) = Result(eng, x, y) /\ IssuedRound(eng', x, y) = IssuedRound(eng, x, y)
    BY <1>11 DEF Result, IssuedRound
  <2>4. \A x \in Members(work) : eng'.req[x].lifecycle # "absent"
    <3>1. Members(work) \subseteq Requests BY <2>2, WorkFacts
    <3>2. \A x \in Members(work) : eng.req[x].lifecycle # "absent" BY <2>1 DEF Ready
    <3> QED BY <1>6, <1>11, <3>1, <3>2
  <2> QED BY <1>11, <2>1, <2>3, <2>4 DEF Ready
<1>14. Good(eng', rows, jobs, completions) BY <1>1, <1>11, <1>12, <1>13, GoodAgain
<1>15. Good(eng', rows', jobs', completions') BY <1>2, <1>14
<1> QED BY <1>1, <1>2, <1>15 DEF PipelineInv

(* A WORK that waits may be sent. *)
LEMMA ResendKeeps ==
    ASSUME PipelineInv, NEW s \in Roles, Resend(s)
    PROVE  PipelineInv'
<1>1. Good(eng, rows, jobs, completions) /\ failure = "none" BY DEF PipelineInv
<1>2. PICK work \in eng.pending[s] : Dispatch(eng, work) BY DEF Resend
<1>3. Ready(eng, s, work) /\ eng.pending[s] = {work} BY <1>1 DEF Good, Pending
<1>4. work \in Work BY <1>1 DEF Good, Typed, Engine
<1>5. Sending(eng, rows, jobs, completions, s, work) BY <1>1, <1>3, <1>4 DEF Sending
<1> QED BY <1>1, <1>2, <1>5, DispatchKeeps

(* So may one that is planned. *)
LEMMA ScheduleKeeps ==
    ASSUME PipelineInv, NEW s \in Roles, Schedule(s)
    PROVE  PipelineInv'
<1>1. Good(eng, rows, jobs, completions) /\ failure = "none" BY DEF PipelineInv
<1>2. eng.pending[s] = {} BY DEF Schedule
<1>3. PICK w \in eng.dirty[s], initial \in BOOLEAN : \E b \in Capacity(eng, w) :
        LET ready == {r \in Requests :
                         IF initial THEN EligibleInitial(eng, s, r) ELSE EligibleNext(eng, s, r)}
        IN  \E batch \in SUBSET ready \ {{}} :
                /\ Fits(eng, w, b, batch)
                /\ \E work \in {Build(eng, s, w, b, batch, initial)} :
                    IF FreezeMismatch(eng, work)
                    THEN /\ Fail("direct import source does not match frozen WORK")
                         /\ UNCHANGED <<eng, rows, jobs, completions>>
                    ELSE \/ Dispatch(eng, work)
                         \/ /\ FullRings
                            /\ ~ Plannable(eng, s, eng.dirty[s] \ {w}, Requests \ batch)
                            /\ eng' = [eng EXCEPT !.pending[s] = {work}, !.dirty[s] = {}]
                            /\ UNCHANGED <<rows, jobs, completions, failure>>
  BY DEF Schedule
<1> DEFINE ready == {r \in Requests :
                       IF initial THEN EligibleInitial(eng, s, r) ELSE EligibleNext(eng, s, r)}
<1>4. PICK b \in Capacity(eng, w), batch \in SUBSET ready \ {{}} :
        LET work == Build(eng, s, w, b, batch, initial) IN
        IF FreezeMismatch(eng, work)
        THEN /\ Fail("direct import source does not match frozen WORK")
             /\ UNCHANGED <<eng, rows, jobs, completions>>
        ELSE \/ Dispatch(eng, work)
             \/ /\ eng' = [eng EXCEPT !.pending[s] = {work}, !.dirty[s] = {}]
                /\ UNCHANGED <<rows, jobs, completions, failure>>
  BY <1>3
<1> DEFINE work == Build(eng, s, w, b, batch, initial)
<1>5. b \in Banks BY CapacityBanks
<1>6. batch \in SUBSET Requests
      /\ \A r \in batch : IF initial THEN EligibleInitial(eng, s, r) ELSE EligibleNext(eng, s, r)
  OBVIOUS
<1>7. work \in Work /\ Ready(eng, s, work) /\ ~FreezeMismatch(eng, work)
  BY <1>1, <1>5, <1>6, BuildReady
<1>8. Sending(eng, rows, jobs, completions, s, work) BY <1>1, <1>2, <1>7 DEF Sending
<1>9. \/ Dispatch(eng, work)
      \/ /\ eng' = [eng EXCEPT !.pending[s] = {work}, !.dirty[s] = {}]
         /\ UNCHANGED <<rows, jobs, completions, failure>>
  BY <1>4, <1>7
<1> HIDE DEF work, ready
<1>10. CASE Dispatch(eng, work) BY <1>1, <1>8, <1>10, DispatchKeeps
<1>11. CASE /\ eng' = [eng EXCEPT !.pending[s] = {work}, !.dirty[s] = {}]
            /\ UNCHANGED <<rows, jobs, completions, failure>>
  <2>1. Good(eng', rows, jobs, completions) BY <1>8, <1>11, PendGood
  <2>2. Good(eng', rows', jobs', completions') BY <1>11, <2>1
  <2> QED BY <1>1, <1>11, <2>2 DEF PipelineInv
<1> QED BY <1>9, <1>10, <1>11

(* The invariant holds at the start. *)
LEMMA InitGood == Init => PipelineInv
<1> SUFFICES ASSUME Init PROVE PipelineInv OBVIOUS
<1>1. /\ \A r \in Requests : /\ eng.req[r].lifecycle = "absent" /\ eng.req[r].count = 0
                             /\ eng.req[r].round = -1
      /\ \A s \in Roles, r \in Requests : eng.issued[s][r] = 0
      /\ eng.rows = [c \in Cells |-> NoFact] /\ eng.records = <<>>
      /\ \A s \in Roles : eng.pending[s] = {}
  BY DEF Init
<1>2. rows = [c \in Cells |-> NoFact] /\ jobs = <<>> /\ completions = <<>> /\ failure = "none" BY DEF Init
<1>3. DOMAIN jobs = {} /\ DOMAIN completions = {} /\ DOMAIN eng.records = {} BY <1>1, <1>2
<1>4. NoFact \in Row BY DEF NoFact, Row, NoKey, Keys
<1>5. \A S : <<>> \in PerWork(S)
  <2> TAKE S
  <2>1. <<>> = [k \in {} |-> {}] OBVIOUS
  <2>2. [k \in {} |-> {}] \in [{} -> S] OBVIOUS
  <2> QED BY <2>1, <2>2 DEF PerWork
<1>6. eng \in Engine
  <2>1. [r \in Requests |-> [lifecycle |-> "absent", count |-> 0, round |-> -1]]
           \in [Requests -> [lifecycle : {"absent", "active", "finished"}, count : Int, round : Int]]
    OBVIOUS
  <2>2. [s \in Roles |-> [r \in Requests |-> 0]] \in [Roles -> [Requests -> Int]] OBVIOUS
  <2>3. [c \in Cells |-> NoFact] \in [Cells -> Row] BY <1>4
  <2>4. [s \in Roles |-> {}] \in [Roles -> SUBSET Work] OBVIOUS
  <2>5. [s \in Roles |-> {}] \in Dirty BY DEF Dirty
  <2>6. [w \in Workers |-> 1] \in [Workers -> Nat] OBVIOUS
  <2>7. <<>> \in PerWork(Record) BY <1>5
  <2>8. {} \in SUBSET (Workers \X Banks) OBVIOUS
  <2> QED BY <2>1, <2>2, <2>3, <2>4, <2>5, <2>6, <2>7, <2>8 DEF Engine, Init
<1>7. Typed(eng, rows, jobs, completions) BY <1>2, <1>4, <1>5, <1>6 DEF Typed
<1>8. \A s \in Roles, r \in Requests :
        /\ Res(rows, s, r) = NoFact /\ Host(rows, s, r) = NoFact /\ Import(rows, s, r) = NoFact
        /\ Result(eng, s, r) = NoFact
  BY <1>1, <1>2, CellNames DEF Res, Host, Import, Result
<1>9. NoFact.round = -1 /\ NoFact.count = 0 /\ ~NoFact.finished BY DEF NoFact
<1>10. Content(eng, rows, jobs)
  <2>1. \A s, t \in Roles : \A x : GoodRow(s, NoFact) /\ Agree(s, NoFact, t, x)
    BY <1>4 DEF GoodRow, Agree
  <2>2. \A r \in Requests, s \in Roles : \A x : Item(eng, rows, jobs, s, r, x) => x = NoFact
    BY <1>3, <1>8 DEF Item
  <2> QED BY <2>1, <2>2 DEF Content
<1>11. Frontier(eng, rows)
  <2>0. "T" \in Roles /\ "D" \in Roles BY DEF Roles
  <2>1. ASSUME NEW r \in Requests, NEW s \in Roles PROVE Order(eng, rows, s, r)
    <3>1. IssuedRound(eng, s, r) = First(s) - 1 /\ First(s) \in 0 .. 1 BY <1>1, <2>0 DEF IssuedRound, First, Roles
    <3>2. Last(s, NoFact) = First(s) - 1 BY <1>9, <3>1 DEF Last
    <3> QED BY <1>8, <3>1, <3>2 DEF Order
  <2>2. ASSUME NEW r \in Requests PROVE Chain(eng, rows, r)
    <3>1. Last("D", NoFact) = 0 BY <1>9 DEF Last, First
    <3> QED BY <1>1, <1>8, <1>9, <2>0, <3>1, PipelineAssumptions DEF Chain
  <2>3. ASSUME NEW r \in Requests PROVE Told(eng, r)
    BY <1>1, <1>8, <1>9, <2>0 DEF Told
  <2> QED BY <2>1, <2>2, <2>3 DEF Frontier
<1>12. OneOwner(eng, rows)
  <2>1. ASSUME NEW s \in Roles, NEW r \in Requests, NEW q \in Int, NEW k \in Keys, q >= First(s),
               Bears(eng, rows, s, r, q, k)
        PROVE  FALSE
    <3>1. ~Authorises(eng, k, s, r, q) BY <1>3 DEF Authorises
    <3>2. q = -1 BY <1>8, <1>9, <2>1, <3>1 DEF Bears
    <3> QED BY <2>1, <3>2 DEF First
  <2> QED BY <2>1 DEF OneOwner
<1>13. ImportsMatch(eng, rows) BY <1>3, <1>8 DEF ImportsMatch
<1>14. Ledger(eng, jobs, completions) BY <1>3 DEF Ledger
<1>15. Held(eng, rows, jobs, completions) BY <1>3 DEF Held
<1>16. Kept(eng, rows) BY <1>8 DEF Kept
<1>17. Pending(eng) BY <1>1 DEF Pending
<1>18. \A k \in DOMAIN jobs : JobSane(eng, rows, k, jobs[k]) BY <1>3
<1> QED BY <1>2, <1>7, <1>10, <1>11, <1>12, <1>13, <1>14, <1>15, <1>16, <1>17, <1>18 DEF PipelineInv, Good
-----------------------------------------------------------------------------
(***************************************************************************)
(* The captures of a worker.                                               *)
(***************************************************************************)
(* A WORK on its worker, and its record. *)
LEMMA JobFacts ==
    ASSUME NEW e, NEW R, NEW J, NEW C, Good(e, R, J, C), NEW k \in DOMAIN J
    PROVE  /\ k \in Keys /\ J[k] \in Job /\ J[k].work \in Work /\ J[k].work.role \in Roles
           /\ J[k].work.key = k /\ k \in DOMAIN e.records /\ e.records[k].work = J[k].work
           /\ Members(J[k].work) \subseteq Requests
           /\ Frozen(J[k].work) /\ Staged(J[k]) /\ JobSane(e, R, k, J[k])
<1>1. J \in PerWork(Job) /\ Ledger(e, J, C) /\ JobSane(e, R, k, J[k]) BY DEF Good, Typed
<1>2. J[k] \in Job /\ k \in Keys BY <1>1, WorkMap
<1>3. J[k].work \in Work BY <1>2 DEF Job
<1>4. k \in DOMAIN e.records BY <1>1 DEF Ledger
<1>5. e.records[k].work = J[k].work /\ e.records[k].work.key = k BY <1>1, <1>4 DEF Ledger
<1>6. Frozen(J[k].work) /\ Staged(J[k]) BY <1>1 DEF JobSane
<1>7. J[k].work.role \in Roles /\ Members(J[k].work) \subseteq Requests BY <1>3, WorkFacts
<1> QED BY <1>1, <1>2, <1>3, <1>4, <1>5, <1>6, <1>7

(* One of its members. *)
LEMMA MemberFacts ==
    ASSUME NEW e, NEW R, NEW J, NEW C, Good(e, R, J, C), NEW k \in DOMAIN J,
           NEW r \in Members(J[k].work)
    PROVE  LET job == J[k]
               s == job.work.role
               q == job.work.round[r]
           IN  /\ r \in Requests /\ q \in Int /\ First(s) \in 0 .. 1 /\ First(s) <= q
               /\ job.work.initial \in BOOLEAN /\ (job.work.initial <=> q = First(s))
               /\ ~job.work.initial => job.work.source[r] = Version(s, q - 1)
               /\ job.work.source[r] \in Int /\ job.work.budget[r] \in Int /\ 1 <= job.work.budget[r]
               /\ Authorises(e, k, s, r, q) /\ Bears(e, R, s, r, q, k)
               /\ job.watch[r] \subseteq Names /\ job.out[r] \in Row
               /\ job.got[r] \in [Names -> Row]
               /\ Placed(e, R, job, r) /\ Captured(R, job, r) /\ Continues(R, job, r) /\ Produced(k, job, r)
<1>1. /\ J[k] \in Job /\ J[k].work \in Work /\ J[k].work.role \in Roles
      /\ k \in DOMAIN e.records /\ e.records[k].work = J[k].work
      /\ Members(J[k].work) \subseteq Requests
      /\ Frozen(J[k].work) /\ Staged(J[k]) /\ JobSane(e, R, k, J[k])
  BY JobFacts
<1>2. J[k].work.round[r] \in Int /\ J[k].work.initial \in BOOLEAN BY <1>1, WorkFacts
<1>3. DOMAIN J[k].work.source = Members(J[k].work) /\ DOMAIN J[k].work.budget = Members(J[k].work)
  BY <1>1 DEF Frozen
<1>4. J[k].work.source[r] \in Int /\ J[k].work.budget[r] \in Int BY <1>1, <1>3, WorkFacts
<1>5. /\ First(J[k].work.role) <= J[k].work.round[r] /\ 1 <= J[k].work.budget[r]
      /\ J[k].work.initial <=> J[k].work.round[r] = First(J[k].work.role)
      /\ ~J[k].work.initial => J[k].work.source[r] = Version(J[k].work.role, J[k].work.round[r] - 1)
  BY <1>1 DEF Frozen
<1>6. DOMAIN J[k].watch = Members(J[k].work) /\ DOMAIN J[k].got = Members(J[k].work)
      /\ DOMAIN J[k].out = Members(J[k].work)
  BY <1>1 DEF Staged
<1>7. J[k].watch \in PerMember(SUBSET Names) /\ J[k].got \in PerMember([Names -> Row])
      /\ J[k].out \in PerMember(Row)
  BY <1>1 DEF Job
<1>8. J[k].watch[r] \in SUBSET Names BY <1>6, <1>7, MemberMap
<1>9. J[k].got[r] \in [Names -> Row] BY <1>6, <1>7, MemberMap
<1>10. J[k].out[r] \in Row BY <1>6, <1>7, MemberMap
<1>11. Authorises(e, k, J[k].work.role, r, J[k].work.round[r]) BY <1>1 DEF Authorises
<1>12. Bears(e, R, J[k].work.role, r, J[k].work.round[r], k) BY <1>11 DEF Bears
<1>13. Placed(e, R, J[k], r) /\ Captured(R, J[k], r) /\ Continues(R, J[k], r) /\ Produced(k, J[k], r)
  BY <1>1 DEF JobSane
<1>14. r \in Requests /\ First(J[k].work.role) \in 0 .. 1 BY <1>1 DEF First
<1> QED BY <1>2, <1>4, <1>5, <1>8, <1>9, <1>10, <1>11, <1>12, <1>13, <1>14

(* A job changes, and what has been published stays. *)
LEMMA JobChanges ==
    ASSUME NEW e, NEW R, NEW J, NEW C, Good(e, R, J, C), NEW k \in DOMAIN J, NEW x \in Job,
           x.work = J[k].work, J[k].published \subseteq x.published,
           NEW K, K = [J EXCEPT ![k] = x], Content(e, R, K), JobSane(e, R, k, x)
    PROVE  Good(e, R, K, C)
<1>1. J \in PerWork(Job) BY DEF Good, Typed
<1>2. K \in PerWork(Job) BY <1>1, ChangeMap
<1>3. DOMAIN K = DOMAIN J /\ K[k] = x /\ \A j \in DOMAIN J : j # k => K[j] = J[j] OBVIOUS
<1>4. Typed(e, R, K, C) BY <1>2 DEF Good, Typed
<1>5. \A j \in DOMAIN J : K[j].work = J[j].work BY <1>3
<1>6. \A j \in DOMAIN J : J[j].published \subseteq K[j].published BY <1>3
<1>7. Ledger(e, K, C) BY <1>3, <1>5 DEF Good, Ledger
<1>8. Held(e, R, K, C)
  <2>1. ASSUME NEW j \in DOMAIN e.records, NEW r \in Members(e.records[j].work),
               Res(R, e.records[j].work.role, r).work = j,
               Res(R, e.records[j].work.role, r).round = e.records[j].work.round[r]
        PROVE  \/ j \in DOMAIN K /\ r \in K[j].published
               \/ j \in DOMAIN C /\ r \in C[j]
    <3>1. \/ j \in DOMAIN J /\ r \in J[j].published
          \/ j \in DOMAIN C /\ r \in C[j]
      BY <2>1 DEF Good, Held
    <3> QED BY <1>3, <1>6, <3>1
  <2> QED BY <2>1 DEF Held
<1>9. \A j \in DOMAIN K : JobSane(e, R, j, K[j])
  <2>1. \A j \in DOMAIN J : JobSane(e, R, j, J[j]) BY DEF Good
  <2> QED BY <1>3, <2>1
<1> QED BY <1>4, <1>7, <1>8, <1>9 DEF Good

(* What a member still has to do, and has therefore not done. *)
LEMMA Unfinished ==
    ASSUME NEW e, NEW R, NEW J, NEW C, Good(e, R, J, C), NEW k \in DOMAIN J, ~J[k].computed,
           NEW r \in Live(J[k])
    PROVE  LET s == J[k].work.role
               q == J[k].work.round[r]
           IN  /\ r \in Members(J[k].work) /\ r \in Live(J[k]) \ J[k].published
               /\ J[k].published = {} /\ J[k].exported = {}
               /\ Last(s, Res(R, s, r)) = q - 1 /\ Last(s, Host(R, s, r)) < q
<1>1. Staged(J[k]) BY JobFacts
<1>2. J[k].published = {} BY <1>1 DEF Staged
<1>3. J[k].exported = {} BY <1>1, <1>2 DEF Staged
<1>4. r \in Members(J[k].work) BY DEF Live
<1>5. Placed(e, R, J[k], r) BY <1>4, MemberFacts
<1> QED BY <1>2, <1>3, <1>4, <1>5 DEF Placed

(* A member that still watches a row has not begun. *)
LEMMA Watching ==
    ASSUME NEW e, NEW R, NEW J, NEW C, Good(e, R, J, C), NEW k \in DOMAIN J,
           NEW r \in Members(J[k].work), NEW name \in J[k].watch[r]
    PROVE  /\ name \in Names /\ Applies(J[k].work, name)
           /\ ~J[k].computed /\ r \in Live(J[k]) \ J[k].published
           /\ J[k].published = {} /\ J[k].exported = {}
           /\ name # "predecessor" => J[k].imported = {}
<1>1. Staged(J[k]) BY JobFacts
<1>2. name \in Names BY MemberFacts
<1>3. ~J[k].computed /\ r \notin J[k].skip /\ Applies(J[k].work, name) BY <1>1 DEF Staged
<1>4. J[k].published = {} BY <1>1, <1>3 DEF Staged
<1>5. J[k].exported = {} BY <1>1, <1>4 DEF Staged
<1>6. name # "predecessor" => J[k].imported = {} BY <1>1 DEF Staged
<1> QED BY <1>2, <1>3, <1>4, <1>5, <1>6 DEF Live

(* Versions grow with the rounds. *)
LEMMA VersionOrder ==
    ASSUME NEW s \in Roles, NEW p \in Int, NEW q \in Int
    PROVE  /\ Version(s, p) \in Int /\ Version(s, q) \in Int
           /\ p <= q => Version(s, p) <= Version(s, q)
           /\ Version(s, p) = Version(s, q) => p = q
  BY DEF Version

(* A row is not replaced before it has been captured. *)
LEMMA CaptureTicket ==
    ASSUME NEW e, NEW R, NEW J, NEW C, Good(e, R, J, C), NEW k \in DOMAIN J,
           NEW r \in Members(J[k].work), NEW name \in J[k].watch[r]
    PROVE  LET row == R[Watched(J[k], r, name)] IN
           /\ ~(Ticket(name, row) > Expected(J[k], r, name))
           /\ Ticket(name, row) = Expected(J[k], r, name) => row.round = Awaited(J[k].work, r, name)
<1> DEFINE job == J[k]
           s == job.work.role
           q == job.work.round[r]
           row == R[Watched(job, r, name)]
<1>0. "T" \in Roles /\ "D" \in Roles BY DEF Roles
<1>1. s \in Roles BY JobFacts
<1>2. /\ r \in Requests /\ q \in Int /\ First(s) \in 0 .. 1 /\ First(s) <= q
      /\ (job.work.initial <=> q = First(s))
      /\ ~job.work.initial => job.work.source[r] = Version(s, q - 1)
      /\ job.work.initial \in BOOLEAN
  BY MemberFacts
<1>3. name \in Names /\ Applies(job.work, name) /\ ~job.computed /\ r \in Live(job) BY Watching
<1>4. Last(s, Res(R, s, r)) = q - 1 /\ Last(s, Host(R, s, r)) < q BY <1>3, Unfinished
<1>5. Chain(e, R, r) /\ Content(e, R, J) BY <1>2 DEF Good, Frontier
<1>6. /\ Res(R, "T", r).round \in Int /\ Res(R, "D", r).round \in Int
      /\ Last("D", Res(R, "D", r)) \in Int /\ Res(R, "D", r).round <= Last("D", Res(R, "D", r))
      /\ Last("T", Res(R, "T", r)) \in Int /\ Res(R, "T", r).round <= Last("T", Res(R, "T", r))
  <2>1. Item(e, R, J, "T", r, Res(R, "T", r)) /\ Item(e, R, J, "D", r, Res(R, "D", r)) BY DEF Item
  <2> QED BY <1>0, <1>2, <1>5, <2>1, LastRound
<1>7. Res(R, "T", r).round <= q - 1 \/ s = "T" BY <1>1, <1>4, <1>5, <1>6 DEF Chain, Roles
<1>8. CASE name = "classified"
  <2>1. row = Res(R, "T", r) BY <1>1, <1>8, WatchedRow DEF Res
  <2>2. Ticket(name, row) = row.round /\ Expected(job, r, name) = q - 1
        /\ Awaited(job.work, r, name) = q - 1
    BY <1>8 DEF Ticket, Expected, Awaited
  <2>3. row.round <= q - 1 BY <1>4, <1>6, <1>7, <2>1
  <2> QED BY <1>2, <1>6, <2>1, <2>2, <2>3
<1>9. CASE name = "predecessor" /\ s = "D"
  <2>1. row = Res(R, "T", r) BY <1>1, <1>9, WatchedRow DEF Res, Other
  <2>2. Ticket(name, row) = row.round /\ Expected(job, r, name) = q - 1
        /\ Awaited(job.work, r, name) = q - 1
    BY <1>9 DEF Ticket, Expected, Awaited
  <2>3. row.round <= q - 1 BY <1>7, <1>9, <2>1
  <2> QED BY <1>2, <1>6, <2>1, <2>2, <2>3
<1>10. CASE name = "predecessor" /\ s = "T"
  <2>1. row = Res(R, "D", r) BY <1>1, <1>10, WatchedRow DEF Res, Other
  <2>2. Ticket(name, row) = row.round /\ Expected(job, r, name) = q /\ Awaited(job.work, r, name) = q
    BY <1>10 DEF Ticket, Expected, Awaited
  <2>3. Res(R, "T", r).round <= q - 1 BY <1>4, <1>6, <1>10
  <2>4. row.round <= q BY <1>2, <1>5, <1>6, <2>1, <2>3 DEF Chain
  <2> QED BY <1>2, <1>6, <2>1, <2>2, <2>4
<1>11. CASE name = "source"
  <2>1. row = Host(R, s, r) BY <1>1, <1>11, WatchedRow DEF Host
  <2>2. ~job.work.initial BY <1>3, <1>11 DEF Applies
  <2>3. Ticket(name, row) = row.version /\ Expected(job, r, name) = Version(s, q - 1)
        /\ Awaited(job.work, r, name) = q - 1
    BY <1>2, <1>11, <2>2 DEF Ticket, Expected, Awaited
  <2>4. Item(e, R, J, s, r, row) BY <2>1 DEF Item
  <2>5. /\ row.round \in Int
        /\ row # NoFact => Last(s, row) = row.round
    BY <1>1, <1>2, <1>5, <2>4, LastRound
  <2>6. First(s) <= q - 1 BY <1>2, <2>2
  <2>7. CASE row = NoFact
    <3>1. row.version = 0 BY <2>7 DEF NoFact
    <3>2. Version(s, q - 1) \in Int /\ 1 <= Version(s, q - 1) BY <1>1, <1>2, <2>6 DEF Version, First, Roles
    <3> QED BY <2>3, <3>1, <3>2
  <2>8. CASE row # NoFact
    <3>0. Last(s, row) < q BY <1>4, <2>1
    <3>2. row.version = Version(s, row.round) BY <1>1, <1>2, <1>5, <2>4, <2>8, ItemRound DEF GoodRow
    <3> HIDE DEF row, s, q
    <3>1. row.round \in Int /\ row.round <= q - 1 BY <1>2, <2>5, <2>8, <3>0
    <3>3. q - 1 \in Int BY <1>2
    <3>4. /\ Version(s, row.round) \in Int /\ Version(s, q - 1) \in Int
          /\ Version(s, row.round) <= Version(s, q - 1)
          /\ Version(s, row.round) = Version(s, q - 1) => row.round = q - 1
      BY <1>1, <3>1, <3>3, VersionOrder
    <3>5. ~(Ticket(name, row) > Expected(J[k], r, name)) BY <2>3, <3>2, <3>4
    <3>6. Ticket(name, row) = Expected(J[k], r, name) => row.round = Awaited(J[k].work, r, name)
      BY <2>3, <3>2, <3>4
    <3> QED BY <3>5, <3>6 DEF row
  <2> QED BY <2>7, <2>8
<1> QED BY <1>1, <1>3, <1>8, <1>9, <1>10, <1>11 DEF Names, Roles

(* A job that has captured a row. *)
Taking(job, r, name, row) ==
    [job EXCEPT !.got[r][name] = row,
                !.skip = IF name = "classified" /\ row.finished THEN @ \cup {r} ELSE @,
                !.watch[r] = IF name = "classified" /\ row.finished THEN {} ELSE @ \ {name}]

(* What has changed. *)
Took(job, r, name, row, x) ==
    LET ends == name = "classified" /\ row.finished
    IN  /\ x \in Job /\ x.work = job.work /\ x.computed = job.computed
        /\ x.imported = job.imported /\ x.published = job.published
        /\ x.exported = job.exported /\ x.out = job.out
        /\ DOMAIN x.watch = Members(job.work) /\ DOMAIN x.got = Members(job.work)
        /\ x.skip = IF ends THEN job.skip \cup {r} ELSE job.skip
        /\ x.watch[r] = IF ends THEN {} ELSE job.watch[r] \ {name}
        /\ x.got[r][name] = row
        /\ \A n \in Names : n # name => x.got[r][n] = job.got[r][n]
        /\ \A m \in Members(job.work) : m # r => x.watch[m] = job.watch[m] /\ x.got[m] = job.got[m]

(* What a capture changes in a job. *)
LEMMA TakingFields ==
    ASSUME NEW job \in Job, DOMAIN job.watch = Members(job.work), DOMAIN job.got = Members(job.work),
           NEW r \in Members(job.work), r \in Requests, NEW name \in Names, NEW row \in Row
    PROVE  Took(job, r, name, row, Taking(job, r, name, row))
<1> DEFINE ends == name = "classified" /\ row.finished
           one == [job.got[r] EXCEPT ![name] = row]
           got == [job.got EXCEPT ![r] = one]
           skip == IF ends THEN job.skip \cup {r} ELSE job.skip
           left == IF ends THEN {} ELSE job.watch[r] \ {name}
           watch == [job.watch EXCEPT ![r] = left]
           x == [job EXCEPT !.got = got, !.skip = skip, !.watch = watch]
<1>1. job.watch \in PerMember(SUBSET Names) /\ job.got \in PerMember([Names -> Row])
      /\ job.skip \in SUBSET Requests
  BY DEF Job
<1>2. job.watch[r] \in SUBSET Names /\ job.got[r] \in [Names -> Row] BY <1>1, MemberMap
<1>3. Members(job.work) \subseteq Requests BY <1>1, MemberMap
<1>4. one \in [Names -> Row] /\ one[name] = row /\ \A n \in Names : n # name => one[n] = job.got[r][n]
  BY <1>2
<1>5. left \in SUBSET Names /\ skip \in SUBSET Requests BY <1>1, <1>2
<1> HIDE DEF one, left, skip, ends
<1>6. /\ DOMAIN got = Members(job.work) /\ got[r] = one
      /\ \A m \in Members(job.work) : m # r => got[m] = job.got[m]
  OBVIOUS
<1>7. /\ DOMAIN watch = Members(job.work) /\ watch[r] = left
      /\ \A m \in Members(job.work) : m # r => watch[m] = job.watch[m]
  OBVIOUS
<1>8. got = [m \in Members(job.work) |-> got[m]] OBVIOUS
<1>9. watch = [m \in Members(job.work) |-> watch[m]] OBVIOUS
<1> HIDE DEF got, watch
<1>10. \A m \in Members(job.work) : got[m] \in [Names -> Row] BY <1>1, <1>4, <1>6, MemberMap
<1>11. \A m \in Members(job.work) : watch[m] \in SUBSET Names BY <1>1, <1>5, <1>7, MemberMap
<1>12. got \in PerMember([Names -> Row]) BY <1>3, <1>8, <1>10, MakeMemberMap
<1>13. watch \in PerMember(SUBSET Names) BY <1>3, <1>9, <1>11, MakeMemberMap
<1>14. x \in Job BY <1>5, <1>12, <1>13 DEF Job
<1>15. /\ x.work = job.work /\ x.computed = job.computed /\ x.imported = job.imported
       /\ x.published = job.published /\ x.exported = job.exported /\ x.out = job.out
       /\ x.got = got /\ x.skip = skip /\ x.watch = watch
  BY DEF Job
<1>16. x = Taking(job, r, name, row) BY DEF Taking, Job, got, watch, one, left, skip, ends
<1> HIDE DEF x
<1>17. /\ x.skip = IF ends THEN job.skip \cup {r} ELSE job.skip
       /\ x.watch[r] = IF ends THEN {} ELSE job.watch[r] \ {name}
  BY <1>7, <1>15 DEF skip, left
<1>18. Took(job, r, name, row, x)
  BY <1>4, <1>6, <1>7, <1>14, <1>15, <1>17 DEF ends, Took
<1> QED BY <1>16, <1>18

(* A capture copies a row that is there. *)
LEMMA CaptureContent ==
    ASSUME NEW e, NEW R, NEW J, NEW C, Good(e, R, J, C), NEW k \in DOMAIN J,
           NEW r \in Members(J[k].work), NEW name \in Names, NEW x,
           x.work = J[k].work, x.out = J[k].out,
           x.got[r][name] = R[Watched(J[k], r, name)],
           \A n \in Names : n # name => x.got[r][n] = J[k].got[r][n],
           \A m \in Members(J[k].work) : m # r => x.got[m] = J[k].got[m],
           NEW K, K = [J EXCEPT ![k] = x]
    PROVE  Content(e, R, K)
<1>0. "classified" \in Names /\ "source" \in Names /\ "predecessor" \in Names BY DEF Names
<1>1. Content(e, R, J) /\ J[k].work.role \in Roles BY JobFacts DEF Good
<1>2. DOMAIN K = DOMAIN J /\ K[k] = x /\ \A j \in DOMAIN J : j # k => K[j] = J[j] OBVIOUS
<1>3. ASSUME NEW s \in Roles, NEW m \in Requests, NEW y, Carries(x, s, m, y)
      PROVE  Item(e, R, J, s, m, y)
  <2>1. CASE Carries(J[k], s, m, y) BY <2>1 DEF Item
  <2>2. CASE m # r
    <3>1. Carries(J[k], s, m, y) BY <1>3, <2>2 DEF Carries
    <3> QED BY <2>1, <3>1
  <2>3. CASE m = r /\ ~Carries(J[k], s, r, y)
    <3>1. /\ y = R[Watched(J[k], r, name)]
          /\ \/ name = "source" /\ J[k].work.role = s
             \/ name = "predecessor" /\ J[k].work.role # s
             \/ name = "classified" /\ s = "T"
      BY <1>0, <1>3, <2>3 DEF Carries
    <3>2. CASE name = "source" /\ J[k].work.role = s
      <4>1. y = Host(R, s, r) BY <1>1, <3>1, <3>2, WatchedRow DEF Host
      <4> QED BY <2>3, <4>1 DEF Item
    <3>3. CASE name = "predecessor" /\ J[k].work.role # s
      <4>1. Other(J[k].work.role) = s BY <1>1, <3>3 DEF Other, Roles
      <4>2. y = Res(R, s, r) BY <1>1, <3>1, <3>3, <4>1, WatchedRow DEF Res
      <4> QED BY <2>3, <4>2 DEF Item
    <3>4. CASE name = "classified" /\ s = "T"
      <4>1. y = Res(R, s, r) BY <1>1, <3>1, <3>4, WatchedRow DEF Res
      <4> QED BY <2>3, <4>1 DEF Item
    <3> QED BY <3>1, <3>2, <3>3, <3>4
  <2> QED BY <2>1, <2>2, <2>3
<1>4. ASSUME NEW s \in Roles, NEW m \in Requests, NEW y, Item(e, R, K, s, m, y)
      PROVE  Item(e, R, J, s, m, y)
  <2>1. CASE y \in {Res(R, s, m), Host(R, s, m), Result(e, s, m)} BY <2>1 DEF Item
  <2>2. ASSUME NEW j \in DOMAIN K, Carries(K[j], s, m, y) PROVE Item(e, R, J, s, m, y)
    <3>1. CASE j = k BY <1>2, <1>3, <2>2, <3>1
    <3>2. CASE j # k BY <1>2, <2>2, <3>2 DEF Item
    <3> QED BY <3>1, <3>2
  <2> QED BY <1>4, <2>1, <2>2 DEF Item
<1> QED BY <1>1, <1>4, ContentKept

(* A capture keeps the order of the job's steps. *)
LEMMA CaptureSane ==
    ASSUME NEW e, NEW R, NEW J, NEW C, Good(e, R, J, C), NEW k \in DOMAIN J,
           NEW r \in Members(J[k].work), NEW name \in J[k].watch[r], NEW row, NEW x,
           row = R[Watched(J[k], r, name)], row \in Row,
           row.round = Awaited(J[k].work, r, name), x = Taking(J[k], r, name, row)
    PROVE  JobSane(e, R, k, x)
<1> DEFINE job == J[k]
           ends == name = "classified" /\ row.finished
<1>1. /\ job \in Job /\ job.work.role \in Roles /\ Members(job.work) \subseteq Requests
      /\ Frozen(job.work) /\ Staged(job)
  BY JobFacts
<1>2. /\ name \in Names /\ ~job.computed /\ r \in Live(job) /\ job.published = {} /\ job.exported = {}
      /\ name # "predecessor" => job.imported = {}
  BY Watching
<1>3. DOMAIN job.watch = Members(job.work) /\ DOMAIN job.got = Members(job.work)
      /\ DOMAIN job.out = Members(job.work)
  BY <1>1 DEF Staged
<1>4. r \in Requests /\ r \in Members(job.work) /\ x = Taking(job, r, name, row) BY <1>1
<1>11. Took(job, r, name, row, x)
  <2> HIDE DEF job
  <2> QED BY <1>1, <1>2, <1>3, <1>4, TakingFields
<1>5. /\ x.work = job.work /\ x.computed = job.computed
      /\ x.imported = job.imported /\ x.published = job.published
      /\ x.exported = job.exported /\ x.out = job.out
      /\ DOMAIN x.watch = Members(job.work) /\ DOMAIN x.got = Members(job.work)
      /\ x.skip = IF ends THEN job.skip \cup {r} ELSE job.skip
      /\ x.watch[r] = IF ends THEN {} ELSE job.watch[r] \ {name}
      /\ x.got[r][name] = row
      /\ \A n \in Names : n # name => x.got[r][n] = job.got[r][n]
      /\ \A m \in Members(job.work) : m # r => x.watch[m] = job.watch[m] /\ x.got[m] = job.got[m]
  BY <1>11 DEF Took
<1> HIDE DEF ends
<1>6. \A m \in Members(job.work) : x.watch[m] \subseteq job.watch[m]
  <2>1. x.watch[r] \subseteq job.watch[r] BY <1>5
  <2> QED BY <1>5, <2>1
<1>7. \A m \in Live(x) : m \in Live(job) BY <1>5 DEF Live
<1>8. \A m \in Members(job.work) : m \in job.skip => x.watch[m] = {}
  BY <1>1, <1>6 DEF Staged
<1>9. Staged(x)
  <2>1. x.imported \subseteq Live(x)
    <3>1. CASE ends BY <1>2, <1>5, <3>1 DEF ends
    <3>2. CASE ~ends BY <1>1, <1>5, <3>2 DEF Staged, Live
    <3> QED BY <3>1, <3>2
  <2>2. x.imported # {} => \A m \in Members(x.work) : x.watch[m] \subseteq {"predecessor"}
    BY <1>1, <1>5, <1>6 DEF Staged
  <2>3. \A m \in Members(x.work) : x.computed \/ m \in x.skip => x.watch[m] = {}
    <3>1. CASE ends BY <1>2, <1>5, <1>8, <3>1
    <3>2. CASE ~ends BY <1>2, <1>5, <1>8, <3>2
    <3> QED BY <3>1, <3>2
  <2>4. \A m \in Members(x.work) : \A n \in x.watch[m] : Applies(x.work, n)
    BY <1>1, <1>5, <1>6 DEF Staged
  <2>5. /\ DOMAIN x.watch = Members(x.work) /\ DOMAIN x.got = Members(x.work)
        /\ DOMAIN x.out = Members(x.work)
    BY <1>3, <1>5
  <2>6. x.published = {} /\ x.exported = {} BY <1>2, <1>5
  <2> QED BY <2>1, <2>2, <2>3, <2>4, <2>5, <2>6 DEF Staged
<1>10. ASSUME NEW m \in Members(job.work)
       PROVE  Placed(e, R, x, m) /\ Captured(R, x, m) /\ Continues(R, x, m) /\ Produced(k, x, m)
  <2>1. Placed(e, R, job, m) /\ Captured(R, job, m) /\ Continues(R, job, m) /\ Produced(k, job, m)
    BY MemberFacts
  <2>2. Placed(e, R, x, m)
    <3>1. m \in Live(x) \ x.published => m \in Live(job) \ job.published BY <1>5, <1>7
    <3>2. m \in Live(x) \ x.exported => m \in Live(job) \ job.exported BY <1>5, <1>7
    <3> QED BY <1>5, <2>1, <3>1, <3>2 DEF Placed
  <2>3. Captured(R, x, m)
    <3> SUFFICES ASSUME NEW n \in Names
                 PROVE  LET wrow == R[Watched(x, m, n)] IN
                        /\ x.got[m][n].round <= wrow.round
                        /\ (m \in Live(x) /\ n \notin x.watch[m] /\ Applies(x.work, n)) =>
                               /\ Awaited(x.work, m, n) <= wrow.round
                               /\ ~x.computed \/ n = "source" => x.got[m][n].round = Awaited(x.work, m, n)
      BY DEF Captured
    <3>1. Watched(x, m, n) = Watched(job, m, n) BY <1>5 DEF Watched
    <3>2. /\ job.got[m][n].round <= R[Watched(job, m, n)].round
          /\ (m \in Live(job) /\ n \notin job.watch[m] /\ Applies(job.work, n)) =>
                 /\ Awaited(job.work, m, n) <= R[Watched(job, m, n)].round
                 /\ ~job.computed \/ n = "source" => job.got[m][n].round = Awaited(job.work, m, n)
      BY <2>1 DEF Captured
    <3>3. CASE m = r /\ n = name
      <4>1. x.got[m][n] = row /\ R[Watched(x, m, n)] = row BY <1>5, <3>1, <3>3
      <4>2. row.round \in Int BY DEF Row
      <4>3. Awaited(x.work, m, n) = row.round BY <1>5, <3>3
      <4> QED BY <4>1, <4>2, <4>3
    <3>4. CASE ~(m = r /\ n = name)
      <4>1. x.got[m][n] = job.got[m][n] BY <1>5, <3>4
      <4>2. m \in Live(x) /\ n \notin x.watch[m] => m \in Live(job) /\ n \notin job.watch[m]
        <5>1. CASE m # r BY <1>5, <1>7, <5>1
        <5>2. CASE m = r /\ ends BY <1>5, <5>2 DEF Live
        <5>3. CASE m = r /\ ~ends BY <1>5, <1>7, <3>4, <5>3
        <5> QED BY <5>1, <5>2, <5>3
      <4> QED BY <1>5, <3>1, <3>2, <4>1, <4>2
    <3> QED BY <3>3, <3>4
  <2>4. Continues(R, x, m)
    <3>1. m \in Live(x) \ x.published => m \in Live(job) \ job.published BY <1>5, <1>7
    <3>2. ASSUME m \in Live(x), job.work.role = "D", "classified" \notin x.watch[m],
                 Res(R, "T", m).round = job.work.round[m] - 1
          PROVE  ~Res(R, "T", m).finished
      <4>1. CASE "classified" \notin job.watch[m] BY <1>7, <1>2, <2>1, <3>2, <4>1 DEF Continues
      <4>2. CASE "classified" \in job.watch[m]
        <5>1. m = r /\ name = "classified"
          <6>1. m = r BY <1>5, <3>2, <4>2
          <6>2. ~ends BY <1>5, <3>2, <6>1 DEF Live
          <6> QED BY <1>5, <3>2, <4>2, <6>1, <6>2
        <5>2. row = Res(R, "T", r) BY <1>1, <5>1, WatchedRow DEF Res
        <5>3. ~ends BY <1>5, <3>2, <5>1 DEF Live
        <5> QED BY <5>1, <5>2, <5>3 DEF ends
      <4> QED BY <4>1, <4>2
    <3> QED BY <1>5, <2>1, <3>1, <3>2 DEF Continues
  <2>5. Produced(k, x, m) BY <1>2, <1>5, <2>1 DEF Produced
  <2> QED BY <2>2, <2>3, <2>4, <2>5
<1> QED BY <1>1, <1>5, <1>9, <1>10 DEF JobSane

(* A capture keeps the invariant. *)
LEMMA CaptureKeeps ==
    ASSUME PipelineInv, NEW k \in DOMAIN jobs, NEW r \in Members(jobs[k].work), NEW name \in Names,
           Capture(k, r, name)
    PROVE  PipelineInv'
<1> DEFINE row == rows[Watched(jobs[k], r, name)]
           x == Taking(jobs[k], r, name, row)
           K == [jobs EXCEPT ![k] = x]
<1>1. Good(eng, rows, jobs, completions) /\ failure = "none" BY DEF PipelineInv
<1>2. name \in jobs[k].watch[r] BY DEF Capture
<1>3. ~(Ticket(name, row) > Expected(jobs[k], r, name))
      /\ (Ticket(name, row) = Expected(jobs[k], r, name) => row.round = Awaited(jobs[k].work, r, name))
  BY <1>1, <1>2, CaptureTicket
<1>4. /\ Ticket(name, row) = Expected(jobs[k], r, name)
      /\ jobs' = K
      /\ eng' = eng /\ rows' = rows /\ completions' = completions /\ failure' = failure
  BY <1>3 DEF Capture, Taking
<1>5. /\ jobs[k] \in Job /\ jobs[k].work.role \in Roles /\ Staged(jobs[k]) /\ r \in Requests
      /\ rows \in [Cells -> Row]
  BY <1>1, JobFacts DEF Good, Typed
<1>6. row \in Row
  <2>1. Watched(jobs[k], r, name) \in Cells
    <3>1. /\ Watched(jobs[k], r, "classified") = <<"T", "result", r>>
          /\ Watched(jobs[k], r, "source") = <<jobs[k].work.role, "host", r>>
          /\ Watched(jobs[k], r, "predecessor") = <<Other(jobs[k].work.role), "result", r>>
          /\ Other(jobs[k].work.role) \in Roles /\ "T" \in Roles
      BY <1>5, WatchedRow
    <3>2. /\ <<"T", "result", r>> \in Cells /\ <<jobs[k].work.role, "host", r>> \in Cells
          /\ <<Other(jobs[k].work.role), "result", r>> \in Cells
      BY <1>5, <3>1, CellNames
    <3> QED BY <3>1, <3>2 DEF Names
  <2> QED BY <1>5, <2>1
<1>7. DOMAIN jobs[k].watch = Members(jobs[k].work) /\ DOMAIN jobs[k].got = Members(jobs[k].work)
  BY <1>5 DEF Staged
<1> HIDE DEF row
<1>14. Took(jobs[k], r, name, row, x) BY <1>5, <1>6, <1>7, TakingFields
<1>8. /\ x \in Job /\ x.work = jobs[k].work /\ x.published = jobs[k].published /\ x.out = jobs[k].out
      /\ x.got[r][name] = row
      /\ \A n \in Names : n # name => x.got[r][n] = jobs[k].got[r][n]
      /\ \A m \in Members(jobs[k].work) : m # r => x.got[m] = jobs[k].got[m]
  BY <1>14 DEF Took
<1>9. row.round = Awaited(jobs[k].work, r, name) BY <1>3, <1>4
<1>10. JobSane(eng, rows, k, x) BY <1>1, <1>2, <1>6, <1>9, CaptureSane DEF row
<1> HIDE DEF x
<1>11. Content(eng, rows, K) BY <1>1, <1>8, CaptureContent DEF row
<1>12. Good(eng, rows, K, completions)
  <2> HIDE DEF K
  <2>1. K = [jobs EXCEPT ![k] = x] BY DEF K
  <2>2. jobs[k].published \subseteq x.published BY <1>8
  <2> QED BY <1>1, <1>8, <1>10, <1>11, <2>1, <2>2, JobChanges
<1>13. Good(eng', rows', jobs', completions') BY <1>4, <1>12
<1> QED BY <1>1, <1>4, <1>13 DEF PipelineInv
-----------------------------------------------------------------------------
(***************************************************************************)
(* The rows a worker publishes for what it has imported.                   *)
(***************************************************************************)
(* x differs from job in what has been copied and published only. *)
Marked(job, x) ==
    /\ x \in Job /\ x.work = job.work /\ x.watch = job.watch /\ x.got = job.got
    /\ x.skip = job.skip /\ x.computed = job.computed /\ x.out = job.out

(* Noting an import, a publication or an export. *)
LEMMA MarkFields ==
    ASSUME NEW job \in Job, NEW r \in Requests
    PROVE  /\ LET x == [job EXCEPT !.imported = @ \cup {r}]
              IN  /\ Marked(job, x) /\ x.imported = job.imported \cup {r}
                  /\ x.published = job.published /\ x.exported = job.exported
           /\ LET x == [job EXCEPT !.published = @ \cup {r}]
              IN  /\ Marked(job, x) /\ x.imported = job.imported
                  /\ x.published = job.published \cup {r} /\ x.exported = job.exported
           /\ LET x == [job EXCEPT !.exported = @ \cup {r}]
              IN  /\ Marked(job, x) /\ x.imported = job.imported
                  /\ x.published = job.published /\ x.exported = job.exported \cup {r}
<1>1. /\ job.imported \cup {r} \in SUBSET Requests /\ job.published \cup {r} \in SUBSET Requests
      /\ job.exported \cup {r} \in SUBSET Requests
  BY DEF Job
<1>2. LET x == [job EXCEPT !.imported = @ \cup {r}]
      IN  /\ Marked(job, x) /\ x.imported = job.imported \cup {r}
          /\ x.published = job.published /\ x.exported = job.exported
  BY <1>1 DEF Marked, Job
<1>3. LET x == [job EXCEPT !.published = @ \cup {r}]
      IN  /\ Marked(job, x) /\ x.imported = job.imported
          /\ x.published = job.published \cup {r} /\ x.exported = job.exported
  BY <1>1 DEF Marked, Job
<1>4. LET x == [job EXCEPT !.exported = @ \cup {r}]
      IN  /\ Marked(job, x) /\ x.imported = job.imported
          /\ x.published = job.published /\ x.exported = job.exported \cup {r}
  BY <1>1 DEF Marked, Job
<1> QED BY <1>2, <1>3, <1>4

(* A marked job carries the same rows. *)
LEMMA MarkCarries ==
    ASSUME NEW job, NEW x, Marked(job, x), NEW s, NEW r, NEW y
    PROVE  Carries(x, s, r, y) <=> Carries(job, s, r, y)
  BY DEF Marked, Carries

(* Q differs from R in one cell. *)
Rewritten(R, Q, s, kind, r, row) ==
    /\ R \in [Cells -> Row] /\ <<s, kind, r>> \in Cells /\ row \in Row
    /\ Q = [R EXCEPT ![<<s, kind, r>>] = row]

(* Every other row stays. *)
OthersStay(R, Q, s, kind, r, row) ==
    /\ Q \in [Cells -> Row] /\ Q[<<s, kind, r>>] = row
    /\ \A c \in Cells : c # <<s, kind, r>> => Q[c] = R[c]
    /\ \A t \in Roles, m \in Requests :
         /\ kind # "result" \/ t # s \/ m # r => Res(Q, t, m) = Res(R, t, m)
         /\ kind # "host" \/ t # s \/ m # r => Host(Q, t, m) = Host(R, t, m)
         /\ kind # "import" \/ t # s \/ m # r => Import(Q, t, m) = Import(R, t, m)

(* One row is replaced, and all the others stay. *)
LEMMA RewrittenRows ==
    ASSUME NEW R, NEW Q, NEW s \in Roles, NEW kind \in Kinds, NEW r \in Requests, NEW row,
           Rewritten(R, Q, s, kind, r, row)
    PROVE  OthersStay(R, Q, s, kind, r, row)
<1>1. R \in [Cells -> Row] /\ <<s, kind, r>> \in Cells /\ row \in Row
      /\ Q = [R EXCEPT ![<<s, kind, r>>] = row]
  BY DEF Rewritten
<1>2. /\ Q \in [Cells -> Row] /\ Q[<<s, kind, r>>] = row
      /\ \A c \in Cells : c # <<s, kind, r>> => Q[c] = R[c]
  BY <1>1
<1>3. ASSUME NEW t \in Roles, NEW m \in Requests
      PROVE  /\ kind # "result" \/ t # s \/ m # r => Res(Q, t, m) = Res(R, t, m)
             /\ kind # "host" \/ t # s \/ m # r => Host(Q, t, m) = Host(R, t, m)
             /\ kind # "import" \/ t # s \/ m # r => Import(Q, t, m) = Import(R, t, m)
  <2>1. <<t, "result", m>> \in Cells /\ <<t, "host", m>> \in Cells /\ <<t, "import", m>> \in Cells
    BY CellNames
  <2> QED BY <1>2, <2>1 DEF Res, Host, Import
<1> QED BY <1>2, <1>3 DEF OthersStay

(* Import rows concern the ledger only. *)
LEMMA ImportRewritten ==
    ASSUME NEW e, NEW R, NEW J, NEW C, Good(e, R, J, C), NEW k \in DOMAIN J,
           NEW r \in Members(J[k].work), NEW row, NEW Q,
           Rewritten(R, Q, J[k].work.role, "import", r, row),
           row.round = J[k].work.round[r], row.work = k, row.version = J[k].work.source[r]
    PROVE  Good(e, Q, J, C)
<1> DEFINE s == J[k].work.role
           q == J[k].work.round[r]
<1>1. /\ k \in Keys /\ s \in Roles /\ r \in Requests /\ k \in DOMAIN e.records
      /\ e.records[k].work = J[k].work /\ e \in Engine
  <2>1. e \in Engine BY DEF Good, Typed
  <2> QED BY <2>1, JobFacts
<1>2. q \in Int /\ First(s) <= q /\ Authorises(e, k, s, r, q) BY MemberFacts
<1>3. /\ Q \in [Cells -> Row] /\ Import(Q, s, r) = row
      /\ \A t \in Roles, m \in Requests :
            /\ Res(Q, t, m) = Res(R, t, m) /\ Host(Q, t, m) = Host(R, t, m)
            /\ ~(t = s /\ m = r) => Import(Q, t, m) = Import(R, t, m)
  <2>1. "import" \in Kinds BY DEF Kinds
  <2> HIDE DEF s
  <2>2. Rewritten(R, Q, s, "import", r, row) BY DEF s
  <2>3. s \in Roles /\ r \in Requests BY <1>1
  <2>4. /\ Q \in [Cells -> Row] /\ Q[<<s, "import", r>>] = row
        /\ \A t \in Roles, m \in Requests :
             /\ Res(Q, t, m) = Res(R, t, m)
             /\ Host(Q, t, m) = Host(R, t, m)
             /\ ~(t = s /\ m = r) => Import(Q, t, m) = Import(R, t, m)
    <3> DEFINE kind == "import"
    <3>1. kind \in Kinds /\ kind # "result" /\ kind # "host" BY <2>1
    <3>2. Rewritten(R, Q, s, kind, r, row) BY <2>2
    <3>3. Q[<<s, kind, r>>] = row => Q[<<s, "import", r>>] = row OBVIOUS
    <3> HIDE DEF kind
    <3>4. OthersStay(R, Q, s, kind, r, row) BY <2>3, <3>1, <3>2, RewrittenRows
    <3> QED BY <3>1, <3>3, <3>4 DEF OthersStay
  <2> QED BY <2>4 DEF Import
<1>4. Typed(e, Q, J, C) BY <1>3 DEF Good, Typed
<1>5. Content(e, Q, J)
  <2>1. Content(e, R, J) BY DEF Good
  <2>2. ASSUME NEW m \in Requests, NEW t \in Roles, NEW x, Item(e, Q, J, t, m, x)
        PROVE  Item(e, R, J, t, m, x)
    BY <1>3, <2>2 DEF Item
  <2> QED BY <2>1, <2>2, ContentKept
<1>6. Frontier(e, Q)
  <2>0. "T" \in Roles /\ "D" \in Roles BY DEF Roles
  <2>1. ASSUME NEW m \in Requests, NEW t \in Roles PROVE Order(e, Q, t, m)
    BY <1>3 DEF Good, Frontier, Order
  <2>2. ASSUME NEW m \in Requests PROVE Chain(e, Q, m)
    BY <1>3, <2>0 DEF Good, Frontier, Chain
  <2>3. ASSUME NEW m \in Requests PROVE Told(e, m) BY DEF Good, Frontier
  <2> QED BY <2>1, <2>2, <2>3 DEF Frontier
<1>7. ASSUME NEW t \in Roles, NEW m \in Requests, NEW p \in Int, NEW j \in Keys, Bears(e, Q, t, m, p, j)
      PROVE  Bears(e, R, t, m, p, j)
  <2>1. CASE t = s /\ m = r /\ row.round = p /\ row.work = j BY <1>2, <2>1 DEF Bears
  <2>2. CASE ~(t = s /\ m = r /\ row.round = p /\ row.work = j)
    BY <1>3, <1>7, <2>2 DEF Bears
  <2> QED BY <2>1, <2>2
<1>8. OneOwner(e, Q)
  <2>1. OneOwner(e, R) BY DEF Good
  <2> QED BY <1>7, <2>1 DEF OneOwner
<1>9. ImportsMatch(e, Q)
  <2>1. ImportsMatch(e, R) BY DEF Good
  <2>2. ASSUME NEW t \in Roles, NEW m \in Requests
        PROVE  Import(Q, t, m) = NoFact \/ First(t) <= Import(Q, t, m).round
    <3>1. CASE t = s /\ m = r BY <1>2, <1>3, <3>1
    <3>2. CASE ~(t = s /\ m = r) BY <1>3, <2>1, <3>2 DEF ImportsMatch
    <3> QED BY <3>1, <3>2
  <2>3. ASSUME NEW j \in DOMAIN e.records, NEW m \in Members(e.records[j].work)
        PROVE  Imported(e.records[j].work, Import(Q, e.records[j].work.role, m), m)
    <3> DEFINE work == e.records[j].work
    <3>1. j \in Keys /\ work \in Work /\ m \in Requests BY <1>1, EngineRecords
    <3>2. work.role \in Roles BY <3>1, WorkFacts
    <3>3. CASE work.role = s /\ m = r
      <4>1. SUFFICES ASSUME work.round[r] = q PROVE work.source[r] = J[k].work.source[r]
        BY <1>3, <3>3 DEF Imported
      <4>2. Authorises(e, j, s, r, q) BY <3>3, <4>1 DEF Authorises
      <4>3. Bears(e, R, s, r, q, j) /\ Bears(e, R, s, r, q, k) BY <1>2, <4>2 DEF Bears
      <4>4. j = k BY <1>1, <1>2, <3>1, <4>3, Owner
      <4> QED BY <1>1, <4>4
    <3>4. CASE ~(work.role = s /\ m = r)
      BY <1>3, <2>1, <3>1, <3>2, <3>4 DEF ImportsMatch
    <3> QED BY <3>3, <3>4
  <2> QED BY <2>2, <2>3 DEF ImportsMatch
<1>10. Held(e, Q, J, C)
  <2>1. ASSUME NEW j \in DOMAIN e.records, NEW m \in Members(e.records[j].work)
        PROVE  Res(Q, e.records[j].work.role, m) = Res(R, e.records[j].work.role, m)
    <3>1. e.records[j].work \in Work /\ m \in Requests BY <1>1, EngineRecords
    <3>2. e.records[j].work.role \in Roles BY <3>1, WorkFacts
    <3> QED BY <1>3, <3>1, <3>2
  <2> QED BY <2>1 DEF Good, Held
<1>11. Kept(e, Q) BY <1>3 DEF Good, Kept
<1>12. ASSUME NEW j \in DOMAIN J PROVE JobSane(e, Q, j, J[j])
  <2>1. J[j].work.role \in Roles /\ Frozen(J[j].work) /\ Staged(J[j]) BY JobFacts
  <2>2. ASSUME NEW m \in Members(J[j].work)
        PROVE  /\ Placed(e, Q, J[j], m) /\ Captured(Q, J[j], m)
               /\ Continues(Q, J[j], m) /\ Produced(j, J[j], m)
    <3>1. /\ m \in Requests /\ Placed(e, R, J[j], m) /\ Captured(R, J[j], m)
          /\ Continues(R, J[j], m) /\ Produced(j, J[j], m)
      BY MemberFacts
    <3>2. Placed(e, Q, J[j], m) BY <1>3, <2>1, <3>1 DEF Placed
    <3>3. ASSUME NEW n \in Names PROVE Q[Watched(J[j], m, n)] = R[Watched(J[j], m, n)]
      <4>1. /\ Watched(J[j], m, "classified") = <<"T", "result", m>>
            /\ Watched(J[j], m, "source") = <<J[j].work.role, "host", m>>
            /\ Watched(J[j], m, "predecessor") = <<Other(J[j].work.role), "result", m>>
            /\ Other(J[j].work.role) \in Roles /\ "T" \in Roles
        BY <2>1, WatchedRow
      <4>2. Res(Q, "T", m) = Res(R, "T", m) /\ Host(Q, J[j].work.role, m) = Host(R, J[j].work.role, m)
            /\ Res(Q, Other(J[j].work.role), m) = Res(R, Other(J[j].work.role), m)
        BY <1>3, <2>1, <3>1, <4>1
      <4> QED BY <4>1, <4>2 DEF Names, Res, Host
    <3>4. Captured(Q, J[j], m) BY <3>1, <3>3 DEF Captured
    <3>5. Continues(Q, J[j], m)
      <4>1. "T" \in Roles BY DEF Roles
      <4>2. Res(Q, "T", m) = Res(R, "T", m) BY <1>3, <3>1, <4>1
      <4> QED BY <3>1, <4>2 DEF Continues
    <3> QED BY <3>1, <3>2, <3>4, <3>5
  <2> QED BY <2>1, <2>2 DEF JobSane
<1>13. Ledger(e, J, C) /\ Pending(e) BY DEF Good
<1> QED BY <1>4, <1>5, <1>6, <1>8, <1>9, <1>10, <1>11, <1>12, <1>13 DEF Good

(* A captured source is the KV that the WORK has frozen. *)
LEMMA SourceCaptured ==
    ASSUME NEW e, NEW R, NEW J, NEW C, Good(e, R, J, C), NEW k \in DOMAIN J,
           NEW r \in Live(J[k]), "source" \notin J[k].watch[r], ~J[k].work.initial
    PROVE  LET s == J[k].work.role
               q == J[k].work.round[r]
               got == J[k].got[r]["source"]
           IN  /\ got.round = q - 1 /\ got # NoFact /\ Item(e, R, J, s, r, got) /\ GoodRow(s, got)
               /\ got.version = J[k].work.source[r]
               /\ q - 1 <= Host(R, s, r).round
<1> DEFINE s == J[k].work.role
           q == J[k].work.round[r]
           got == J[k].got[r]["source"]
<1>0. "source" \in Names BY DEF Names
<1>1. r \in Members(J[k].work) BY DEF Live
<1>2. s \in Roles /\ Content(e, R, J) BY JobFacts DEF Good
<1>3. /\ r \in Requests /\ q \in Int /\ First(s) <= q /\ First(s) \in 0 .. 1
      /\ J[k].work.initial <=> q = First(s)
  BY <1>1, MemberFacts
<1>4. J[k].work.source[r] = Version(s, q - 1) BY <1>1, MemberFacts
<1>5. Captured(R, J[k], r) BY <1>1, MemberFacts
<1>6. Applies(J[k].work, "source") /\ Awaited(J[k].work, r, "source") = q - 1 BY DEF Applies, Awaited
<1>7. got.round = q - 1 /\ q - 1 <= R[Watched(J[k], r, "source")].round
  BY <1>0, <1>5, <1>6 DEF Captured
<1>8. R[Watched(J[k], r, "source")] = Host(R, s, r) BY DEF Watched, Host
<1>9. Item(e, R, J, s, r, got) BY <1>1 DEF Item, Carries
<1>10. GoodRow(s, got) BY <1>2, <1>3, <1>9, ItemRound
<1>11. First(s) <= q - 1 BY <1>3
<1>12. got # NoFact BY <1>3, <1>7, <1>11 DEF NoFact
<1>13. got.version = Version(s, q - 1) BY <1>7, <1>10, <1>12 DEF GoodRow
<1> QED BY <1>4, <1>7, <1>8, <1>9, <1>10, <1>12, <1>13

(* A job that is marked, with rows that have not changed. *)
LEMMA MarkGood ==
    ASSUME NEW e, NEW R, NEW J, NEW C, Good(e, R, J, C), NEW k \in DOMAIN J, NEW x,
           Marked(J[k], x), x.published = J[k].published, x.exported = J[k].exported,
           Staged(x), NEW K, K = [J EXCEPT ![k] = x]
    PROVE  Good(e, R, K, C)
<1>1. /\ x \in Job /\ x.work = J[k].work /\ x.watch = J[k].watch /\ x.got = J[k].got
      /\ x.skip = J[k].skip /\ x.computed = J[k].computed /\ x.out = J[k].out
  BY DEF Marked
<1>2. Content(e, R, K)
  <2>1. Content(e, R, J) BY DEF Good
  <2>2. ASSUME NEW m \in Requests, NEW t \in Roles, NEW y, Item(e, R, K, t, m, y)
        PROVE  Item(e, R, J, t, m, y)
    <3>1. ASSUME NEW j \in DOMAIN K, Carries(K[j], t, m, y) PROVE \E l \in DOMAIN J : Carries(J[l], t, m, y)
      <4>1. CASE j = k BY <3>1, <4>1, MarkCarries
      <4>2. CASE j # k BY <3>1, <4>2
      <4> QED BY <4>1, <4>2
    <3> QED BY <2>2, <3>1 DEF Item
  <2> QED BY <2>1, <2>2, ContentKept
<1>3. JobSane(e, R, k, x)
  <2>1. Frozen(x.work) BY <1>1, JobFacts
  <2>2. Live(x) = Live(J[k]) BY <1>1 DEF Live
  <2>3. ASSUME NEW m \in Members(x.work)
        PROVE  Placed(e, R, x, m) /\ Captured(R, x, m) /\ Continues(R, x, m) /\ Produced(k, x, m)
    <3>1. m \in Members(J[k].work) BY <1>1
    <3>2. Placed(e, R, J[k], m) /\ Captured(R, J[k], m) /\ Continues(R, J[k], m) /\ Produced(k, J[k], m)
      BY <3>1, MemberFacts
    <3>3. Placed(e, R, x, m) BY <1>1, <2>2, <3>2 DEF Placed
    <3>4. \A n \in Names : Watched(x, m, n) = Watched(J[k], m, n) BY <1>1 DEF Watched
    <3>5. Captured(R, x, m) BY <1>1, <2>2, <3>2, <3>4 DEF Captured
    <3>6. Continues(R, x, m) BY <1>1, <2>2, <3>2 DEF Continues
    <3>7. Produced(k, x, m) BY <1>1, <2>2, <3>2 DEF Produced
    <3> QED BY <3>3, <3>5, <3>6, <3>7
  <2> QED BY <2>1, <2>3 DEF JobSane
<1>4. J[k].published \subseteq x.published OBVIOUS
<1> QED BY <1>1, <1>2, <1>3, <1>4, JobChanges

(* The import row of WORK k for round q and version v of the source. *)
ImportFact(q, k, v) == [NoFact EXCEPT !.round = q, !.work = k, !.version = v]

(* What it holds. *)
LEMMA ImportRow ==
    ASSUME NEW q \in Int, NEW k \in Keys, NEW v \in Int
    PROVE  LET row == ImportFact(q, k, v)
           IN  row \in Row /\ row.round = q /\ row.work = k /\ row.version = v
<1>1. NoFact \in Row BY DEF NoFact, NoKey, Row, Keys
<1> DEFINE a == [NoFact EXCEPT !.round = q]
           b == [a EXCEPT !.work = k]
           c == [b EXCEPT !.version = v]
<1>2. a \in Row /\ a.round = q BY <1>1 DEF Row
<1> HIDE DEF a
<1>3. b \in Row /\ b.round = q /\ b.work = k BY <1>2 DEF Row
<1> HIDE DEF b
<1>4. c \in Row /\ c.round = q /\ c.work = k /\ c.version = v BY <1>3 DEF Row
<1> QED BY <1>4 DEF ImportFact, a, b

(* The import of a WORK keeps the invariant. *)
LEMMA ImportKeeps ==
    ASSUME PipelineInv, NEW k \in DOMAIN jobs, NEW r \in Members(jobs[k].work), PublishImport(k, r)
    PROVE  PipelineInv'
<1> DEFINE s == jobs[k].work.role
           q == jobs[k].work.round[r]
           v == jobs[k].got[r]["source"].version
           row == ImportFact(q, k, v)
           Q == [rows EXCEPT ![<<s, "import", r>>] = row]
           x == [jobs[k] EXCEPT !.imported = @ \cup {r}]
           K == [jobs EXCEPT ![k] = x]
<1>1. Good(eng, rows, jobs, completions) /\ failure = "none" BY DEF PipelineInv
<1>2. /\ rows' = Q /\ jobs' = K
      /\ eng' = eng /\ completions' = completions /\ failure' = failure
  BY DEF PublishImport, ImportFact
<1>3. /\ \A m \in Members(jobs[k].work) : jobs[k].watch[m] \subseteq {"predecessor"}
      /\ r \in Importing(jobs[k])
  BY DEF PublishImport
<1>4. r \in Live(jobs[k]) /\ ~jobs[k].work.initial BY <1>3 DEF Importing
<1>5. /\ jobs[k] \in Job /\ s \in Roles /\ r \in Requests /\ Staged(jobs[k]) /\ k \in Keys
  BY <1>1, JobFacts
<1>6. "source" \notin jobs[k].watch[r] BY <1>3
<1>7. jobs[k].got[r]["source"].version = jobs[k].work.source[r] BY <1>1, <1>4, <1>6, SourceCaptured
<1>8. q \in Int /\ jobs[k].work.source[r] \in Int BY <1>1, MemberFacts
<1>10. row \in Row /\ row.round = q /\ row.work = k /\ row.version = v
  <2>1. v \in Int /\ q \in Int /\ k \in Keys BY <1>5, <1>7, <1>8
  <2> HIDE DEF v, q
  <2> QED BY <2>1, ImportRow
<1>9. row.round = q /\ row.work = k /\ row.version = jobs[k].work.source[r] BY <1>7, <1>10
<1>11. rows \in [Cells -> Row] BY <1>1 DEF Good, Typed
<1>12. <<s, "import", r>> \in Cells BY <1>5, CellNames
<1> HIDE DEF row
<1>13. Rewritten(rows, Q, s, "import", r, row) BY <1>10, <1>11, <1>12 DEF Rewritten
<1> HIDE DEF Q
<1>14. Good(eng, Q, jobs, completions) BY <1>1, <1>9, <1>13, ImportRewritten
<1>15. Marked(jobs[k], x) /\ x.imported = jobs[k].imported \cup {r}
       /\ x.published = jobs[k].published /\ x.exported = jobs[k].exported
  BY <1>5, MarkFields
<1> HIDE DEF x
<1>16. Staged(x)
  <2>1. /\ x.work = jobs[k].work /\ x.watch = jobs[k].watch /\ x.got = jobs[k].got
        /\ x.skip = jobs[k].skip /\ x.computed = jobs[k].computed /\ x.out = jobs[k].out
    BY <1>15 DEF Marked
  <2>2. Live(x) = Live(jobs[k]) BY <2>1 DEF Live
  <2> QED BY <1>3, <1>4, <1>5, <1>15, <2>1, <2>2 DEF Staged
<1>17. Good(eng, Q, K, completions)
  <2>1. K = [jobs EXCEPT ![k] = x] OBVIOUS
  <2> HIDE DEF K
  <2> QED BY <1>14, <1>15, <1>16, <2>1, MarkGood
<1>18. Good(eng', rows', jobs', completions') BY <1>2, <1>17
<1> QED BY <1>1, <1>2, <1>18 DEF PipelineInv
-----------------------------------------------------------------------------
(***************************************************************************)
(* The publication of results and of host KV.                              *)
(***************************************************************************)
(* WORK k publishes its output for request r as a row of a kind: R becomes Q, and J
   becomes K. *)
Publication(e, R, J, C, k, r, s, q, out, kind, Q, x, K) ==
    /\ Good(e, R, J, C) /\ k \in DOMAIN J /\ J[k].computed /\ r \in Live(J[k])
    /\ s = J[k].work.role /\ q = J[k].work.round[r] /\ out = J[k].out[r]
    /\ \/ kind = "result" /\ r \notin J[k].published /\ x.published = J[k].published \cup {r}
          /\ x.exported = J[k].exported
       \/ kind = "host" /\ r \in J[k].published /\ r \notin J[k].exported
          /\ x.published = J[k].published /\ x.exported = J[k].exported \cup {r}
    /\ Rewritten(R, Q, s, kind, r, out)
    /\ Marked(J[k], x) /\ Staged(x) /\ K = [J EXCEPT ![k] = x]

(* Who publishes, and what. *)
Publisher(e, R, J, k, r, s, q, out) ==
    /\ s \in Roles /\ r \in Requests /\ q \in Int /\ First(s) <= q /\ k \in Keys /\ e \in Engine
    /\ r \in Members(J[k].work) /\ Authorises(e, k, s, r, q) /\ q <= IssuedRound(e, s, r)
    /\ out \in Row /\ out.round = q /\ out.work = k /\ out # NoFact
    /\ Item(e, R, J, s, r, out) /\ Carries(J[k], s, r, out) /\ GoodRow(s, out) /\ Last(s, out) = q
    /\ R \in [Cells -> Row]

(* The facts of a publication that its parts need. *)
LEMMA PublicationFacts ==
    ASSUME NEW e, NEW R, NEW J, NEW C, NEW k, NEW r, NEW s, NEW q, NEW out, NEW kind, NEW Q, NEW x, NEW K,
           Publication(e, R, J, C, k, r, s, q, out, kind, Q, x, K)
    PROVE  Publisher(e, R, J, k, r, s, q, out) /\ OthersStay(R, Q, s, kind, r, out)
<1>1. /\ Good(e, R, J, C) /\ k \in DOMAIN J /\ J[k].computed /\ r \in Live(J[k])
      /\ s = J[k].work.role /\ q = J[k].work.round[r] /\ out = J[k].out[r]
      /\ kind \in Kinds /\ Rewritten(R, Q, s, kind, r, out)
  BY DEF Publication, Kinds
<1>2. e \in Engine /\ R \in [Cells -> Row] /\ Content(e, R, J) BY <1>1 DEF Good, Typed
<1>3. r \in Members(J[k].work) BY <1>1 DEF Live
<1>4. k \in Keys /\ s \in Roles BY <1>1, JobFacts
<1>5. /\ r \in Requests /\ q \in Int /\ First(s) <= q /\ First(s) \in 0 .. 1
      /\ Authorises(e, k, s, r, q) /\ out \in Row
  BY <1>1, <1>3, MemberFacts
<1>6. Placed(e, R, J[k], r) /\ Produced(k, J[k], r) BY <1>1, <1>3, MemberFacts
<1>7. q <= IssuedRound(e, s, r) BY <1>1, <1>6 DEF Placed
<1>8. out.round = q /\ out.work = k BY <1>1, <1>6 DEF Produced
<1>9. Carries(J[k], s, r, out) BY <1>1, <1>3 DEF Carries
<1>10. Item(e, R, J, s, r, out) BY <1>1, <1>9 DEF Item
<1>11. GoodRow(s, out) BY <1>2, <1>4, <1>5, <1>10, ItemRound
<1>12. out # NoFact BY <1>5, <1>8 DEF NoFact
<1>13. Last(s, out) = q BY <1>5, <1>8 DEF Last
<1>14. Publisher(e, R, J, k, r, s, q, out)
  BY <1>2, <1>3, <1>4, <1>5, <1>7, <1>8, <1>9, <1>10, <1>11, <1>12, <1>13 DEF Publisher
<1>15. OthersStay(R, Q, s, kind, r, out) BY <1>1, <1>4, <1>5, RewrittenRows
<1> QED BY <1>14, <1>15

(* Contents are only copied. *)
LEMMA PublicationContent ==
    ASSUME NEW e, NEW R, NEW J, NEW C, NEW k, NEW r, NEW s, NEW q, NEW out, NEW kind, NEW Q, NEW x, NEW K,
           Publication(e, R, J, C, k, r, s, q, out, kind, Q, x, K)
    PROVE  Content(e, Q, K)
<1>1. Publisher(e, R, J, k, r, s, q, out) /\ OthersStay(R, Q, s, kind, r, out) BY PublicationFacts
<1>2. Content(e, R, J) /\ Marked(J[k], x) /\ K = [J EXCEPT ![k] = x] /\ k \in DOMAIN J
  BY DEF Publication, Good
<1>3. ASSUME NEW m \in Requests, NEW t \in Roles, NEW y, Item(e, Q, K, t, m, y)
      PROVE  Item(e, R, J, t, m, y)
  <2>1. ASSUME NEW j \in DOMAIN K, Carries(K[j], t, m, y) PROVE Item(e, R, J, t, m, y)
    <3>1. CASE j = k
      <4>1. Carries(J[k], t, m, y) BY <1>2, <2>1, <3>1, MarkCarries
      <4> QED BY <1>2, <4>1 DEF Item
    <3>2. CASE j # k BY <1>2, <2>1, <3>2 DEF Item
    <3> QED BY <3>1, <3>2
  <2>2. CASE y = Result(e, t, m) BY <2>2 DEF Item
  <2>3. Res(Q, t, m) \in {Res(R, t, m), out} /\ (~(t = s /\ m = r) => Res(Q, t, m) = Res(R, t, m))
    <3>1. CASE kind = "result" /\ t = s /\ m = r BY <1>1, <3>1 DEF OthersStay, Res
    <3>2. CASE ~(kind = "result" /\ t = s /\ m = r) BY <1>1, <3>2 DEF OthersStay
    <3> QED BY <3>1, <3>2
  <2>4. Host(Q, t, m) \in {Host(R, t, m), out} /\ (~(t = s /\ m = r) => Host(Q, t, m) = Host(R, t, m))
    <3>1. CASE kind = "host" /\ t = s /\ m = r BY <1>1, <3>1 DEF OthersStay, Host
    <3>2. CASE ~(kind = "host" /\ t = s /\ m = r) BY <1>1, <3>2 DEF OthersStay
    <3> QED BY <3>1, <3>2
  <2>5. CASE y \in {Res(Q, t, m), Host(Q, t, m)}
    <3>1. CASE t = s /\ m = r
      <4>1. y = out \/ y \in {Res(R, t, m), Host(R, t, m)} BY <2>3, <2>4, <2>5
      <4>2. Item(e, R, J, s, r, out) BY <1>1 DEF Publisher
      <4> QED BY <3>1, <4>1, <4>2 DEF Item
    <3>2. CASE ~(t = s /\ m = r) BY <2>3, <2>4, <2>5, <3>2 DEF Item
    <3> QED BY <3>1, <3>2
  <2> QED BY <1>3, <2>1, <2>2, <2>5 DEF Item
<1> QED BY <1>2, <1>3, ContentKept

(* Nobody new answers for a round. *)
LEMMA PublicationOwner ==
    ASSUME NEW e, NEW R, NEW J, NEW C, NEW k, NEW r, NEW s, NEW q, NEW out, NEW kind, NEW Q, NEW x, NEW K,
           Publication(e, R, J, C, k, r, s, q, out, kind, Q, x, K)
    PROVE  OneOwner(e, Q) /\ ImportsMatch(e, Q)
<1>1. Publisher(e, R, J, k, r, s, q, out) /\ OthersStay(R, Q, s, kind, r, out) BY PublicationFacts
<1>2. OneOwner(e, R) /\ ImportsMatch(e, R) /\ kind \in {"result", "host"} BY DEF Publication, Good
<1>3. ASSUME NEW t \in Roles, NEW m \in Requests, NEW p \in Int, NEW j \in Keys, Bears(e, Q, t, m, p, j)
      PROVE  Bears(e, R, t, m, p, j)
  <2>1. CASE t = s /\ m = r /\ p = q /\ j = k BY <1>1, <2>1 DEF Bears, Publisher
  <2>2. CASE ~(t = s /\ m = r /\ p = q /\ j = k)
    <3>1. out.round = q /\ out.work = k BY <1>1 DEF Publisher
    <3>2. Res(Q, t, m) = Res(R, t, m) \/ (t = s /\ m = r /\ Res(Q, t, m) = out)
      BY <1>1 DEF OthersStay, Res
    <3>3. Host(Q, t, m) = Host(R, t, m) \/ (t = s /\ m = r /\ Host(Q, t, m) = out)
      BY <1>1 DEF OthersStay, Host
    <3>4. Import(Q, t, m) = Import(R, t, m) BY <1>1, <1>2 DEF OthersStay
    <3> QED BY <1>3, <2>2, <3>1, <3>2, <3>3, <3>4 DEF Bears
  <2> QED BY <2>1, <2>2
<1>4. OneOwner(e, Q) BY <1>2, <1>3 DEF OneOwner
<1>5. ASSUME NEW t \in Roles, NEW m \in Requests PROVE Import(Q, t, m) = Import(R, t, m)
  BY <1>1, <1>2 DEF OthersStay
<1>6. \A j \in DOMAIN e.records : e.records[j].work.role \in Roles /\ Members(e.records[j].work) \subseteq Requests
  <2> TAKE j \in DOMAIN e.records
  <2>1. e.records[j].work \in Work /\ e \in Engine BY <1>1, EngineRecords DEF Publisher
  <2> QED BY <2>1, WorkFacts
<1>7. ImportsMatch(e, Q)
  <2>1. \A t \in Roles, m \in Requests :
            Import(Q, t, m) = NoFact \/ First(t) <= Import(Q, t, m).round
    BY <1>2, <1>5 DEF ImportsMatch
  <2>2. ASSUME NEW j \in DOMAIN e.records, NEW m \in Members(e.records[j].work)
        PROVE  Imported(e.records[j].work, Import(Q, e.records[j].work.role, m), m)
    <3>1. e.records[j].work.role \in Roles /\ m \in Requests BY <1>6
    <3>2. Import(Q, e.records[j].work.role, m) = Import(R, e.records[j].work.role, m) BY <1>5, <3>1
    <3> QED BY <1>2, <3>2 DEF ImportsMatch
  <2> QED BY <2>1, <2>2 DEF ImportsMatch
<1> QED BY <1>4, <1>7

(* Records and publications. *)
LEMMA PublicationHeld ==
    ASSUME NEW e, NEW R, NEW J, NEW C, NEW k, NEW r, NEW s, NEW q, NEW out, NEW kind, NEW Q, NEW x, NEW K,
           Publication(e, R, J, C, k, r, s, q, out, kind, Q, x, K)
    PROVE  Ledger(e, K, C) /\ Held(e, Q, K, C) /\ Kept(e, Q)
<1>1. Publisher(e, R, J, k, r, s, q, out) /\ OthersStay(R, Q, s, kind, r, out) BY PublicationFacts
<1>2. /\ Ledger(e, J, C) /\ Held(e, R, J, C) /\ Kept(e, R) /\ k \in DOMAIN J
      /\ s = J[k].work.role /\ Marked(J[k], x) /\ K = [J EXCEPT ![k] = x]
  BY DEF Publication, Good
<1>3. DOMAIN K = DOMAIN J /\ K[k] = x /\ \A j \in DOMAIN J : j # k => K[j] = J[j] BY <1>2
<1>4. J[k].published \subseteq x.published /\ x.work = J[k].work
      /\ (kind = "result" => r \in x.published) /\ kind \in {"result", "host"}
  BY DEF Publication, Marked
<1>5. \A j \in DOMAIN J : K[j].work = J[j].work /\ J[j].published \subseteq K[j].published
  BY <1>3, <1>4
<1>6. Ledger(e, K, C) BY <1>2, <1>3, <1>5 DEF Ledger
<1>7. \A j \in DOMAIN e.records : e.records[j].work.role \in Roles /\ Members(e.records[j].work) \subseteq Requests
  <2> TAKE j \in DOMAIN e.records
  <2>1. e.records[j].work \in Work /\ e \in Engine BY <1>1, EngineRecords DEF Publisher
  <2> QED BY <2>1, WorkFacts
<1>8. out.round = q /\ out.work = k /\ Authorises(e, k, s, r, q) BY <1>1 DEF Publisher
<1>9. ASSUME NEW t \in Roles, NEW m \in Requests
      PROVE  Res(Q, t, m) = Res(R, t, m) \/ (kind = "result" /\ t = s /\ m = r /\ Res(Q, t, m) = out)
  BY <1>1 DEF OthersStay, Res
<1>10. Held(e, Q, K, C)
  <2>1. ASSUME NEW j \in DOMAIN e.records, NEW m \in Members(e.records[j].work),
               Res(Q, e.records[j].work.role, m).work = j,
               Res(Q, e.records[j].work.role, m).round = e.records[j].work.round[m]
        PROVE  \/ j \in DOMAIN K /\ m \in K[j].published
               \/ j \in DOMAIN C /\ m \in C[j]
    <3>1. e.records[j].work.role \in Roles /\ m \in Requests BY <1>7
    <3>2. CASE Res(Q, e.records[j].work.role, m) = Res(R, e.records[j].work.role, m)
      <4>1. \/ j \in DOMAIN J /\ m \in J[j].published
            \/ j \in DOMAIN C /\ m \in C[j]
        BY <1>2, <2>1, <3>2 DEF Held
      <4> QED BY <1>3, <1>5, <4>1
    <3>3. CASE kind = "result" /\ m = r /\ Res(Q, e.records[j].work.role, m) = out
      <4>1. j = k BY <1>8, <2>1, <3>3
      <4> QED BY <1>2, <1>3, <1>4, <3>3, <4>1
    <3> QED BY <1>9, <3>1, <3>2, <3>3
  <2> QED BY <2>1 DEF Held
<1>11. Kept(e, Q)
  <2>1. ASSUME NEW t \in Roles, NEW m \in Requests, Result(e, t, m).round # Res(Q, t, m).round
        PROVE  Authorises(e, Res(Q, t, m).work, t, m, Res(Q, t, m).round)
    <3>1. CASE Res(Q, t, m) = Res(R, t, m) BY <1>2, <2>1, <3>1 DEF Kept
    <3>2. CASE t = s /\ m = r /\ Res(Q, t, m) = out BY <1>8, <3>2
    <3> QED BY <1>9, <3>1, <3>2
  <2> QED BY <2>1 DEF Kept
<1> QED BY <1>6, <1>10, <1>11

(* Where the row that is replaced stood. *)
Before(e, R, J, k, r, s, q, kind) ==
    /\ kind = "result" => Last(s, Res(R, s, r)) = q - 1 /\ Res(R, s, r).round <= q - 1
    /\ kind = "host" => /\ Last(s, Host(R, s, r)) < q /\ Host(R, s, r).round < q
                        /\ q <= Last(s, Res(R, s, r))
    /\ s = "T" /\ ~J[k].work.initial => q <= Res(R, "D", r).round
    /\ s = "D" => q - 1 <= Res(R, "T", r).round
    /\ ~J[k].work.initial => q - 1 <= Last(s, Host(R, s, r))
    /\ J[k].work.initial <=> q = First(s)

(* A publication replaces the row of the round before. *)
LEMMA PublicationBefore ==
    ASSUME NEW e, NEW R, NEW J, NEW C, NEW k, NEW r, NEW s, NEW q, NEW out, NEW kind, NEW Q, NEW x, NEW K,
           Publication(e, R, J, C, k, r, s, q, out, kind, Q, x, K)
    PROVE  Before(e, R, J, k, r, s, q, kind)
<1>1. Publisher(e, R, J, k, r, s, q, out) BY PublicationFacts
<1>2. /\ Good(e, R, J, C) /\ k \in DOMAIN J /\ J[k].computed /\ r \in Live(J[k])
      /\ s = J[k].work.role /\ q = J[k].work.round[r]
      /\ kind = "result" => r \notin J[k].published
      /\ kind = "host" => r \in J[k].published /\ r \notin J[k].exported
  BY DEF Publication
<1>3. s \in Roles /\ r \in Requests /\ q \in Int /\ e \in Engine /\ r \in Members(J[k].work)
      /\ R \in [Cells -> Row] /\ Content(e, R, J)
  BY <1>1, <1>2 DEF Publisher, Good
<1>4. Placed(e, R, J[k], r) /\ Captured(R, J[k], r) /\ (J[k].work.initial <=> q = First(s))
      /\ J[k].work.initial \in BOOLEAN
  BY <1>2, <1>3, MemberFacts
<1>5. J[k].watch[r] = {} /\ Staged(J[k])
  <2>1. Staged(J[k]) BY <1>2, JobFacts
  <2> QED BY <1>2, <1>3, <2>1 DEF Staged
<1>6. /\ Res(R, s, r).round \in Int /\ Host(R, s, r).round \in Int
      /\ Last(s, Res(R, s, r)) \in Int /\ Res(R, s, r).round <= Last(s, Res(R, s, r))
      /\ Last(s, Host(R, s, r)) \in Int /\ Host(R, s, r).round <= Last(s, Host(R, s, r))
  <2>1. Item(e, R, J, s, r, Res(R, s, r)) /\ Item(e, R, J, s, r, Host(R, s, r)) BY DEF Item
  <2>2. /\ Res(R, s, r).round \in Int /\ Host(R, s, r).round \in Int BY <1>3, RowTypes
  <2>3. /\ Last(s, Res(R, s, r)) \in Int /\ Res(R, s, r).round <= Last(s, Res(R, s, r))
    BY <1>3, <2>1, LastRound
  <2>4. /\ Last(s, Host(R, s, r)) \in Int /\ Host(R, s, r).round <= Last(s, Host(R, s, r))
    BY <1>3, <2>1, LastRound
  <2> QED BY <2>2, <2>3, <2>4
<1>7. kind = "result" => Last(s, Res(R, s, r)) = q - 1 /\ Res(R, s, r).round <= q - 1
  <2>1. kind = "result" => Last(s, Res(R, s, r)) = q - 1 BY <1>2, <1>4 DEF Placed
  <2> QED BY <1>3, <1>6, <2>1
<1>8. kind = "host" => /\ Last(s, Host(R, s, r)) < q /\ Host(R, s, r).round < q
                       /\ q <= Last(s, Res(R, s, r))
  <2>1. kind = "host" => Last(s, Host(R, s, r)) < q /\ q <= Last(s, Res(R, s, r)) BY <1>2, <1>4 DEF Placed
  <2> QED BY <1>3, <1>6, <2>1
<1>9. "predecessor" \in Names /\ "source" \in Names BY DEF Names
<1>10. s = "T" /\ ~J[k].work.initial => q <= Res(R, "D", r).round
  <2> HAVE s = "T" /\ ~J[k].work.initial
  <2>1. Applies(J[k].work, "predecessor") /\ Awaited(J[k].work, r, "predecessor") = q
    BY <1>2 DEF Applies, Awaited
  <2>2. R[Watched(J[k], r, "predecessor")] = Res(R, "D", r) BY <1>2, <1>3, WatchedRow DEF Res, Other
  <2>3. Awaited(J[k].work, r, "predecessor") <= R[Watched(J[k], r, "predecessor")].round
    BY <1>2, <1>4, <1>5, <1>9, <2>1 DEF Captured
  <2> QED BY <2>1, <2>2, <2>3
<1>11. s = "D" => q - 1 <= Res(R, "T", r).round
  <2> HAVE s = "D"
  <2>1. Applies(J[k].work, "predecessor") /\ Awaited(J[k].work, r, "predecessor") = q - 1
    BY <1>2 DEF Applies, Awaited
  <2>2. R[Watched(J[k], r, "predecessor")] = Res(R, "T", r) BY <1>2, <1>3, WatchedRow DEF Res, Other
  <2>3. Awaited(J[k].work, r, "predecessor") <= R[Watched(J[k], r, "predecessor")].round
    BY <1>2, <1>4, <1>5, <1>9, <2>1 DEF Captured
  <2> QED BY <2>1, <2>2, <2>3
<1>12. ~J[k].work.initial => q - 1 <= Last(s, Host(R, s, r))
  <2> HAVE ~J[k].work.initial
  <2>1. "source" \notin J[k].watch[r] BY <1>5
  <2>2. q - 1 <= Host(R, s, r).round BY <1>2, <2>1, SourceCaptured
  <2> QED BY <1>3, <1>6, <2>2
<1> QED BY <1>4, <1>7, <1>8, <1>10, <1>11, <1>12 DEF Before

(* Host KV follows results, results follow authorisations, and Draft follows Target. *)
LEMMA PublicationFrontier ==
    ASSUME NEW e, NEW R, NEW J, NEW C, NEW k, NEW r, NEW s, NEW q, NEW out, NEW kind, NEW Q, NEW x, NEW K,
           Publication(e, R, J, C, k, r, s, q, out, kind, Q, x, K)
    PROVE  Frontier(e, Q)
<1>1. Publisher(e, R, J, k, r, s, q, out) /\ OthersStay(R, Q, s, kind, r, out) BY PublicationFacts
<1>2. Before(e, R, J, k, r, s, q, kind) BY PublicationBefore
<1>3. /\ Frontier(e, R) /\ Content(e, R, J) /\ kind \in {"result", "host"} BY DEF Publication, Good
<1>4. /\ s \in Roles /\ r \in Requests /\ q \in Int /\ e \in Engine /\ R \in [Cells -> Row]
      /\ out.round = q /\ Last(s, out) = q /\ q <= IssuedRound(e, s, r) /\ First(s) <= q
  BY <1>1 DEF Publisher
<1>5. /\ kind = "result" => Res(Q, s, r) = out
      /\ kind = "host" => Host(Q, s, r) = out
      /\ kind = "result" => \A t \in Roles, m \in Requests :
            Host(Q, t, m) = Host(R, t, m) /\ (~(t = s /\ m = r) => Res(Q, t, m) = Res(R, t, m))
      /\ kind = "host" => \A t \in Roles, m \in Requests :
            Res(Q, t, m) = Res(R, t, m) /\ (~(t = s /\ m = r) => Host(Q, t, m) = Host(R, t, m))
  BY <1>1 DEF OthersStay, Res, Host
<1>6. ASSUME NEW t \in Roles, NEW m \in Requests
      PROVE  /\ Order(e, R, t, m) /\ Chain(e, R, m) /\ Told(e, m)
             /\ Last(t, Res(R, t, m)) \in Int /\ Last(t, Host(R, t, m)) \in Int
             /\ Last(t, Result(e, t, m)) \in Int /\ IssuedRound(e, t, m) \in Int
             /\ Res(R, t, m).round \in Int /\ Res(R, t, m).round <= Last(t, Res(R, t, m))
             /\ First(t) - 1 <= Last(t, Res(R, t, m))
             /\ First(t) \in 0 .. 1
  <2>1. Item(e, R, J, t, m, Res(R, t, m)) /\ Item(e, R, J, t, m, Host(R, t, m))
        /\ Item(e, R, J, t, m, Result(e, t, m))
    BY DEF Item
  <2>2. Order(e, R, t, m) /\ Chain(e, R, m) /\ Told(e, m) BY <1>3 DEF Frontier
  <2>3. /\ Last(t, Res(R, t, m)) \in Int /\ Res(R, t, m).round \in Int /\ First(t) \in 0 .. 1
        /\ Res(R, t, m).round <= Last(t, Res(R, t, m)) /\ First(t) - 1 <= Last(t, Res(R, t, m))
    BY <1>3, <2>1, LastRound
  <2>4. Last(t, Host(R, t, m)) \in Int BY <1>3, <2>1, LastRound
  <2>5. Last(t, Result(e, t, m)) \in Int BY <1>3, <2>1, LastRound
  <2>6. IssuedRound(e, t, m) \in Int BY <1>4, RowTypes
  <2> QED BY <2>2, <2>3, <2>4, <2>5, <2>6
<1>7. ASSUME NEW t \in Roles, NEW m \in Requests PROVE Order(e, Q, t, m)
  <2>1. CASE ~(t = s /\ m = r)
    <3>1. Res(Q, t, m) = Res(R, t, m) /\ Host(Q, t, m) = Host(R, t, m) BY <1>3, <1>5, <2>1
    <3> QED BY <1>6, <3>1 DEF Order
  <2>2. CASE t = s /\ m = r /\ kind = "result"
    <3>1. Res(Q, t, m) = out /\ Host(Q, t, m) = Host(R, t, m) BY <1>5, <2>2
    <3>2. Last(t, Res(Q, t, m)) = q /\ Last(t, Res(R, t, m)) = q - 1 BY <1>2, <1>4, <2>2, <3>1 DEF Before
    <3>3. q <= IssuedRound(e, t, m) BY <1>4, <2>2
    <3> QED BY <1>4, <1>6, <3>1, <3>2, <3>3 DEF Order
  <2>3. CASE t = s /\ m = r /\ kind = "host"
    <3>1. Host(Q, t, m) = out /\ Res(Q, t, m) = Res(R, t, m) BY <1>5, <2>3
    <3>2. Last(t, Host(Q, t, m)) = q /\ q <= Last(t, Res(R, t, m)) BY <1>2, <1>4, <2>3, <3>1 DEF Before
    <3> QED BY <1>6, <3>1, <3>2 DEF Order
  <2> QED BY <1>3, <2>1, <2>2, <2>3
<1>8. ASSUME NEW m \in Requests PROVE Chain(e, Q, m)
  <2>0. "T" \in Roles /\ "D" \in Roles BY DEF Roles
  <2>1. CASE m # r \/ kind = "host"
    <3>1. Res(Q, "T", m) = Res(R, "T", m) /\ Res(Q, "D", m) = Res(R, "D", m)
      BY <1>3, <1>5, <2>0, <2>1
    <3> QED BY <1>6, <2>0, <3>1 DEF Chain
  <2>2. CASE m = r /\ kind = "result" /\ s = "T"
    <3>1. Res(Q, "T", r).round = q /\ Res(Q, "D", r) = Res(R, "D", r)
      BY <1>4, <1>5, <2>0, <2>2
    <3>2. Last("T", Res(R, "T", r)) = q - 1 /\ Res(R, "T", r).round <= q - 1 BY <1>2, <2>2 DEF Before
    <3>3. q <= Last("D", Res(R, "D", r))
      <4>1. CASE q = First(s)
        <5>1. First("D") - 1 <= Last("D", Res(R, "D", r)) BY <1>6, <1>4, <2>0
        <5> QED BY <2>2, <4>1, <5>1 DEF First
      <4>2. CASE q # First(s)
        <5>1. q <= Res(R, "D", r).round BY <1>2, <2>2, <4>2 DEF Before
        <5>2. /\ Res(R, "D", r).round <= Last("D", Res(R, "D", r))
              /\ Res(R, "D", r).round \in Int /\ Last("D", Res(R, "D", r)) \in Int
          BY <1>4, <1>6, <2>0
        <5> QED BY <1>4, <5>1, <5>2
      <4> QED BY <4>1, <4>2
    <3>4. Last("D", Res(R, "D", r)) <= q + 1
      <4>1. Last("D", Res(R, "D", r)) <= Res(R, "T", r).round + 1 BY <1>4, <1>6, <2>0 DEF Chain
      <4>2. Res(R, "T", r).round \in Int /\ Last("D", Res(R, "D", r)) \in Int BY <1>4, <1>6, <2>0
      <4> QED BY <1>4, <3>2, <4>1, <4>2
    <3>5. Chain(e, R, r) BY <1>4, <1>6
    <3> QED BY <2>2, <3>1, <3>3, <3>4, <3>5 DEF Chain
  <2>3. CASE m = r /\ kind = "result" /\ s = "D"
    <3>1. Last("D", Res(Q, "D", r)) = q /\ Res(Q, "T", r) = Res(R, "T", r)
      BY <1>4, <1>5, <2>0, <2>3
    <3>2. Last("D", Res(R, "D", r)) = q - 1 BY <1>2, <2>3 DEF Before
    <3>3. q - 1 <= Res(R, "T", r).round BY <1>2, <2>3 DEF Before
    <3>4. Chain(e, R, r) /\ Res(R, "T", r).round \in Int BY <1>4, <1>6, <2>0
    <3>5. Res(R, "T", r).round <= q BY <1>4, <3>2, <3>4 DEF Chain
    <3>6. q <= Res(R, "T", r).round + 1 BY <1>4, <3>3, <3>4
    <3> QED BY <2>3, <3>1, <3>4, <3>5, <3>6 DEF Chain
  <2> QED BY <1>3, <1>4, <2>1, <2>2, <2>3 DEF Roles
<1>9. ASSUME NEW m \in Requests PROVE Told(e, m) BY <1>3 DEF Frontier
<1> QED BY <1>7, <1>8, <1>9 DEF Frontier

(* Rows only grow. *)
LEMMA PublicationGrows ==
    ASSUME NEW e, NEW R, NEW J, NEW C, NEW k, NEW r, NEW s, NEW q, NEW out, NEW kind, NEW Q, NEW x, NEW K,
           Publication(e, R, J, C, k, r, s, q, out, kind, Q, x, K)
    PROVE  \A c \in Cells : R[c].round \in Int /\ Q[c].round \in Int /\ R[c].round <= Q[c].round
<1>1. Publisher(e, R, J, k, r, s, q, out) /\ OthersStay(R, Q, s, kind, r, out) BY PublicationFacts
<1>2. Before(e, R, J, k, r, s, q, kind) BY PublicationBefore
<1>3. kind \in {"result", "host"} BY DEF Publication
<1>4. R \in [Cells -> Row] /\ Q \in [Cells -> Row] /\ q \in Int /\ out.round = q
  BY <1>1 DEF Publisher, OthersStay
<1>5. ASSUME NEW c \in Cells PROVE R[c].round \in Int /\ Q[c].round \in Int /\ R[c].round <= Q[c].round
  <2>1. R[c].round \in Int /\ Q[c].round \in Int BY <1>4 DEF Row
  <2>2. CASE c # <<s, kind, r>>
    <3>1. Q[c] = R[c] BY <1>1, <2>2 DEF OthersStay
    <3> QED BY <2>1, <3>1
  <2>3. CASE c = <<s, kind, r>>
    <3>1. Q[c] = out BY <1>1, <2>3 DEF OthersStay
    <3>2. R[c].round <= q
      <4>1. CASE kind = "result"
        <5>1. R[c].round <= q - 1 BY <1>2, <2>3, <4>1 DEF Before, Res
        <5> QED BY <1>4, <2>1, <5>1
      <4>2. CASE kind = "host"
        <5>1. R[c].round < q BY <1>2, <2>3, <4>2 DEF Before, Host
        <5> QED BY <1>4, <2>1, <5>1
      <4> QED BY <1>3, <4>1, <4>2
    <3> QED BY <1>4, <2>1, <3>1, <3>2
  <2> QED BY <2>2, <2>3
<1> QED BY <1>5

(* What has been captured stays captured when rows grow. *)
LEMMA CapturedGrows ==
    ASSUME NEW R, NEW Q, \A c \in Cells : R[c].round \in Int /\ Q[c].round \in Int /\ R[c].round <= Q[c].round,
           NEW job, job.work.role \in Roles, NEW m \in Requests, job.work.round[m] \in Int,
           job.got[m] \in [Names -> Row], Captured(R, job, m),
           NEW x, x.work = job.work, x.watch = job.watch, x.got = job.got, x.skip = job.skip,
           x.computed = job.computed
    PROVE  Captured(Q, x, m)
<1> SUFFICES ASSUME NEW n \in Names
             PROVE  LET row == Q[Watched(x, m, n)] IN
                    /\ x.got[m][n].round <= row.round
                    /\ (m \in Live(x) /\ n \notin x.watch[m] /\ Applies(x.work, n)) =>
                           /\ Awaited(x.work, m, n) <= row.round
                           /\ ~x.computed \/ n = "source" => x.got[m][n].round = Awaited(x.work, m, n)
  BY DEF Captured
<1>1. Watched(x, m, n) = Watched(job, m, n) /\ Live(x) = Live(job) BY DEF Watched, Live
<1>2. Watched(job, m, n) \in Cells
  <2>1. /\ Watched(job, m, "classified") = <<"T", "result", m>>
        /\ Watched(job, m, "source") = <<job.work.role, "host", m>>
        /\ Watched(job, m, "predecessor") = <<Other(job.work.role), "result", m>>
        /\ Other(job.work.role) \in Roles /\ "T" \in Roles
    BY WatchedRow
  <2>2. /\ <<"T", "result", m>> \in Cells /\ <<job.work.role, "host", m>> \in Cells
        /\ <<Other(job.work.role), "result", m>> \in Cells
    BY <2>1, CellNames
  <2> QED BY <2>1, <2>2 DEF Names
<1>3. /\ job.got[m][n].round <= R[Watched(job, m, n)].round
      /\ (m \in Live(job) /\ n \notin job.watch[m] /\ Applies(job.work, n)) =>
             /\ Awaited(job.work, m, n) <= R[Watched(job, m, n)].round
             /\ ~job.computed \/ n = "source" => job.got[m][n].round = Awaited(job.work, m, n)
  BY DEF Captured
<1>4. job.got[m][n].round \in Int /\ Awaited(job.work, m, n) \in Int
  <2>1. job.got[m][n] \in Row OBVIOUS
  <2> QED BY <2>1 DEF Row, Awaited
<1>5. /\ R[Watched(job, m, n)].round \in Int /\ Q[Watched(job, m, n)].round \in Int
      /\ R[Watched(job, m, n)].round <= Q[Watched(job, m, n)].round
  BY <1>2
<1>6. job.got[m][n].round <= Q[Watched(job, m, n)].round BY <1>3, <1>4, <1>5
<1>7. Awaited(job.work, m, n) <= R[Watched(job, m, n)].round =>
          Awaited(job.work, m, n) <= Q[Watched(job, m, n)].round
  BY <1>4, <1>5
<1> QED BY <1>1, <1>3, <1>6, <1>7

(* The job that publishes. *)
LEMMA PublicationSelf ==
    ASSUME NEW e, NEW R, NEW J, NEW C, NEW k, NEW r, NEW s, NEW q, NEW out, NEW kind, NEW Q, NEW x, NEW K,
           Publication(e, R, J, C, k, r, s, q, out, kind, Q, x, K)
    PROVE  JobSane(e, Q, k, x)
<1>1. Publisher(e, R, J, k, r, s, q, out) /\ OthersStay(R, Q, s, kind, r, out) BY PublicationFacts
<1>2. Before(e, R, J, k, r, s, q, kind) BY PublicationBefore
<1>3. /\ Good(e, R, J, C) /\ k \in DOMAIN J /\ r \in Live(J[k])
      /\ s = J[k].work.role /\ q = J[k].work.round[r] /\ Staged(x) /\ kind \in {"result", "host"}
      /\ kind = "result" => /\ x.published = J[k].published \cup {r} /\ x.exported = J[k].exported
                            /\ r \notin J[k].published
      /\ kind = "host" => /\ x.published = J[k].published /\ x.exported = J[k].exported \cup {r}
                          /\ r \in J[k].published /\ r \notin J[k].exported
  BY DEF Publication
<1>4. /\ x.work = J[k].work /\ x.watch = J[k].watch /\ x.got = J[k].got
      /\ x.skip = J[k].skip /\ x.computed = J[k].computed /\ x.out = J[k].out
  BY DEF Publication, Marked
<1>5. Live(x) = Live(J[k]) BY <1>4 DEF Live
<1>6. /\ s \in Roles /\ q \in Int /\ out.round = q /\ Last(s, out) = q /\ r \in Requests
  BY <1>1 DEF Publisher
<1>7. Frozen(J[k].work) /\ Staged(J[k]) /\ Members(J[k].work) \subseteq Requests BY <1>3, JobFacts
<1>8. \A c \in Cells : R[c].round \in Int /\ Q[c].round \in Int /\ R[c].round <= Q[c].round
  BY PublicationGrows
<1>9. ASSUME NEW m \in Members(x.work)
      PROVE  Placed(e, Q, x, m) /\ Captured(Q, x, m) /\ Continues(Q, x, m) /\ Produced(k, x, m)
  <2>1. m \in Members(J[k].work) /\ m \in Requests BY <1>4, <1>7
  <2>2. /\ Placed(e, R, J[k], m) /\ Captured(R, J[k], m) /\ Continues(R, J[k], m) /\ Produced(k, J[k], m)
        /\ J[k].got[m] \in [Names -> Row] /\ J[k].work.round[m] \in Int
    BY <1>3, <2>1, MemberFacts
  <2>3. Captured(Q, x, m) BY <1>3, <1>4, <1>6, <1>8, <2>1, <2>2, CapturedGrows
  <2>4. Produced(k, x, m) BY <1>4, <1>5, <2>2 DEF Produced
  <2>5. CASE m # r
    <3>1. /\ Res(Q, s, m) = Res(R, s, m) /\ Host(Q, s, m) = Host(R, s, m)
      BY <1>1, <1>6, <2>1, <2>5 DEF OthersStay
    <3>2. Res(Q, "T", m) = Res(R, "T", m)
      <4>1. "T" \in Roles BY DEF Roles
      <4> QED BY <1>1, <2>1, <2>5, <4>1 DEF OthersStay
    <3>3. (m \in x.published <=> m \in J[k].published) /\ (m \in x.exported <=> m \in J[k].exported)
      BY <1>3, <2>5
    <3>4. Placed(e, Q, x, m) BY <1>3, <1>4, <1>5, <2>2, <3>1, <3>3 DEF Placed
    <3>5. Continues(Q, x, m) BY <1>4, <1>5, <2>2, <3>2, <3>3 DEF Continues
    <3> QED BY <2>3, <2>4, <3>4, <3>5
  <2>6. CASE m = r /\ kind = "result"
    <3>1. Res(Q, s, r) = out /\ Host(Q, s, r) = Host(R, s, r)
      BY <1>1, <1>6, <2>6 DEF OthersStay, Res
    <3>2. m \in x.published /\ (m \in x.exported <=> m \in J[k].exported) BY <1>3, <2>6
    <3>3. q <= Last(s, Res(Q, s, r)) BY <1>6, <3>1
    <3>4. Placed(e, Q, x, m) BY <1>3, <1>4, <1>5, <2>2, <2>6, <3>1, <3>2, <3>3 DEF Placed
    <3>5. Continues(Q, x, m) BY <3>2 DEF Continues
    <3> QED BY <2>3, <2>4, <3>4, <3>5
  <2>7. CASE m = r /\ kind = "host"
    <3>1. Host(Q, s, r) = out /\ Res(Q, s, r) = Res(R, s, r)
      BY <1>1, <1>6, <2>7 DEF OthersStay, Host
    <3>2. m \in x.exported /\ m \in x.published /\ m \in J[k].published BY <1>3, <2>7
    <3>3. q <= Last(s, Host(Q, s, r)) BY <1>6, <3>1
    <3>4. Placed(e, Q, x, m) BY <1>3, <1>4, <1>5, <2>2, <2>7, <3>1, <3>2, <3>3 DEF Placed
    <3>5. Continues(Q, x, m) BY <3>2 DEF Continues
    <3> QED BY <2>3, <2>4, <3>4, <3>5
  <2> QED BY <1>3, <2>5, <2>6, <2>7
<1> QED BY <1>3, <1>4, <1>7, <1>9 DEF JobSane

(* The other jobs. *)
LEMMA PublicationOthers ==
    ASSUME NEW e, NEW R, NEW J, NEW C, NEW k, NEW r, NEW s, NEW q, NEW out, NEW kind, NEW Q, NEW x, NEW K,
           Publication(e, R, J, C, k, r, s, q, out, kind, Q, x, K), NEW j \in DOMAIN J, j # k
    PROVE  JobSane(e, Q, j, J[j])
<1>1. Publisher(e, R, J, k, r, s, q, out) /\ OthersStay(R, Q, s, kind, r, out) BY PublicationFacts
<1>2. Before(e, R, J, k, r, s, q, kind) BY PublicationBefore
<1>3. Good(e, R, J, C) /\ kind \in {"result", "host"} BY DEF Publication
<1>4. /\ J[j].work.role \in Roles /\ Frozen(J[j].work) /\ Staged(J[j]) /\ j \in Keys
      /\ Members(J[j].work) \subseteq Requests
  BY <1>3, JobFacts
<1>5. \A c \in Cells : R[c].round \in Int /\ Q[c].round \in Int /\ R[c].round <= Q[c].round
  BY PublicationGrows
<1>6. /\ s \in Roles /\ r \in Requests /\ q \in Int /\ First(s) <= q /\ k \in Keys
      /\ out.round = q /\ Last(s, out) = q /\ Authorises(e, k, s, r, q)
  BY <1>1 DEF Publisher
<1>7. ASSUME NEW m \in Members(J[j].work)
      PROVE  Placed(e, Q, J[j], m) /\ Captured(Q, J[j], m) /\ Continues(Q, J[j], m) /\ Produced(j, J[j], m)
  <2> DEFINE t == J[j].work.role
             p == J[j].work.round[m]
  <2>1. /\ Placed(e, R, J[j], m) /\ Captured(R, J[j], m) /\ Continues(R, J[j], m) /\ Produced(j, J[j], m)
        /\ J[j].got[m] \in [Names -> Row] /\ p \in Int /\ m \in Requests
        /\ First(t) <= p /\ Bears(e, R, t, m, p, j)
    BY <1>3, MemberFacts
  <2>2. Captured(Q, J[j], m) BY <1>4, <1>5, <2>1, CapturedGrows
  <2>3. t = s /\ m = r => p # q
    <3> HAVE t = s /\ m = r
    <3>1. Bears(e, R, s, r, q, k) BY <1>6 DEF Bears
    <3>2. p = q => Bears(e, R, s, r, q, j) BY <2>1
    <3> QED BY <1>3, <1>4, <1>6, <3>1, <3>2, Owner
  <2>4. ASSUME ~(t = s /\ m = r) PROVE Placed(e, Q, J[j], m)
    <3>1. Res(Q, t, m) = Res(R, t, m) /\ Host(Q, t, m) = Host(R, t, m)
      BY <1>1, <1>4, <2>1, <2>4 DEF OthersStay
    <3> QED BY <2>1, <3>1 DEF Placed
  <2>5. ASSUME t = s /\ m = r /\ kind = "result" PROVE Placed(e, Q, J[j], m)
    <3>1. Res(Q, s, r) = out /\ Host(Q, s, r) = Host(R, s, r)
      BY <1>1, <1>6, <2>5 DEF OthersStay, Res
    <3>2. Last(s, Res(R, s, r)) = q - 1 BY <1>2, <2>5 DEF Before
    <3>3. m \notin Live(J[j]) \ J[j].published
      <4>1. m \in Live(J[j]) \ J[j].published => q - 1 = p - 1 BY <2>1, <2>5, <3>2 DEF Placed
      <4> QED BY <1>6, <2>1, <2>3, <2>5, <4>1
    <3>4. m \in J[j].published => p <= Last(s, Res(Q, s, r))
      <4>1. m \in J[j].published => p <= q - 1 BY <2>1, <2>5, <3>2 DEF Placed
      <4> QED BY <1>6, <2>1, <3>1, <4>1
    <3> QED BY <2>1, <2>5, <3>1, <3>3, <3>4 DEF Placed
  <2>6. ASSUME t = s /\ m = r /\ kind = "host" PROVE Placed(e, Q, J[j], m)
    <3>1. Host(Q, s, r) = out /\ Res(Q, s, r) = Res(R, s, r)
      BY <1>1, <1>6, <2>6 DEF OthersStay, Host
    <3>2. Last(s, Host(R, s, r)) < q BY <1>2, <2>6 DEF Before
    <3>3. Last(s, Host(R, s, r)) \in Int /\ First(s) \in 0 .. 1
      <4>1. Item(e, R, J, s, r, Host(R, s, r)) /\ Content(e, R, J) BY <1>3 DEF Item, Good
      <4> QED BY <1>6, <4>1, LastRound
    <3>4. m \in Live(J[j]) \ J[j].exported => Last(s, Host(Q, s, r)) < p
      <4> HAVE m \in Live(J[j]) \ J[j].exported
      <4>1. Last(s, Host(R, s, r)) < p BY <2>1, <2>6 DEF Placed
      <4>2. CASE J[k].work.initial
        <5>1. q = First(s) BY <1>2, <4>2 DEF Before
        <5> QED BY <1>6, <2>1, <2>3, <2>6, <3>1, <3>3, <5>1
      <4>3. CASE ~J[k].work.initial
        <5>1. q - 1 <= Last(s, Host(R, s, r)) BY <1>2, <4>3 DEF Before
        <5>2. q - 1 < p BY <1>6, <2>1, <3>3, <4>1, <5>1
        <5> QED BY <1>6, <2>1, <2>3, <2>6, <3>1, <5>2
      <4> QED BY <4>2, <4>3
    <3>5. m \in J[j].exported => p <= Last(s, Host(Q, s, r))
      <4>1. m \in J[j].exported => p <= Last(s, Host(R, s, r)) BY <2>1, <2>6 DEF Placed
      <4> QED BY <1>6, <2>1, <3>1, <3>2, <3>3, <4>1
    <3> QED BY <2>1, <2>6, <3>1, <3>4, <3>5 DEF Placed
  <2>7. Placed(e, Q, J[j], m) BY <1>3, <2>4, <2>5, <2>6
  <2>8. Continues(Q, J[j], m)
    <3>0. "T" \in Roles BY DEF Roles
    <3>1. CASE Res(Q, "T", m) = Res(R, "T", m) BY <2>1, <3>1 DEF Continues
    <3>2. CASE Res(Q, "T", m) # Res(R, "T", m)
      <4>1. s = "T" /\ m = r /\ kind = "result" /\ Res(Q, "T", m) = out
        BY <1>1, <2>1, <3>0, <3>2 DEF OthersStay, Res
      <4>2. Last(s, Res(R, s, r)) = q - 1 /\ Res(R, s, r).round <= q - 1 BY <1>2, <4>1 DEF Before
      <4>3. CASE t = "T"
        <5>1. m \in Live(J[j]) \ J[j].published => q - 1 = p - 1 BY <2>1, <4>1, <4>2, <4>3 DEF Placed
        <5>2. m \notin Live(J[j]) \ J[j].published BY <1>6, <2>1, <2>3, <4>1, <4>3, <5>1
        <5> QED BY <5>2 DEF Continues
      <4>4. CASE t = "D"
        <5> SUFFICES ASSUME m \in Live(J[j]) \ J[j].published, "classified" \notin J[j].watch[m],
                            Res(Q, "T", m).round = p - 1
                     PROVE  FALSE
          BY <4>4 DEF Continues
        <5>1. Applies(J[j].work, "classified") /\ Awaited(J[j].work, m, "classified") = p - 1
              /\ "classified" \in Names
          BY <4>4 DEF Applies, Awaited, Names
        <5>2. R[Watched(J[j], m, "classified")] = Res(R, "T", m) BY <1>4, WatchedRow DEF Res
        <5>3. p - 1 <= Res(R, "T", m).round BY <2>1, <5>1, <5>2 DEF Captured
        <5>4. Res(R, "T", m).round \in Int
          <6>1. <<"T", "result", m>> \in Cells BY <2>1, <3>0, CellNames
          <6> QED BY <1>5, <6>1 DEF Res
        <5> QED BY <1>6, <2>1, <4>1, <4>2, <5>3, <5>4
      <4> QED BY <1>4, <4>3, <4>4 DEF Roles
    <3> QED BY <3>1, <3>2
  <2> QED BY <2>1, <2>2, <2>7, <2>8
<1> QED BY <1>4, <1>7 DEF JobSane

(* A publication keeps the invariant. *)
LEMMA PublicationGood ==
    ASSUME NEW e, NEW R, NEW J, NEW C, NEW k, NEW r, NEW s, NEW q, NEW out, NEW kind, NEW Q, NEW x, NEW K,
           Publication(e, R, J, C, k, r, s, q, out, kind, Q, x, K)
    PROVE  Good(e, Q, K, C)
<1>1. OthersStay(R, Q, s, kind, r, out) BY PublicationFacts
<1>2. Good(e, R, J, C) /\ k \in DOMAIN J /\ Marked(J[k], x) /\ K = [J EXCEPT ![k] = x]
  BY DEF Publication
<1>3. Typed(e, Q, K, C)
  <2>1. J \in PerWork(Job) /\ e \in Engine /\ C \in PerWork(SUBSET Requests) BY <1>2 DEF Good, Typed
  <2>2. x \in Job BY <1>2 DEF Marked
  <2>3. K \in PerWork(Job) BY <1>2, <2>1, <2>2, ChangeMap
  <2>4. Q \in [Cells -> Row] BY <1>1 DEF OthersStay
  <2> QED BY <2>1, <2>3, <2>4 DEF Typed
<1>4. Content(e, Q, K) BY PublicationContent
<1>5. Frontier(e, Q) BY PublicationFrontier
<1>6. OneOwner(e, Q) /\ ImportsMatch(e, Q) BY PublicationOwner
<1>7. Ledger(e, K, C) /\ Held(e, Q, K, C) /\ Kept(e, Q) BY PublicationHeld
<1>8. ASSUME NEW j \in DOMAIN K PROVE JobSane(e, Q, j, K[j])
  <2>1. CASE j = k
    <3>1. JobSane(e, Q, k, x) BY PublicationSelf
    <3> QED BY <1>2, <2>1, <3>1
  <2>2. CASE j # k
    <3>1. j \in DOMAIN J /\ K[j] = J[j] BY <1>2, <2>2
    <3>2. JobSane(e, Q, j, J[j]) BY <2>2, <3>1, PublicationOthers
    <3> QED BY <3>1, <3>2
  <2> QED BY <2>1, <2>2
<1>9. Pending(e) BY <1>2 DEF Good
<1> QED BY <1>3, <1>4, <1>5, <1>6, <1>7, <1>8, <1>9 DEF Good

(* An output continues the output of the round before. *)
LEMMA Appends ==
    ASSUME NEW C, Good(eng, rows, jobs, C), NEW k \in DOMAIN jobs, jobs[k].computed,
           NEW r \in Live(jobs[k]) \ jobs[k].published
    PROVE  ~AppendMismatch(jobs[k], r)
<1> DEFINE s == jobs[k].work.role
           q == jobs[k].work.round[r]
           out == jobs[k].out[r]
           previous == Res(rows, "T", r)
<1> SUFFICES ASSUME s = "T"
             PROVE  /\ ~(out.count = 0 \/ out.count > MaxNew)
                    /\ out.round = 0 => out.count = out.size
                    /\ out.round # 0 => /\ previous.round = out.round - 1
                                        /\ previous.count = out.count - out.size
                                        /\ ~previous.finished
  BY DEF AppendMismatch, Res
<1>1. r \in Members(jobs[k].work) BY DEF Live
<1>2. /\ r \in Requests /\ q \in Int /\ First(s) <= q /\ out \in Row
      /\ Placed(eng, rows, jobs[k], r) /\ Produced(k, jobs[k], r)
  BY <1>1, MemberFacts
<1>3. "T" \in Roles /\ Content(eng, rows, jobs) BY DEF Roles, Good
<1>4. out.round = q BY <1>2 DEF Produced
<1>5. Carries(jobs[k], "T", r, out) BY <1>1 DEF Carries
<1>6. Item(eng, rows, jobs, "T", r, out) /\ Item(eng, rows, jobs, "T", r, previous) BY <1>5 DEF Item
<1>7. GoodRow("T", out) BY <1>2, <1>3, <1>6, ItemRound
<1>8. 0 <= q BY <1>2 DEF First
<1>9. out # NoFact BY <1>2, <1>4, <1>8 DEF NoFact
<1>10. /\ out.count \in Int /\ out.size \in Int /\ out.round \in Int BY <1>2 DEF Row
<1>11. out.round < out.count /\ out.count <= MaxNew /\ (out.round = 0 => out.count = out.size)
  BY <1>7, <1>9 DEF GoodRow
<1>12. ~(out.count = 0 \/ out.count > MaxNew)
  <2>1. MaxNew \in Int BY PipelineAssumptions
  <2> QED BY <1>4, <1>8, <1>10, <1>11, <2>1
<1>13. ASSUME out.round # 0
       PROVE  /\ previous.round = out.round - 1
              /\ previous.count = out.count - out.size /\ ~previous.finished
  <2>1. Last("T", previous) = q - 1 BY <1>2 DEF Placed
  <2>2. previous.round = q - 1 BY <1>2, <1>4, <1>8, <1>13, <2>1 DEF Last, First
  <2>3. previous # NoFact BY <1>2, <1>4, <1>8, <1>13, <2>2 DEF NoFact
  <2>4. Agree("T", out, "T", previous) BY <1>2, <1>3, <1>6 DEF Content
  <2>5. out.round = previous.round + 1 BY <1>2, <1>4, <2>2
  <2>6. out.count = previous.count + out.size /\ ~previous.finished
    BY <1>9, <2>3, <2>4, <2>5 DEF Agree
  <2>7. previous.count \in Int
    <3>1. GoodRow("T", previous) BY <1>2, <1>3, <1>6, ItemRound
    <3> QED BY <3>1 DEF GoodRow, Row
  <2>8. previous.count = out.count - out.size BY <1>10, <2>6, <2>7
  <2> QED BY <1>4, <2>2, <2>6, <2>8
<1> QED BY <1>11, <1>12, <1>13

(* The step that publishes a result. *)
LEMMA ResultPublication ==
    ASSUME PipelineInv, NEW k \in DOMAIN jobs, NEW r \in Members(jobs[k].work), PublishResult(k, r)
    PROVE  /\ Publication(eng, rows, jobs, completions, k, r, jobs[k].work.role,
                          jobs[k].work.round[r], jobs[k].out[r], "result", rows', jobs'[k], jobs')
           /\ eng' = eng /\ completions' = completions /\ failure' = failure
<1> DEFINE s == jobs[k].work.role
           q == jobs[k].work.round[r]
           out == jobs[k].out[r]
           Q == [rows EXCEPT ![<<s, "result", r>>] = out]
           x == [jobs[k] EXCEPT !.published = @ \cup {r}]
           K == [jobs EXCEPT ![k] = x]
<1>1. Good(eng, rows, jobs, completions) /\ failure = "none" BY DEF PipelineInv
<1>2. jobs[k].computed /\ r \in Live(jobs[k]) \ jobs[k].published BY DEF PublishResult
<1>3. ~AppendMismatch(jobs[k], r) BY <1>1, <1>2, Appends
<1>4. /\ rows' = Q /\ jobs' = K
      /\ eng' = eng /\ completions' = completions /\ failure' = failure
  BY <1>3 DEF PublishResult
<1>5. /\ jobs[k] \in Job /\ s \in Roles /\ Staged(jobs[k]) /\ r \in Requests /\ out \in Row
  BY <1>1, JobFacts, MemberFacts
<1>6. rows \in [Cells -> Row] /\ <<s, "result", r>> \in Cells BY <1>1, <1>5, CellNames DEF Good, Typed
<1>7. Rewritten(rows, Q, s, "result", r, out) BY <1>5, <1>6 DEF Rewritten
<1>8. Marked(jobs[k], x) /\ x.published = jobs[k].published \cup {r}
      /\ x.imported = jobs[k].imported /\ x.exported = jobs[k].exported
  BY <1>5, MarkFields
<1> HIDE DEF x
<1>9. Staged(x)
  <2>1. /\ x.work = jobs[k].work /\ x.watch = jobs[k].watch /\ x.got = jobs[k].got
        /\ x.skip = jobs[k].skip /\ x.computed = jobs[k].computed /\ x.out = jobs[k].out
    BY <1>8 DEF Marked
  <2>2. Live(x) = Live(jobs[k]) BY <2>1 DEF Live
  <2> QED BY <1>2, <1>5, <1>8, <2>1, <2>2 DEF Staged
<1>10. Publication(eng, rows, jobs, completions, k, r, s, q, out, "result", Q, x, K)
  <2> HIDE DEF Q
  <2> QED BY <1>1, <1>2, <1>7, <1>8, <1>9 DEF Publication
<1>11. jobs'[k] = x BY <1>4
<1>12. Publication(eng, rows, jobs, completions, k, r, s, q, out, "result", rows', jobs'[k], jobs')
  <2> HIDE DEF Q, K
  <2> QED BY <1>4, <1>10, <1>11
<1> QED BY <1>4, <1>12

(* The publication of a result keeps the invariant. *)
LEMMA PublishResultKeeps ==
    ASSUME PipelineInv, NEW k \in DOMAIN jobs, NEW r \in Members(jobs[k].work), PublishResult(k, r)
    PROVE  PipelineInv'
<1>1. /\ Publication(eng, rows, jobs, completions, k, r, jobs[k].work.role,
                     jobs[k].work.round[r], jobs[k].out[r], "result", rows', jobs'[k], jobs')
      /\ eng' = eng /\ completions' = completions /\ failure' = failure
  BY ResultPublication
<1>2. Good(eng, rows', jobs', completions) BY <1>1, PublicationGood
<1>3. Good(eng', rows', jobs', completions') BY <1>1, <1>2
<1> QED BY <1>1, <1>3 DEF PipelineInv

(* The export of a result keeps the invariant. *)
LEMMA PublishHostKeeps ==
    ASSUME PipelineInv, NEW k \in DOMAIN jobs, NEW r \in Members(jobs[k].work), PublishHost(k, r)
    PROVE  PipelineInv'
<1> DEFINE s == jobs[k].work.role
           q == jobs[k].work.round[r]
           out == jobs[k].out[r]
           Q == [rows EXCEPT ![<<s, "host", r>>] = out]
           x == [jobs[k] EXCEPT !.exported = @ \cup {r}]
           K == [jobs EXCEPT ![k] = x]
<1>1. Good(eng, rows, jobs, completions) /\ failure = "none" BY DEF PipelineInv
<1>2. /\ jobs[k].computed /\ jobs[k].published = Live(jobs[k])
      /\ r \in Live(jobs[k]) \ jobs[k].exported
  BY DEF PublishHost, ResultsOut
<1>4. /\ rows' = Q /\ jobs' = K
      /\ eng' = eng /\ completions' = completions /\ failure' = failure
  BY DEF PublishHost
<1>5. /\ jobs[k] \in Job /\ s \in Roles /\ Staged(jobs[k]) /\ r \in Requests /\ out \in Row
  BY <1>1, JobFacts, MemberFacts
<1>6. rows \in [Cells -> Row] /\ <<s, "host", r>> \in Cells BY <1>1, <1>5, CellNames DEF Good, Typed
<1>7. Rewritten(rows, Q, s, "host", r, out) BY <1>5, <1>6 DEF Rewritten
<1>8. Marked(jobs[k], x) /\ x.exported = jobs[k].exported \cup {r}
      /\ x.imported = jobs[k].imported /\ x.published = jobs[k].published
  BY <1>5, MarkFields
<1> HIDE DEF x
<1>9. Staged(x)
  <2>1. /\ x.work = jobs[k].work /\ x.watch = jobs[k].watch /\ x.got = jobs[k].got
        /\ x.skip = jobs[k].skip /\ x.computed = jobs[k].computed /\ x.out = jobs[k].out
    BY <1>8 DEF Marked
  <2>2. Live(x) = Live(jobs[k]) BY <2>1 DEF Live
  <2> QED BY <1>2, <1>5, <1>8, <2>1, <2>2 DEF Staged
<1>10. Publication(eng, rows, jobs, completions, k, r, s, q, out, "host", Q, x, K)
  <2> HIDE DEF Q
  <2> QED BY <1>1, <1>2, <1>7, <1>8, <1>9 DEF Publication
<1>11. Good(eng, Q, K, completions) BY <1>10, PublicationGood
<1>12. Good(eng', rows', jobs', completions') BY <1>4, <1>11
<1> QED BY <1>1, <1>4, <1>12 DEF PipelineInv

(* The completion of a WORK keeps the invariant. *)
LEMMA CompleteKeeps ==
    ASSUME PipelineInv, NEW k \in DOMAIN jobs, Complete(k)
    PROVE  PipelineInv'
<1> DEFINE K == Without(jobs, {k})
           D == Put(completions, k, Live(jobs[k]))
<1>1. Good(eng, rows, jobs, completions) /\ failure = "none" BY DEF PipelineInv
<1>2. /\ jobs' = K /\ completions' = D /\ eng' = eng /\ rows' = rows /\ failure' = failure
      /\ jobs[k].published = Live(jobs[k])
  BY DEF Complete, ResultsOut
<1>3. /\ jobs \in PerWork(Job) /\ completions \in PerWork(SUBSET Requests) /\ k \in Keys
      /\ Live(jobs[k]) \in SUBSET Requests /\ k \in DOMAIN eng.records
  BY <1>1, JobFacts DEF Good, Typed, Live
<1>4. /\ K \in PerWork(Job) /\ DOMAIN K = DOMAIN jobs \ {k}
      /\ \A j \in DOMAIN jobs \ {k} : K[j] = jobs[j]
  BY <1>3, WithoutMap
<1>5. /\ D \in PerWork(SUBSET Requests) /\ DOMAIN D = DOMAIN completions \cup {k}
      /\ D[k] = Live(jobs[k]) /\ \A j \in DOMAIN completions : j # k => D[j] = completions[j]
  <2> DEFINE S == SUBSET Requests
             live == Live(jobs[k])
  <2>1. completions \in PerWork(S) /\ live \in S /\ k \in Keys BY <1>3
  <2>2. D = Put(completions, k, live) OBVIOUS
  <2> HIDE DEF S, live, D
  <2>3. /\ D \in PerWork(S) /\ DOMAIN D = DOMAIN completions \cup {k}
        /\ D[k] = live /\ \A j \in DOMAIN completions : j # k => D[j] = completions[j]
    BY <2>1, <2>2, PutMap
  <2> QED BY <2>3 DEF S, live
<1> HIDE DEF K, D
<1>6. Typed(eng, rows, K, D) BY <1>1, <1>4, <1>5 DEF Good, Typed
<1>7. Content(eng, rows, K)
  <2>1. Content(eng, rows, jobs) BY <1>1 DEF Good
  <2>2. ASSUME NEW m \in Requests, NEW t \in Roles, NEW y, Item(eng, rows, K, t, m, y)
        PROVE  Item(eng, rows, jobs, t, m, y)
    BY <1>4, <2>2 DEF Item
  <2> QED BY <2>1, <2>2, ContentKept
<1>8. Ledger(eng, jobs, completions) /\ Held(eng, rows, jobs, completions) BY <1>1 DEF Good
<1>9. Ledger(eng, K, D)
  <2>1. DOMAIN eng.records = DOMAIN K \cup DOMAIN D BY <1>3, <1>4, <1>5, <1>8 DEF Ledger
  <2>2. DOMAIN K \cap DOMAIN D = {} BY <1>4, <1>5, <1>8 DEF Ledger
  <2>3. \A j \in DOMAIN K : K[j].work = eng.records[j].work
    <3> TAKE j \in DOMAIN K
    <3>1. j \in DOMAIN jobs /\ j \in DOMAIN eng.records /\ K[j] = jobs[j] BY <1>4, <1>8 DEF Ledger
    <3> QED BY <1>8, <3>1 DEF Ledger
  <2>4. \A j \in DOMAIN eng.records : eng.records[j].completed => j \in DOMAIN D
    BY <1>5, <1>8 DEF Ledger
  <2> QED BY <1>8, <2>1, <2>2, <2>3, <2>4 DEF Ledger
<1>10. Held(eng, rows, K, D)
  <2>1. ASSUME NEW j \in DOMAIN eng.records, NEW m \in Members(eng.records[j].work),
               Res(rows, eng.records[j].work.role, m).work = j,
               Res(rows, eng.records[j].work.role, m).round = eng.records[j].work.round[m]
        PROVE  \/ j \in DOMAIN K /\ m \in K[j].published
               \/ j \in DOMAIN D /\ m \in D[j]
    <3>1. \/ j \in DOMAIN jobs /\ m \in jobs[j].published
          \/ j \in DOMAIN completions /\ m \in completions[j]
      BY <1>8, <2>1 DEF Held
    <3>2. k \notin DOMAIN completions BY <1>8 DEF Ledger
    <3> QED BY <1>2, <1>4, <1>5, <3>1, <3>2
  <2> QED BY <2>1 DEF Held
<1>11. \A j \in DOMAIN K : JobSane(eng, rows, j, K[j])
  <2>1. \A j \in DOMAIN jobs : JobSane(eng, rows, j, jobs[j]) BY <1>1 DEF Good
  <2> QED BY <1>4, <2>1
<1>12. Good(eng, rows, K, D) BY <1>1, <1>6, <1>7, <1>9, <1>10, <1>11 DEF Good
<1>13. Good(eng', rows', jobs', completions') BY <1>2, <1>12
<1> QED BY <1>1, <1>2, <1>13 DEF PipelineInv
-----------------------------------------------------------------------------
(***************************************************************************)
(* Computation: the outputs of a round continue its inputs.                *)
(***************************************************************************)
(* A WORK with all its inputs. *)
Supplied(e, R, J, C, k) ==
    /\ Good(e, R, J, C) /\ k \in DOMAIN J /\ ~J[k].computed
    /\ \A r \in Members(J[k].work) : J[k].watch[r] = {}

(* What it holds for one of its live members. *)
Inputs(e, R, J, k, r, s, q) ==
    /\ k \in Keys /\ s = J[k].work.role /\ q = J[k].work.round[r] /\ s \in Roles
    /\ r \in Requests /\ r \in Members(J[k].work) /\ q \in Int /\ First(s) <= q
    /\ J[k].work.initial \in BOOLEAN /\ (J[k].work.initial <=> q = First(s))
    /\ J[k].work.key = k /\ J[k].work.budget[r] \in Int /\ 1 <= J[k].work.budget[r]
    /\ Last(s, Res(R, s, r)) = q - 1
    /\ s = "D" \/ ~J[k].work.initial =>
         /\ Item(e, R, J, "T", r, J[k].got[r]["classified"])
         /\ J[k].got[r]["classified"].round = q - 1
         /\ Item(e, R, J, Other(s), r, J[k].got[r]["predecessor"])
         /\ q - 1 <= Res(R, "T", r).round
    /\ s = "D" => J[k].got[r]["predecessor"].round = q - 1
    /\ s = "T" /\ ~J[k].work.initial =>
         J[k].got[r]["predecessor"].round = q /\ q <= Res(R, "D", r).round
    /\ ~J[k].work.initial =>
         Item(e, R, J, s, r, J[k].got[r]["source"]) /\ J[k].got[r]["source"].round = q - 1

(* The facts about a member that is to be computed. *)
LEMMA SuppliedInputs ==
    ASSUME NEW e, NEW R, NEW J, NEW C, NEW k, Supplied(e, R, J, C, k), NEW r \in Live(J[k]),
           NEW s, NEW q, s = J[k].work.role, q = J[k].work.round[r]
    PROVE  Inputs(e, R, J, k, r, s, q)
<1>1. /\ Good(e, R, J, C) /\ k \in DOMAIN J /\ ~J[k].computed
      /\ \A m \in Members(J[k].work) : J[k].watch[m] = {}
  BY DEF Supplied
<1>2. r \in Members(J[k].work) BY DEF Live
<1>3. k \in Keys /\ s \in Roles /\ J[k].work.key = k BY <1>1, JobFacts
<1>4. /\ r \in Requests /\ q \in Int /\ First(s) <= q
      /\ J[k].work.initial \in BOOLEAN /\ (J[k].work.initial <=> q = First(s))
      /\ J[k].work.budget[r] \in Int /\ 1 <= J[k].work.budget[r]
  BY <1>1, <1>2, MemberFacts
<1>5. Captured(R, J[k], r) BY <1>1, <1>2, MemberFacts
<1>6. Last(s, Res(R, s, r)) = q - 1 BY <1>1, Unfinished
<1>7. "classified" \in Names /\ "source" \in Names /\ "predecessor" \in Names BY DEF Names
<1>8. ASSUME NEW n \in Names, Applies(J[k].work, n)
      PROVE  /\ Awaited(J[k].work, r, n) <= R[Watched(J[k], r, n)].round
             /\ J[k].got[r][n].round = Awaited(J[k].work, r, n)
  BY <1>1, <1>2, <1>5, <1>8 DEF Captured
<1>9. /\ R[Watched(J[k], r, "classified")] = Res(R, "T", r)
      /\ R[Watched(J[k], r, "predecessor")] = Res(R, Other(s), r)
  BY <1>3, WatchedRow DEF Res
<1>10. ASSUME s = "D" \/ ~J[k].work.initial
       PROVE  /\ Item(e, R, J, "T", r, J[k].got[r]["classified"])
              /\ J[k].got[r]["classified"].round = q - 1
              /\ Item(e, R, J, Other(s), r, J[k].got[r]["predecessor"])
              /\ q - 1 <= Res(R, "T", r).round
  <2>1. Applies(J[k].work, "classified") /\ Awaited(J[k].work, r, "classified") = q - 1
    BY <1>10 DEF Applies, Awaited
  <2>2. Carries(J[k], "T", r, J[k].got[r]["classified"]) BY <1>2 DEF Carries
  <2>3. Carries(J[k], Other(s), r, J[k].got[r]["predecessor"]) BY <1>2, <1>3 DEF Carries, Other, Roles
  <2> QED BY <1>1, <1>7, <1>8, <1>9, <2>1, <2>2, <2>3 DEF Item
<1>11. s = "D" => J[k].got[r]["predecessor"].round = q - 1
  <2> HAVE s = "D"
  <2>1. Applies(J[k].work, "predecessor") /\ Awaited(J[k].work, r, "predecessor") = q - 1
    BY DEF Applies, Awaited
  <2> QED BY <1>7, <1>8, <2>1
<1>12. s = "T" /\ ~J[k].work.initial =>
           J[k].got[r]["predecessor"].round = q /\ q <= Res(R, "D", r).round
  <2> HAVE s = "T" /\ ~J[k].work.initial
  <2>1. Applies(J[k].work, "predecessor") /\ Awaited(J[k].work, r, "predecessor") = q
        /\ Other(s) = "D"
    BY DEF Applies, Awaited, Other
  <2> QED BY <1>7, <1>8, <1>9, <2>1
<1>13. ~J[k].work.initial =>
           Item(e, R, J, s, r, J[k].got[r]["source"]) /\ J[k].got[r]["source"].round = q - 1
  <2> HAVE ~J[k].work.initial
  <2>1. Applies(J[k].work, "source") /\ Awaited(J[k].work, r, "source") = q - 1
    BY DEF Applies, Awaited
  <2>2. Carries(J[k], s, r, J[k].got[r]["source"]) BY <1>2 DEF Carries
  <2> QED BY <1>1, <1>7, <1>8, <2>1, <2>2 DEF Item
<1> QED BY <1>2, <1>3, <1>4, <1>6, <1>10, <1>11, <1>12, <1>13 DEF Inputs

(* A row that is still to be published. *)
Unpublished(J, s, r, x) ==
    \E j \in DOMAIN J :
        /\ J[j].computed /\ r \in Live(J[j]) \ J[j].published
        /\ J[j].work.role = s /\ x.round = J[j].work.round[r]

(* How far a row can be. *)
LEMMA ItemBound ==
    ASSUME NEW e, NEW R, NEW J, NEW C, Good(e, R, J, C), NEW s \in Roles, NEW r \in Requests,
           NEW x, Item(e, R, J, s, r, x)
    PROVE  /\ x.round \in Int
           /\ x.round <= Last(s, Res(R, s, r)) \/ Unpublished(J, s, r, x)
<1>1. Content(e, R, J) /\ Order(e, R, s, r) BY DEF Good, Frontier
<1>2. Item(e, R, J, s, r, Res(R, s, r)) /\ Item(e, R, J, s, r, Host(R, s, r))
      /\ Item(e, R, J, s, r, Result(e, s, r))
  BY DEF Item
<1>3. /\ Res(R, s, r).round \in Int /\ Last(s, Res(R, s, r)) \in Int /\ First(s) \in 0 .. 1
      /\ Res(R, s, r).round <= Last(s, Res(R, s, r)) /\ First(s) - 1 <= Last(s, Res(R, s, r))
  BY <1>1, <1>2, LastRound
<1>4. /\ Host(R, s, r).round \in Int /\ Last(s, Host(R, s, r)) \in Int
      /\ Host(R, s, r).round <= Last(s, Host(R, s, r))
  BY <1>1, <1>2, LastRound
<1>5. /\ Result(e, s, r).round \in Int /\ Last(s, Result(e, s, r)) \in Int
      /\ Result(e, s, r).round <= Last(s, Result(e, s, r))
  BY <1>1, <1>2, LastRound
<1>6. x.round \in Int BY <1>1, LastRound
<1>7. CASE x \in {Res(R, s, r), Host(R, s, r), Result(e, s, r)}
  BY <1>1, <1>3, <1>4, <1>5, <1>7 DEF Order
<1>8. ASSUME NEW j \in DOMAIN J, Carries(J[j], s, r, x)
      PROVE  x.round <= Last(s, Res(R, s, r)) \/ Unpublished(J, s, r, x)
  <2>1. r \in Members(J[j].work) /\ J[j].work.role \in Roles BY <1>8, JobFacts DEF Carries
  <2>2. Captured(R, J[j], r) /\ Produced(j, J[j], r) /\ Placed(e, R, J[j], r)
    BY <2>1, MemberFacts
  <2>3. /\ R[Watched(J[j], r, "classified")] = Res(R, "T", r)
        /\ R[Watched(J[j], r, "source")] = Host(R, J[j].work.role, r)
        /\ R[Watched(J[j], r, "predecessor")] = Res(R, Other(J[j].work.role), r)
    BY <2>1, WatchedRow DEF Res, Host
  <2>4. "classified" \in Names /\ "source" \in Names /\ "predecessor" \in Names BY DEF Names
  <2>5. /\ J[j].got[r]["classified"].round <= Res(R, "T", r).round
        /\ J[j].got[r]["source"].round <= Host(R, J[j].work.role, r).round
        /\ J[j].got[r]["predecessor"].round <= Res(R, Other(J[j].work.role), r).round
    BY <2>2, <2>3, <2>4 DEF Captured
  <2>6. CASE J[j].work.role = s /\ x = J[j].got[r]["source"]
    BY <1>1, <1>3, <1>4, <1>6, <2>5, <2>6 DEF Order
  <2>7. CASE J[j].work.role # s /\ x = J[j].got[r]["predecessor"]
    <3>1. Other(J[j].work.role) = s BY <2>1, <2>7 DEF Other, Roles
    <3> QED BY <1>3, <1>6, <2>5, <2>7, <3>1
  <2>8. CASE s = "T" /\ x = J[j].got[r]["classified"] BY <1>3, <1>6, <2>5, <2>8
  <2>9. CASE J[j].work.role = s /\ x = J[j].out[r]
    <3>1. CASE J[j].computed /\ r \in Live(J[j])
      <4>1. x.round = J[j].work.round[r] BY <2>2, <2>9, <3>1 DEF Produced
      <4>2. CASE r \in J[j].published BY <2>2, <2>9, <4>1, <4>2 DEF Placed
      <4>3. CASE r \notin J[j].published BY <2>9, <3>1, <4>1, <4>3 DEF Unpublished
      <4> QED BY <4>2, <4>3
    <3>2. CASE ~(J[j].computed /\ r \in Live(J[j]))
      <4>1. x = NoFact BY <2>2, <2>9, <3>2 DEF Produced
      <4>2. x.round = -1 BY <4>1 DEF NoFact
      <4> QED BY <1>3, <4>2
    <3> QED BY <3>1, <3>2
  <2> QED BY <1>8, <2>6, <2>7, <2>8, <2>9 DEF Carries
<1> QED BY <1>6, <1>7, <1>8 DEF Item

(* A WORK that has computed had the results of the other role. *)
LEMMA ComputedAfter ==
    ASSUME NEW e, NEW R, NEW J, NEW C, Good(e, R, J, C), NEW j \in DOMAIN J, J[j].computed,
           NEW r \in Live(J[j]), NEW p, p = J[j].work.round[r]
    PROVE  /\ J[j].work.role = "T" /\ p # 0 => p <= Res(R, "D", r).round
           /\ J[j].work.role = "D" => p - 1 <= Res(R, "T", r).round
<1>1. r \in Members(J[j].work) BY DEF Live
<1>2. J[j].work.role \in Roles /\ Staged(J[j]) BY JobFacts
<1>3. J[j].watch[r] = {} BY <1>1, <1>2 DEF Staged
<1>4. Captured(R, J[j], r) /\ (J[j].work.initial <=> p = First(J[j].work.role)) BY <1>1, MemberFacts
<1>5. R[Watched(J[j], r, "predecessor")] = Res(R, Other(J[j].work.role), r) BY <1>2, WatchedRow DEF Res
<1>6. "predecessor" \in Names BY DEF Names
<1>7. Applies(J[j].work, "predecessor") =>
          Awaited(J[j].work, r, "predecessor") <= Res(R, Other(J[j].work.role), r).round
  BY <1>3, <1>4, <1>5, <1>6 DEF Captured
<1>8. ASSUME J[j].work.role = "T", p # 0 PROVE p <= Res(R, "D", r).round
  <2>1. Applies(J[j].work, "predecessor") BY <1>4, <1>8 DEF Applies, First
  <2> QED BY <1>7, <1>8, <2>1 DEF Awaited, Other
<1>9. ASSUME J[j].work.role = "D" PROVE p - 1 <= Res(R, "T", r).round
  <2>1. Applies(J[j].work, "predecessor") BY <1>9 DEF Applies
  <2> QED BY <1>7, <1>9, <2>1 DEF Awaited, Other
<1> QED BY <1>8, <1>9

(* A WORK that is to compute computes the newest row of its role, and of both roles
   but for the next proposal. *)
Newest(e, R, J, r, s, q) ==
    \A t \in Roles : \A z : Item(e, R, J, t, r, z) =>
        /\ z.round \in Int
        /\ t = s \/ s = "D" => z.round <= q - 1
        /\ s = "T" => z.round <= q

(* While a round is to be computed, no row of its request is of a later one. *)
LEMMA NothingNewer ==
    ASSUME NEW e, NEW R, NEW J, NEW C, NEW k, Supplied(e, R, J, C, k), NEW r \in Live(J[k]),
           NEW s, NEW q, s = J[k].work.role, q = J[k].work.round[r]
    PROVE  Newest(e, R, J, r, s, q)
<1>1. Good(e, R, J, C) /\ k \in DOMAIN J /\ ~J[k].computed BY DEF Supplied
<1>2. Inputs(e, R, J, k, r, s, q) BY SuppliedInputs
<1>3. /\ k \in Keys /\ s \in Roles /\ r \in Requests /\ r \in Members(J[k].work)
      /\ q \in Int /\ First(s) <= q /\ Last(s, Res(R, s, r)) = q - 1
  BY <1>2 DEF Inputs
<1>4. Content(e, R, J) /\ Chain(e, R, r) BY <1>1, <1>3 DEF Good, Frontier
<1>5. "T" \in Roles /\ "D" \in Roles BY DEF Roles
<1>6. /\ Res(R, "T", r).round \in Int /\ Last("T", Res(R, "T", r)) \in Int
      /\ Res(R, "T", r).round <= Last("T", Res(R, "T", r))
      /\ Last("T", Res(R, "T", r)) = Res(R, "T", r).round
  <2>1. Item(e, R, J, "T", r, Res(R, "T", r)) BY DEF Item
  <2>2. /\ Res(R, "T", r).round \in Int /\ Last("T", Res(R, "T", r)) \in Int
        /\ Res(R, "T", r).round <= Last("T", Res(R, "T", r))
        /\ Res(R, "T", r) # NoFact => Last("T", Res(R, "T", r)) = Res(R, "T", r).round
        /\ Res(R, "T", r) = NoFact => /\ Last("T", Res(R, "T", r)) = First("T") - 1
                                      /\ Res(R, "T", r).round = -1
    BY <1>3, <1>4, <1>5, <2>1, LastRound
  <2>3. First("T") = 0 BY DEF First
  <2> QED BY <2>2, <2>3
<1>7. /\ Res(R, "D", r).round \in Int /\ Last("D", Res(R, "D", r)) \in Int
      /\ Res(R, "D", r).round <= Last("D", Res(R, "D", r))
  <2>1. Item(e, R, J, "D", r, Res(R, "D", r)) BY DEF Item
  <2> QED BY <1>3, <1>4, <1>5, <2>1, LastRound
<1>8. ASSUME NEW t \in Roles, NEW z, Item(e, R, J, t, r, z)
      PROVE  /\ z.round \in Int
             /\ t = s \/ s = "D" => z.round <= q - 1
             /\ s = "T" => z.round <= q
  <2>1. /\ z.round \in Int
        /\ z.round <= Last(t, Res(R, t, r)) \/ Unpublished(J, t, r, z)
    BY <1>1, <1>3, <1>8, ItemBound
  <2>2. ASSUME Unpublished(J, t, r, z)
        PROVE  \E j \in DOMAIN J :
                   /\ J[j].computed /\ r \in Live(J[j]) /\ r \in Members(J[j].work)
                   /\ J[j].work.role = t /\ z.round = J[j].work.round[r]
                   /\ Last(t, Res(R, t, r)) = z.round - 1 /\ j \in Keys
                   /\ Bears(e, R, t, r, z.round, j)
    <3>1. PICK j \in DOMAIN J :
              /\ J[j].computed /\ r \in Live(J[j]) \ J[j].published
              /\ J[j].work.role = t /\ z.round = J[j].work.round[r]
      BY <2>2 DEF Unpublished
    <3>2. r \in Members(J[j].work) BY <3>1 DEF Live
    <3>3. Placed(e, R, J[j], r) /\ Bears(e, R, t, r, z.round, j) BY <1>1, <3>1, <3>2, MemberFacts
    <3>4. j \in Keys BY <1>1, JobFacts
    <3>5. Last(t, Res(R, t, r)) = z.round - 1 BY <3>1, <3>3 DEF Placed
    <3> QED BY <3>1, <3>2, <3>3, <3>4, <3>5
  <2>3. ASSUME t = s PROVE z.round <= q - 1
    <3> SUFFICES ASSUME Unpublished(J, t, r, z) PROVE FALSE BY <1>3, <2>1, <2>3
    <3>1. PICK j \in DOMAIN J :
                   /\ J[j].computed /\ j \in Keys
                   /\ Last(t, Res(R, t, r)) = z.round - 1 /\ Bears(e, R, t, r, z.round, j)
      BY <2>2
    <3>2. z.round = q BY <1>3, <2>1, <2>3, <3>1
    <3>3. Bears(e, R, s, r, q, k) BY <1>1, <1>3, MemberFacts
    <3>4. j = k BY <1>1, <1>3, <2>3, <3>1, <3>2, <3>3, Owner
    <3> QED BY <1>1, <3>1, <3>4
  <2>4. ASSUME s = "D", t = "T" PROVE z.round <= q - 1
    <3>1. Res(R, "T", r).round <= q - 1 BY <1>3, <1>4, <2>4 DEF Chain
    <3>2. q - 1 <= Res(R, "T", r).round BY <1>2, <2>4 DEF Inputs
    <3> SUFFICES ASSUME Unpublished(J, t, r, z) PROVE FALSE BY <1>3, <1>6, <2>1, <2>4, <3>1
    <3>3. PICK j \in DOMAIN J :
                   /\ J[j].computed /\ r \in Live(J[j]) /\ J[j].work.role = t
                   /\ z.round = J[j].work.round[r] /\ Last(t, Res(R, t, r)) = z.round - 1
      BY <2>2
    <3>4. z.round = q BY <1>3, <1>6, <2>1, <2>4, <3>1, <3>2, <3>3
    <3>5. z.round # 0 BY <1>3, <2>4, <3>4 DEF First
    <3>6. z.round <= Res(R, "D", r).round BY <1>1, <2>4, <3>3, <3>5, ComputedAfter
    <3> QED BY <1>3, <1>7, <2>4, <3>4, <3>6
  <2>5. ASSUME s = "T", t = "D" PROVE z.round <= q
    <3>1. Last("D", Res(R, "D", r)) <= q
      <4>1. Last("D", Res(R, "D", r)) <= Res(R, "T", r).round + 1 BY <1>4 DEF Chain
      <4> QED BY <1>3, <1>6, <1>7, <2>5, <4>1
    <3>2. CASE z.round <= Last(t, Res(R, t, r)) BY <1>3, <1>7, <2>1, <2>5, <3>1, <3>2
    <3>3. CASE Unpublished(J, t, r, z)
      <4>1. PICK j \in DOMAIN J :
                   /\ J[j].computed /\ r \in Live(J[j]) /\ J[j].work.role = t
                   /\ z.round = J[j].work.round[r]
        BY <2>2, <3>3
      <4>2. z.round - 1 <= Res(R, "T", r).round BY <1>1, <2>5, <4>1, ComputedAfter
      <4> QED BY <1>3, <1>6, <2>1, <2>5, <4>2
    <3> QED BY <2>1, <3>2, <3>3
  <2>6. s = "T" => z.round <= q BY <1>3, <1>5, <2>1, <2>3, <2>5 DEF Roles
  <2> QED BY <1>3, <2>1, <2>3, <2>4, <2>6 DEF Roles
<1> QED BY <1>8 DEF Newest

(* A row that may join those that are there. *)
Fresh(e, R, J, k, r, s, q, y) ==
    /\ y \in Row /\ y.round = q /\ y.work = k /\ GoodRow(s, y)
    /\ \A t \in Roles : \A z : Item(e, R, J, t, r, z) => Agree(s, y, t, z) /\ Agree(t, z, s, y)

(* What it has to continue. *)
Joins(e, R, J, r, s, q, y) ==
    /\ s = "T" => \A z : Item(e, R, J, "T", r, z) /\ z # NoFact /\ z.round = q - 1 =>
                      y.count = z.count + y.size /\ ~z.finished
    /\ s = "T" => \A z : Item(e, R, J, "D", r, z) /\ z # NoFact /\ z.round = q =>
                      y.count = z.count + y.size /\ y.size <= z.size + 1
    /\ s = "D" => \A z : Item(e, R, J, "T", r, z) /\ z # NoFact /\ z.round = q - 1 =>
                      y.count = z.count

(* A row that continues the newest rows agrees with every older row. *)
LEMMA JoinsFresh ==
    ASSUME NEW e, NEW R, NEW J, NEW r, NEW s \in Roles, NEW q \in Int, NEW y, y.round = q,
           Newest(e, R, J, r, s, q), Joins(e, R, J, r, s, q, y)
    PROVE  \A t \in Roles : \A z : Item(e, R, J, t, r, z) => Agree(s, y, t, z) /\ Agree(t, z, s, y)
<1> SUFFICES ASSUME NEW t \in Roles, NEW z, Item(e, R, J, t, r, z), z # NoFact
             PROVE  Agree(s, y, t, z) /\ Agree(t, z, s, y)
  BY DEF Agree
<1>1. /\ z.round \in Int
      /\ t = s \/ s = "D" => z.round <= q - 1
      /\ s = "T" => z.round <= q
  BY DEF Newest
<1>2. CASE s = "T" /\ t = "T"
  <2>1. z.round # q /\ z.round # q + 1 BY <1>1, <1>2
  <2>2. q = z.round + 1 => z.round = q - 1 BY <1>1
  <2>3. q = z.round + 1 => y.count = z.count + y.size /\ ~z.finished BY <1>2, <2>2 DEF Joins
  <2>4. Agree(s, y, t, z) BY <1>2, <2>1, <2>3 DEF Agree
  <2>5. Agree(t, z, s, y) BY <1>2, <2>1 DEF Agree
  <2> QED BY <2>4, <2>5
<1>3. CASE s = "T" /\ t = "D"
  <2>1. z.round # q + 1 BY <1>1, <1>3
  <2>2. z.round = q => y.count = z.count + y.size /\ y.size <= z.size + 1 BY <1>3 DEF Joins
  <2>3. Agree(s, y, t, z) BY <1>3 DEF Agree
  <2>4. Agree(t, z, s, y) BY <1>3, <2>1, <2>2 DEF Agree
  <2> QED BY <2>3, <2>4
<1>4. CASE s = "D" /\ t = "T"
  <2>1. z.round # q BY <1>1, <1>4
  <2>2. q = z.round + 1 => z.round = q - 1 BY <1>1
  <2>3. q = z.round + 1 => y.count = z.count BY <1>4, <2>2 DEF Joins
  <2>4. Agree(s, y, t, z) BY <1>4, <2>1, <2>3 DEF Agree
  <2>5. Agree(t, z, s, y) BY <1>4 DEF Agree
  <2> QED BY <2>4, <2>5
<1>5. CASE s = "D" /\ t = "D"
  <2>1. z.round # q BY <1>1, <1>5
  <2> QED BY <1>5, <2>1 DEF Agree
<1> QED BY <1>2, <1>3, <1>4, <1>5 DEF Roles

(* The rows a verification starts from. *)
VerifyInputs(e, R, J, k, r, q) ==
    LET got == J[k].got[r]
        source == got["source"]
        proposal == got["predecessor"]
    IN  /\ got["classified"] = source
        /\ source.count \in Int /\ source.version = 2 * q - 1 /\ q <= source.count
        /\ ~source.finished
        /\ proposal.count = source.count /\ proposal.size \in Int
        /\ 1 <= proposal.size /\ proposal.size <= Depth /\ proposal.count + proposal.size <= MaxNew
        /\ J[k].work.budget[r] = Minimum(Depth, MaxNew - source.count)
        /\ 1 <= q
        /\ \A z : Item(e, R, J, "T", r, z) /\ z.round = q - 1 => z = source
        /\ \A z : Item(e, R, J, "D", r, z) /\ z.round = q => z = proposal

(* The inputs of a verification are the newest rows of its request. *)
LEMMA VerifySupplied ==
    ASSUME NEW e, NEW R, NEW J, NEW C, NEW k, Supplied(e, R, J, C, k), NEW r \in Live(J[k]),
           NEW q, J[k].work.role = "T", q = J[k].work.round[r], ~J[k].work.initial
    PROVE  VerifyInputs(e, R, J, k, r, q)
<1> DEFINE s == "T"
           c == J[k].got[r]["classified"]
           source == J[k].got[r]["source"]
           proposal == J[k].got[r]["predecessor"]
           row == Res(R, "T", r)
<1>1. Good(e, R, J, C) /\ k \in DOMAIN J BY DEF Supplied
<1>2. Inputs(e, R, J, k, r, s, q) BY SuppliedInputs
<1>3. Other(s) = "D" /\ "D" \in Roles /\ "T" \in Roles /\ First("T") = 0 /\ First("D") = 1
  BY DEF Other, Roles, First
<1>4. /\ r \in Requests /\ r \in Members(J[k].work) /\ q \in Int /\ 1 <= q /\ Last("T", row) = q - 1
      /\ Item(e, R, J, "T", r, c) /\ c.round = q - 1
      /\ Item(e, R, J, "D", r, proposal) /\ proposal.round = q
      /\ Item(e, R, J, "T", r, source) /\ source.round = q - 1
  BY <1>2, <1>3 DEF Inputs
<1>5. Content(e, R, J) /\ Item(e, R, J, "T", r, row) BY <1>1 DEF Good, Item
<1> HIDE DEF c, source, proposal, row
<1>6. c = source BY <1>3, <1>4, <1>5, SameRound
<1>7. row.round = q - 1
  <2>1. /\ row # NoFact => Last("T", row) = row.round
        /\ row = NoFact => Last("T", row) = -1
    BY <1>3, <1>4, <1>5, LastRound
  <2> QED BY <1>4, <2>1
<1>8. row = source BY <1>3, <1>4, <1>5, <1>7, SameRound
<1>9. GoodRow("T", source) /\ GoodRow("D", proposal) BY <1>3, <1>4, <1>5, ItemRound
<1>10. source # NoFact /\ proposal # NoFact BY <1>4 DEF NoFact
<1>11. /\ source.count \in Int /\ source.round < source.count /\ source.version = Version("T", q - 1)
       /\ proposal.count \in Int /\ proposal.size \in Int /\ 1 <= proposal.size
       /\ proposal.size <= Depth /\ proposal.count + proposal.size <= MaxNew
  <2>1. source \in Row /\ proposal \in Row BY <1>9 DEF GoodRow
  <2>2. source.count \in Int /\ proposal.count \in Int /\ proposal.size \in Int BY <2>1 DEF Row
  <2>3. source.round < source.count /\ source.version = Version("T", q - 1)
    BY <1>4, <1>9, <1>10 DEF GoodRow
  <2>4. proposal.size >= 1 /\ proposal.size <= Depth /\ proposal.count + proposal.size <= MaxNew
    BY <1>9, <1>10 DEF GoodRow
  <2> QED BY <2>2, <2>3, <2>4
<1>12. source.version = 2 * q - 1 /\ q <= source.count
  <2>1. Version("T", q - 1) = 2 * (q - 1) + 1 BY DEF Version
  <2> QED BY <1>4, <1>11, <2>1
<1>13. proposal.count = source.count
  <2>1. Agree("D", proposal, "T", source) BY <1>3, <1>4, <1>5 DEF Content
  <2>2. proposal.round = source.round + 1 BY <1>4
  <2> QED BY <1>10, <2>1, <2>2 DEF Agree
<1>14. ~source.finished /\ J[k].work.budget[r] = Minimum(Depth, MaxNew - source.count)
  <2>1. Continues(R, J[k], r) BY <1>1, <1>4, MemberFacts
  <2>2. r \in Live(J[k]) \ J[k].published BY <1>1, Unfinished DEF Supplied
  <2> QED BY <1>8, <2>1, <2>2 DEF Continues, row
<1>15. \A z : Item(e, R, J, "T", r, z) /\ z.round = q - 1 => z = source
  BY <1>3, <1>4, <1>5, SameRound
<1>16. \A z : Item(e, R, J, "D", r, z) /\ z.round = q => z = proposal
  BY <1>3, <1>4, <1>5, SameRound
<1> QED BY <1>4, <1>6, <1>11, <1>12, <1>13, <1>14, <1>15, <1>16
        DEF VerifyInputs, c, source, proposal

(* The inputs of a verification agree, and its outputs continue the rounds. *)
LEMMA VerifyOutputs ==
    ASSUME NEW e, NEW R, NEW J, NEW C, NEW k, Supplied(e, R, J, C, k), NEW r \in Live(J[k]),
           NEW q, J[k].work.role = "T", q = J[k].work.round[r], ~J[k].work.initial
    PROVE  /\ ~TargetMismatch(J[k], r)
           /\ \A y \in TargetOutputs(J[k], r) : Fresh(e, R, J, k, r, "T", q, y)
<1> DEFINE source == J[k].got[r]["source"]
           proposal == J[k].got[r]["predecessor"]
<1>1. VerifyInputs(e, R, J, k, r, q) BY VerifySupplied
<1>2. Inputs(e, R, J, k, r, "T", q) /\ Newest(e, R, J, r, "T", q) BY SuppliedInputs, NothingNewer
<1>3. /\ k \in Keys /\ q \in Int /\ J[k].work.key = k /\ "T" \in Roles BY <1>2 DEF Inputs
<1>4. /\ J[k].got[r]["classified"] = source
      /\ source.count \in Int /\ source.version = 2 * q - 1 /\ q <= source.count /\ ~source.finished
      /\ proposal.count = source.count /\ proposal.size \in Int
      /\ 1 <= proposal.size /\ proposal.size <= Depth /\ proposal.count + proposal.size <= MaxNew
      /\ J[k].work.budget[r] = Minimum(Depth, MaxNew - source.count) /\ 1 <= q
      /\ \A z : Item(e, R, J, "T", r, z) /\ z.round = q - 1 => z = source
      /\ \A z : Item(e, R, J, "D", r, z) /\ z.round = q => z = proposal
  BY <1>1 DEF VerifyInputs
<1>5. MaxNew \in Int /\ Depth \in Int BY PipelineAssumptions
<1>6. ~TargetMismatch(J[k], r)
  <2> HIDE DEF source, proposal
  <2>1. ~(source.count >= MaxNew) /\ ~(source.count + proposal.size > MaxNew) BY <1>4, <1>5
  <2>2. ~(proposal.size > Minimum(J[k].work.budget[r], Depth)) BY <1>4, <1>5 DEF Minimum
  <2> QED BY <1>4, <2>1, <2>2 DEF TargetMismatch, source, proposal
<1>7. ASSUME NEW y \in TargetOutputs(J[k], r) PROVE Fresh(e, R, J, k, r, "T", q, y)
  <2> DEFINE most == Minimum(proposal.size + 1, MaxNew - source.count)
  <2>1. PICK t \in 1 .. most : \E stop \in BOOLEAN :
            y = [round |-> q, work |-> k, version |-> source.version + 2, count |-> source.count + t,
                 size |-> t, finished |-> stop \/ source.count + t = MaxNew]
    BY <1>3 DEF TargetOutputs
  <2>2. PICK stop \in BOOLEAN :
            y = [round |-> q, work |-> k, version |-> source.version + 2, count |-> source.count + t,
                 size |-> t, finished |-> stop \/ source.count + t = MaxNew]
    BY <2>1
  <2> HIDE DEF source, proposal
  <2>3. t \in Int /\ 1 <= t /\ t <= proposal.size + 1 /\ source.count + t <= MaxNew
    BY <1>4, <1>5 DEF Minimum
  <2>4. /\ y.round = q /\ y.work = k /\ y.version = source.version + 2 /\ y.count = source.count + t
        /\ y.size = t /\ (y.count = MaxNew => y.finished)
    BY <2>2
  <2>5. source.version + 2 = Version("T", q) /\ source.version + 2 \in Int BY <1>3, <1>4 DEF Version
  <2>6. y \in Row
    <3>1. source.count + t \in Int BY <1>4, <2>3
    <3>2. (stop \/ source.count + t = MaxNew) \in BOOLEAN OBVIOUS
    <3> QED BY <1>3, <2>2, <2>3, <2>5, <3>1, <3>2 DEF Row
  <2>7. GoodRow("T", y)
    <3>1. y.round >= First("T") BY <1>3, <1>4, <2>4 DEF First
    <3>2. y.round < y.count /\ y.count <= MaxNew /\ y.size >= 1 /\ y.round # 0
      BY <1>3, <1>4, <1>5, <2>3, <2>4
    <3> QED BY <2>4, <2>5, <2>6, <3>1, <3>2 DEF GoodRow
  <2>8. Joins(e, R, J, r, "T", q, y)
    <3>1. ASSUME NEW z, Item(e, R, J, "T", r, z), z.round = q - 1
          PROVE  y.count = z.count + y.size /\ ~z.finished
      BY <1>4, <2>4, <3>1
    <3>2. ASSUME NEW z, Item(e, R, J, "D", r, z), z.round = q
          PROVE  y.count = z.count + y.size /\ y.size <= z.size + 1
      BY <1>4, <2>3, <2>4, <3>2
    <3> QED BY <3>1, <3>2 DEF Joins
  <2>9. \A t1 \in Roles : \A z : Item(e, R, J, t1, r, z) => Agree("T", y, t1, z) /\ Agree(t1, z, "T", y)
    BY <1>2, <1>3, <2>4, <2>8, JoinsFresh
  <2> QED BY <2>4, <2>6, <2>7, <2>9 DEF Fresh
<1> QED BY <1>6, <1>7

(* The first output of a request. *)
LEMMA FirstOutputs ==
    ASSUME NEW e, NEW R, NEW J, NEW C, NEW k, Supplied(e, R, J, C, k), NEW r \in Live(J[k]),
           NEW q, J[k].work.role = "T", q = J[k].work.round[r], J[k].work.initial
    PROVE  /\ ~TargetMismatch(J[k], r)
           /\ \A y \in TargetOutputs(J[k], r) : Fresh(e, R, J, k, r, "T", q, y)
<1>1. Inputs(e, R, J, k, r, "T", q) /\ Newest(e, R, J, r, "T", q) BY SuppliedInputs, NothingNewer
<1>2. k \in Keys /\ J[k].work.key = k /\ "T" \in Roles /\ q = 0 /\ r \in Requests
  BY <1>1 DEF Inputs, First
<1>3. MaxNew \in Int /\ 1 <= MaxNew /\ Content(e, R, J) BY PipelineAssumptions DEF Supplied, Good
<1>4. ASSUME NEW y \in TargetOutputs(J[k], r) PROVE Fresh(e, R, J, k, r, "T", q, y)
  <2>1. PICK stop \in BOOLEAN :
            y = [round |-> q, work |-> k, version |-> 1, count |-> 1,
                 size |-> 1, finished |-> stop \/ 1 = MaxNew]
    <3>1. PICK t \in 1 .. 1 : \E stop \in BOOLEAN :
            y = [round |-> q, work |-> k, version |-> 1, count |-> 0 + t,
                 size |-> t, finished |-> stop \/ 0 + t = MaxNew]
      BY <1>2 DEF TargetOutputs
    <3>2. t = 1 /\ 0 + t = 1 OBVIOUS
    <3> QED BY <3>1, <3>2
  <2>2. /\ y.round = q /\ y.work = k /\ y.version = 1 /\ y.count = 1 /\ y.size = 1
        /\ (y.count = MaxNew => y.finished)
    BY <2>1
  <2>3. y \in Row BY <1>2, <2>1 DEF Row
  <2>4. GoodRow("T", y)
    <3>1. Version("T", q) = 1 /\ First("T") = 0 BY <1>2 DEF Version, First
    <3> QED BY <1>2, <1>3, <2>2, <2>3, <3>1 DEF GoodRow
  <2>5. Joins(e, R, J, r, "T", q, y)
    <3>1. ASSUME NEW t \in Roles, NEW z, Item(e, R, J, t, r, z), z # NoFact
          PROVE  z.round \in Int /\ First(t) <= z.round /\ First("T") = 0 /\ First("D") = 1
      BY <1>2, <1>3, <3>1, LastRound DEF First
    <3>2. "D" \in Roles BY DEF Roles
    <3>3. \A z : ~(Item(e, R, J, "T", r, z) /\ z # NoFact /\ z.round = q - 1) BY <1>2, <3>1
    <3>4. \A z : ~(Item(e, R, J, "D", r, z) /\ z # NoFact /\ z.round = q) BY <1>2, <3>1, <3>2
    <3> QED BY <3>3, <3>4 DEF Joins
  <2>6. \A t1 \in Roles : \A z : Item(e, R, J, t1, r, z) => Agree("T", y, t1, z) /\ Agree(t1, z, "T", y)
    <3>1. q \in Int BY <1>2
    <3> QED BY <1>1, <1>2, <2>2, <2>5, <3>1, JoinsFresh
  <2> QED BY <2>2, <2>3, <2>4, <2>6 DEF Fresh
<1>5. ~TargetMismatch(J[k], r) BY DEF TargetMismatch
<1> QED BY <1>4, <1>5

(* The rows a proposal starts from. *)
ProposeInputs(e, R, J, k, r, q) ==
    LET got == J[k].got[r]
        source == got["source"]
        delta == got["predecessor"]
    IN  /\ delta.count \in Int /\ delta.size \in Int /\ 1 <= delta.size /\ 1 <= q
        /\ q <= delta.count /\ delta.count < MaxNew
        /\ DraftCount(J[k], r) = delta.count
        /\ ~J[k].work.initial =>
              /\ source.round = q - 1 /\ source.version = q - 1
              /\ source.size \in Int /\ delta.size <= source.size + 1
        /\ \A z : Item(e, R, J, "T", r, z) /\ z.round = q - 1 => z = delta

(* The inputs of a proposal are the newest rows of its request. *)
LEMMA ProposeSupplied ==
    ASSUME NEW e, NEW R, NEW J, NEW C, NEW k, Supplied(e, R, J, C, k), NEW r \in Live(J[k]),
           NEW q, J[k].work.role = "D", q = J[k].work.round[r]
    PROVE  ProposeInputs(e, R, J, k, r, q)
<1> DEFINE s == "D"
           source == J[k].got[r]["source"]
           delta == J[k].got[r]["predecessor"]
           row == Res(R, "T", r)
<1>1. Good(e, R, J, C) /\ k \in DOMAIN J BY DEF Supplied
<1>2. Inputs(e, R, J, k, r, s, q) BY SuppliedInputs
<1>3. Other(s) = "T" /\ "D" \in Roles /\ "T" \in Roles /\ First("T") = 0 /\ First("D") = 1
  BY DEF Other, Roles, First
<1>4. /\ r \in Requests /\ r \in Members(J[k].work) /\ q \in Int /\ 1 <= q
      /\ Last("D", Res(R, "D", r)) = q - 1
      /\ Item(e, R, J, "T", r, delta) /\ delta.round = q - 1
      /\ q - 1 <= row.round
      /\ (J[k].work.initial <=> q = 1)
  BY <1>2, <1>3 DEF Inputs
<1>5. Content(e, R, J) /\ Item(e, R, J, "T", r, row) /\ Chain(e, R, r)
  BY <1>1, <1>4 DEF Good, Item, Frontier
<1>6. row.round = q - 1
  <2>1. row.round <= q - 1 BY <1>4, <1>5 DEF Chain
  <2>2. row.round \in Int BY <1>3, <1>4, <1>5, LastRound
  <2> QED BY <1>4, <2>1, <2>2
<1> HIDE DEF source, delta, row
<1>7. row = delta BY <1>3, <1>4, <1>5, <1>6, SameRound
<1>8. ~delta.finished
  <2>1. Continues(R, J[k], r) BY <1>1, <1>4, MemberFacts
  <2>2. r \in Live(J[k]) \ J[k].published BY <1>1, Unfinished DEF Supplied
  <2>3. "classified" \notin J[k].watch[r] BY <1>4 DEF Supplied
  <2> QED BY <1>4, <1>6, <1>7, <2>1, <2>2, <2>3 DEF Continues, row
<1>9. GoodRow("T", delta) /\ delta # NoFact
  <2>1. GoodRow("T", delta) BY <1>3, <1>4, <1>5, ItemRound
  <2>2. delta # NoFact BY <1>4 DEF NoFact
  <2> QED BY <2>1, <2>2
<1>10. delta.count \in Int /\ delta.size \in Int BY <1>9 DEF GoodRow, Row
<1>11. /\ delta.size >= 1 /\ delta.round < delta.count /\ delta.count <= MaxNew
       /\ delta.count = MaxNew => delta.finished
       /\ delta.round = 0 => delta.count = delta.size
  BY <1>9 DEF GoodRow
<1>12. q <= delta.count /\ delta.count < MaxNew
  <2>1. MaxNew \in Int BY PipelineAssumptions
  <2> QED BY <1>4, <1>8, <1>10, <1>11, <2>1
<1>13. ASSUME ~J[k].work.initial
       PROVE  /\ source.round = q - 1 /\ source.version = q - 1 /\ source.count \in Int
              /\ source.size \in Int /\ delta.size <= source.size + 1
              /\ delta.count = source.count + delta.size
  <2>1. Item(e, R, J, "D", r, source) /\ source.round = q - 1 BY <1>2, <1>13 DEF Inputs, source
  <2>2. GoodRow("D", source) BY <1>3, <1>4, <1>5, <2>1, ItemRound
  <2>3. source # NoFact
    <3>1. q # 1 BY <1>4, <1>13
    <3> QED BY <1>4, <2>1, <3>1 DEF NoFact
  <2>4. source.count \in Int /\ source.size \in Int BY <2>2 DEF GoodRow, Row
  <2>5. source.version = q - 1 BY <2>1, <2>2, <2>3 DEF GoodRow, Version
  <2>6. Agree("D", source, "T", delta) BY <1>3, <1>4, <1>5, <2>1 DEF Content
  <2>7. source.round = delta.round BY <1>4, <2>1
  <2>8. delta.count = source.count + delta.size /\ delta.size <= source.size + 1
    BY <1>9, <2>3, <2>6, <2>7 DEF Agree
  <2> QED BY <2>1, <2>4, <2>5, <2>8
<1>14. DraftCount(J[k], r) = delta.count
  <2>1. CASE J[k].work.initial
    <3>1. delta.round = 0 BY <1>4, <2>1
    <3>2. delta.count = delta.size BY <1>11, <3>1
    <3> QED BY <2>1, <3>2 DEF DraftCount, delta
  <2>2. CASE ~J[k].work.initial BY <1>13, <2>2 DEF DraftCount, delta, source
  <2> QED BY <2>1, <2>2
<1>15. \A z : Item(e, R, J, "T", r, z) /\ z.round = q - 1 => z = delta
  BY <1>3, <1>4, <1>5, SameRound
<1>16. 1 <= delta.size BY <1>10, <1>11
<1> QED BY <1>4, <1>10, <1>12, <1>13, <1>14, <1>15, <1>16 DEF ProposeInputs, source, delta

(* The inputs of a proposal agree, and its outputs continue the rounds. *)
LEMMA ProposeOutputs ==
    ASSUME NEW e, NEW R, NEW J, NEW C, NEW k, Supplied(e, R, J, C, k), NEW r \in Live(J[k]),
           NEW q, J[k].work.role = "D", q = J[k].work.round[r]
    PROVE  /\ ~DraftMismatch(J[k], r)
           /\ \A y \in DraftOutputs(J[k], r) : Fresh(e, R, J, k, r, "D", q, y)
<1> DEFINE source == J[k].got[r]["source"]
           delta == J[k].got[r]["predecessor"]
           limit == DraftLimit(J[k], r)
<1>1. ProposeInputs(e, R, J, k, r, q) BY ProposeSupplied
<1>2. Inputs(e, R, J, k, r, "D", q) /\ Newest(e, R, J, r, "D", q) BY SuppliedInputs, NothingNewer
<1>3. /\ k \in Keys /\ q \in Int /\ J[k].work.key = k /\ "D" \in Roles
      /\ J[k].work.budget[r] \in Int /\ 1 <= J[k].work.budget[r] /\ (J[k].work.initial <=> q = 1)
  BY <1>2 DEF Inputs, First
<1>4. /\ delta.count \in Int /\ delta.size \in Int /\ 1 <= delta.size /\ 1 <= q
      /\ q <= delta.count /\ delta.count < MaxNew
      /\ DraftCount(J[k], r) = delta.count
      /\ ~J[k].work.initial =>
            /\ source.round = q - 1 /\ source.version = q - 1
            /\ source.size \in Int /\ delta.size <= source.size + 1
      /\ \A z : Item(e, R, J, "T", r, z) /\ z.round = q - 1 => z = delta
  BY <1>1 DEF ProposeInputs
<1>5. MaxNew \in Int /\ Depth \in Int /\ 1 <= Depth BY PipelineAssumptions
<1>6. limit \in Int /\ 1 <= limit /\ limit <= Depth /\ delta.count + limit <= MaxNew
  <2> HIDE DEF delta
  <2>1. limit = Minimum(Minimum(J[k].work.budget[r], Depth), MaxNew - delta.count)
    BY <1>4 DEF DraftLimit
  <2> HIDE DEF limit
  <2> QED BY <1>3, <1>4, <1>5, <2>1 DEF Minimum
<1>7. ~DraftMismatch(J[k], r)
  <2> HIDE DEF source, delta, limit
  <2>1. ~(limit <= 0) /\ delta.size # 0 BY <1>4, <1>6
  <2>2. ~J[k].work.initial => ~(source.round >= q) /\ ~(delta.size - 1 > source.size)
    BY <1>3, <1>4
  <2> QED BY <2>1, <2>2 DEF DraftMismatch, source, delta, limit
<1>8. ASSUME NEW y \in DraftOutputs(J[k], r) PROVE Fresh(e, R, J, k, r, "D", q, y)
  <2>1. PICK n \in 1 .. limit :
            y = [round |-> q, work |-> k,
                 version |-> IF J[k].work.initial THEN 1 ELSE source.version + 1,
                 count |-> delta.count, size |-> n, finished |-> FALSE]
    BY <1>3, <1>4 DEF DraftOutputs
  <2> HIDE DEF source, delta, limit
  <2>2. n \in Int /\ 1 <= n /\ n <= limit BY <1>6
  <2>3. (IF J[k].work.initial THEN 1 ELSE source.version + 1) = q BY <1>3, <1>4
  <2>4. y = [round |-> q, work |-> k, version |-> q, count |-> delta.count, size |-> n,
             finished |-> FALSE]
    BY <2>1, <2>3
  <2>5. y \in Row BY <1>3, <1>4, <2>2, <2>4 DEF Row
  <2>6. /\ y.round = q /\ y.work = k /\ y.version = q /\ y.count = delta.count /\ y.size = n
    BY <2>4
  <2>7. GoodRow("D", y)
    <3>1. Version("D", q) = q /\ First("D") = 1 BY DEF Version, First
    <3>2. y.size >= 1 /\ y.size <= Depth /\ 1 <= y.count /\ y.count + y.size <= MaxNew
      BY <1>3, <1>4, <1>5, <1>6, <2>2, <2>6
    <3> QED BY <1>3, <1>4, <2>5, <2>6, <3>1, <3>2 DEF GoodRow
  <2>8. Joins(e, R, J, r, "D", q, y) BY <1>4, <2>6 DEF Joins
  <2>9. \A t1 \in Roles : \A z : Item(e, R, J, t1, r, z) => Agree("D", y, t1, z) /\ Agree(t1, z, "D", y)
    BY <1>2, <1>3, <2>6, <2>8, JoinsFresh
  <2> QED BY <2>5, <2>6, <2>7, <2>9 DEF Fresh
<1> QED BY <1>7, <1>8

(* A job that has computed. *)
Computing(job, out) ==
    [job EXCEPT !.computed = TRUE,
                !.got = [m \in DOMAIN @ |->
                            [NewJob(job.work).got[m] EXCEPT !["source"] = job.got[m]["source"]]],
                !.out = [m \in DOMAIN @ |-> IF m \in Live(job) THEN out[m] ELSE @[m]]]

(* What has changed. *)
ComputedFrom(job, out, x) ==
    /\ x \in Job /\ x.work = job.work /\ x.watch = job.watch /\ x.skip = job.skip
    /\ x.imported = job.imported /\ x.published = job.published /\ x.exported = job.exported
    /\ x.computed /\ DOMAIN x.got = Members(job.work) /\ DOMAIN x.out = Members(job.work)
    /\ \A m \in Members(job.work) :
         /\ x.got[m]["source"] = job.got[m]["source"]
         /\ x.got[m]["classified"] = NoFact /\ x.got[m]["predecessor"] = NoFact
         /\ m \in Live(job) => x.out[m] = out[m]
         /\ m \notin Live(job) => x.out[m] = job.out[m]

(* What a computation changes in a job. *)
LEMMA ComputingFields ==
    ASSUME NEW job \in Job, Staged(job), Members(job.work) \subseteq Requests,
           NEW out, \A m \in Live(job) : out[m] \in Row
    PROVE  ComputedFrom(job, out, Computing(job, out))
<1> DEFINE B == Members(job.work)
           one(m) == [NewJob(job.work).got[m] EXCEPT !["source"] = job.got[m]["source"]]
           got == [m \in B |-> one(m)]
           new == [m \in B |-> IF m \in Live(job) THEN out[m] ELSE job.out[m]]
           x == [job EXCEPT !.computed = TRUE, !.got = got, !.out = new]
<1>1. /\ job.got \in PerMember([Names -> Row]) /\ job.out \in PerMember(Row)
      /\ DOMAIN job.got = B /\ DOMAIN job.out = B /\ B \in SUBSET Requests
  BY DEF Job, Staged
<1>2. NoFact \in Row BY DEF NoFact, Row, NoKey, Keys
<1>3. "source" \in Names /\ "classified" \in Names /\ "predecessor" \in Names BY DEF Names
<1>4. ASSUME NEW m \in B
      PROVE  /\ one(m) \in [Names -> Row] /\ one(m)["source"] = job.got[m]["source"]
             /\ one(m)["classified"] = NoFact /\ one(m)["predecessor"] = NoFact
  <2>1. job.got[m] \in [Names -> Row] BY <1>1, MemberMap
  <2>2. job.got[m]["source"] \in Row BY <1>3, <2>1
  <2>3. NewJob(job.work).got[m] = [n \in Names |-> NoFact] BY DEF NewJob
  <2> DEFINE v == job.got[m]["source"]
             none == [n \in Names |-> NoFact]
  <2>4. one(m) = [none EXCEPT !["source"] = v] BY <2>3
  <2>5. none \in [Names -> Row] /\ none["classified"] = NoFact /\ none["predecessor"] = NoFact
    BY <1>2, <1>3
  <2>6. v \in Row BY <2>2
  <2> HIDE DEF v, none, one
  <2>7. /\ one(m) \in [Names -> Row] /\ one(m)["source"] = v
        /\ one(m)["classified"] = NoFact /\ one(m)["predecessor"] = NoFact
    BY <1>3, <2>4, <2>5, <2>6
  <2> QED BY <2>7 DEF v
<1>5. ASSUME NEW m \in B
      PROVE  /\ new[m] \in Row
             /\ m \in Live(job) => new[m] = out[m]
             /\ m \notin Live(job) => new[m] = job.out[m]
  <2>1. job.out[m] \in Row BY <1>1, MemberMap
  <2> QED BY <2>1
<1>6. /\ DOMAIN got = B /\ \A m \in B : got[m] = one(m)
      /\ got = [m \in B |-> got[m]] /\ DOMAIN new = B /\ new = [m \in B |-> new[m]]
  OBVIOUS
<1> HIDE DEF one
<1>7. x = Computing(job, out) BY <1>1 DEF Computing, one, B
<1> HIDE DEF got, new
<1>8. got \in PerMember([Names -> Row])
  <2>1. \A m \in B : got[m] \in [Names -> Row] BY <1>4, <1>6
  <2>2. B \in SUBSET Requests /\ got = [m \in B |-> got[m]] BY <1>1, <1>6
  <2> DEFINE S == [Names -> Row]
  <2> HIDE DEF B, S
  <2>3. \A m \in B : got[m] \in S BY <2>1 DEF S
  <2>4. got \in PerMember(S) BY <2>2, <2>3, MakeMemberMap
  <2> QED BY <2>4 DEF S
<1>9. new \in PerMember(Row) BY <1>1, <1>5, <1>6, MakeMemberMap
<1>10. x \in Job BY <1>8, <1>9 DEF Job
<1>11. /\ x.work = job.work /\ x.watch = job.watch /\ x.skip = job.skip
       /\ x.imported = job.imported /\ x.published = job.published /\ x.exported = job.exported
       /\ x.computed /\ x.got = got /\ x.out = new
  BY DEF Job
<1> HIDE DEF x
<1>12. \A m \in B : /\ x.got[m]["source"] = job.got[m]["source"]
                    /\ x.got[m]["classified"] = NoFact /\ x.got[m]["predecessor"] = NoFact
                    /\ m \in Live(job) => x.out[m] = out[m]
                    /\ m \notin Live(job) => x.out[m] = job.out[m]
  BY <1>4, <1>5, <1>6, <1>11
<1>13. ComputedFrom(job, out, x)
  BY <1>6, <1>10, <1>11, <1>12 DEF ComputedFrom, B
<1> QED BY <1>7, <1>13

(* The outputs of a WORK join the rows that are there. *)
LEMMA ComputeContent ==
    ASSUME NEW e, NEW R, NEW J, NEW C, NEW k, Supplied(e, R, J, C, k), NEW out, NEW x,
           ComputedFrom(J[k], out, x),
           \A r \in Live(J[k]) : Fresh(e, R, J, k, r, J[k].work.role, J[k].work.round[r], out[r]),
           NEW K, K = [J EXCEPT ![k] = x]
    PROVE  Content(e, R, K)
<1> DEFINE s == J[k].work.role
<1>1. Good(e, R, J, C) /\ k \in DOMAIN J /\ Content(e, R, J) BY DEF Supplied, Good
<1>2. s \in Roles /\ Staged(J[k]) BY <1>1, JobFacts
<1>3. \A t \in Roles : \A z : GoodRow(t, NoFact) /\ Agree(t, z, s, NoFact) /\ Agree(s, NoFact, t, z)
                              /\ \A v \in Roles : Agree(t, z, v, NoFact) /\ Agree(v, NoFact, t, z)
  BY DEF GoodRow, Agree, NoFact, NoKey, Row, Keys
<1>4. ASSUME NEW t \in Roles, NEW m \in Requests, NEW z, Item(e, R, K, t, m, z)
      PROVE  \/ z = NoFact \/ Item(e, R, J, t, m, z)
             \/ t = s /\ m \in Live(J[k]) /\ z = out[m]
  <2>1. CASE z \in {Res(R, t, m), Host(R, t, m), Result(e, t, m)} BY <2>1 DEF Item
  <2>2. ASSUME NEW j \in DOMAIN K, Carries(K[j], t, m, z)
        PROVE  \/ z = NoFact \/ Item(e, R, J, t, m, z)
               \/ t = s /\ m \in Live(J[k]) /\ z = out[m]
    <3>1. CASE j # k BY <2>2, <3>1 DEF Item
    <3>2. CASE j = k
      <4>1. Carries(x, t, m, z) BY <1>1, <2>2, <3>2
      <4>2. x.work = J[k].work BY DEF ComputedFrom
      <4>3. m \in Members(J[k].work) BY <4>1, <4>2 DEF Carries
      <4>4. /\ x.got[m]["source"] = J[k].got[m]["source"]
            /\ x.got[m]["classified"] = NoFact /\ x.got[m]["predecessor"] = NoFact
            /\ m \in Live(J[k]) => x.out[m] = out[m]
            /\ m \notin Live(J[k]) => x.out[m] = J[k].out[m]
        BY <4>3 DEF ComputedFrom
      <4>5. \/ z = NoFact \/ Carries(J[k], t, m, z)
            \/ t = s /\ m \in Live(J[k]) /\ z = out[m]
        BY <4>1, <4>2, <4>3, <4>4 DEF Carries
      <4> QED BY <1>1, <4>5 DEF Item
    <3> QED BY <3>1, <3>2
  <2> QED BY <1>4, <2>1, <2>2 DEF Item
<1>5. ASSUME NEW m \in Live(J[k])
      PROVE  /\ GoodRow(s, out[m]) /\ out[m].round \in Int
             /\ \A t \in Roles : \A z : Item(e, R, J, t, m, z) =>
                    Agree(s, out[m], t, z) /\ Agree(t, z, s, out[m])
  BY DEF Fresh, Row
<1>6. ASSUME NEW m \in Live(J[k]) PROVE Agree(s, out[m], s, out[m])
  <2>1. out[m].round # out[m].round + 1 BY <1>5
  <2>2. ~(s = "D" /\ s = "T") OBVIOUS
  <2> QED BY <2>1, <2>2 DEF Agree
<1> HIDE DEF s
<1>7. ASSUME NEW m \in Requests, NEW t \in Roles, NEW z, Item(e, R, K, t, m, z)
      PROVE  /\ GoodRow(t, z)
             /\ \A v \in Roles : \A y : Item(e, R, K, v, m, y) => Agree(t, z, v, y)
  <2>1. z = NoFact \/ Item(e, R, J, t, m, z) \/ (t = s /\ m \in Live(J[k]) /\ z = out[m])
    BY <1>4, <1>7
  <2>2. GoodRow(t, z) BY <1>1, <1>3, <1>5, <2>1 DEF Content
  <2>3. ASSUME NEW v \in Roles, NEW y, Item(e, R, K, v, m, y) PROVE Agree(t, z, v, y)
    <3>1. y = NoFact \/ Item(e, R, J, v, m, y) \/ (v = s /\ m \in Live(J[k]) /\ y = out[m])
      BY <1>4, <2>3
    <3>2. CASE z = NoFact \/ y = NoFact BY <1>3, <3>2
    <3>3. CASE Item(e, R, J, t, m, z) /\ Item(e, R, J, v, m, y) BY <1>1, <3>3 DEF Content
    <3>4. CASE Item(e, R, J, t, m, z) /\ v = s /\ m \in Live(J[k]) /\ y = out[m] BY <1>5, <3>4
    <3>5. CASE Item(e, R, J, v, m, y) /\ t = s /\ m \in Live(J[k]) /\ z = out[m] BY <1>5, <3>5
    <3>6. CASE t = s /\ z = out[m] /\ v = s /\ m \in Live(J[k]) /\ y = out[m] BY <1>6, <3>6
    <3> QED BY <2>1, <3>1, <3>2, <3>3, <3>4, <3>5, <3>6
  <2> QED BY <2>2, <2>3
<1> QED BY <1>7 DEF Content

(* A job that has computed is sane. *)
LEMMA ComputeSane ==
    ASSUME NEW e, NEW R, NEW J, NEW C, NEW k, Supplied(e, R, J, C, k), NEW out, NEW x,
           ComputedFrom(J[k], out, x),
           \A r \in Live(J[k]) : Fresh(e, R, J, k, r, J[k].work.role, J[k].work.round[r], out[r])
    PROVE  JobSane(e, R, k, x)
<1> DEFINE job == J[k]
<1>1. /\ Good(e, R, J, C) /\ k \in DOMAIN J /\ ~job.computed
      /\ \A m \in Members(job.work) : job.watch[m] = {}
  BY DEF Supplied
<1>2. /\ job.work.role \in Roles /\ Staged(job) /\ Frozen(job.work) /\ Members(job.work) \subseteq Requests
      /\ R \in [Cells -> Row] /\ Content(e, R, J)
  BY <1>1, JobFacts DEF Good, Typed
<1>3. /\ x.work = job.work /\ x.watch = job.watch /\ x.skip = job.skip
      /\ x.imported = job.imported /\ x.published = job.published /\ x.exported = job.exported
      /\ x.computed /\ DOMAIN x.got = Members(job.work) /\ DOMAIN x.out = Members(job.work)
  BY DEF ComputedFrom
<1>4. Live(x) = Live(job) BY <1>3 DEF Live
<1>5. Staged(x)
  <2>1. /\ DOMAIN job.watch = Members(job.work)
        /\ job.published \subseteq Live(job) /\ job.exported \subseteq job.published
        /\ job.imported \subseteq Live(job)
    BY <1>2 DEF Staged
  <2> QED BY <1>1, <1>3, <1>4, <2>1 DEF Staged
<1>6. ASSUME NEW m \in Members(job.work)
      PROVE  Placed(e, R, x, m) /\ Captured(R, x, m) /\ Continues(R, x, m) /\ Produced(k, x, m)
  <2>1. /\ Placed(e, R, job, m) /\ Captured(R, job, m) /\ Continues(R, job, m) /\ Produced(k, job, m)
        /\ m \in Requests
    BY <1>1, MemberFacts
  <2>2. Placed(e, R, x, m) BY <1>3, <1>4, <2>1 DEF Placed
  <2>3. Continues(R, x, m) BY <1>3, <1>4, <2>1 DEF Continues
  <2>4. /\ x.got[m]["source"] = job.got[m]["source"]
        /\ x.got[m]["classified"] = NoFact /\ x.got[m]["predecessor"] = NoFact
        /\ m \in Live(job) => x.out[m] = out[m]
        /\ m \notin Live(job) => x.out[m] = job.out[m]
    BY DEF ComputedFrom
  <2>5. Produced(k, x, m)
    <3>1. CASE m \in Live(job)
      <4>1. out[m].round = job.work.round[m] /\ out[m].work = k BY <3>1 DEF Fresh
      <4> QED BY <1>3, <1>4, <2>4, <3>1, <4>1 DEF Produced
    <3>2. CASE m \notin Live(job) BY <1>4, <2>1, <2>4, <3>2 DEF Produced
    <3> QED BY <3>1, <3>2
  <2>6. Captured(R, x, m)
    <3> SUFFICES ASSUME NEW n \in Names
                 PROVE  LET row == R[Watched(x, m, n)] IN
                        /\ x.got[m][n].round <= row.round
                        /\ (m \in Live(x) /\ n \notin x.watch[m] /\ Applies(x.work, n)) =>
                               /\ Awaited(x.work, m, n) <= row.round
                               /\ ~x.computed \/ n = "source" => x.got[m][n].round = Awaited(x.work, m, n)
      BY DEF Captured
    <3>1. Watched(x, m, n) = Watched(job, m, n) BY <1>3 DEF Watched
    <3>2. /\ job.got[m][n].round <= R[Watched(job, m, n)].round
          /\ (m \in Live(job) /\ n \notin job.watch[m] /\ Applies(job.work, n)) =>
                 /\ Awaited(job.work, m, n) <= R[Watched(job, m, n)].round
                 /\ ~job.computed \/ n = "source" => job.got[m][n].round = Awaited(job.work, m, n)
      BY <2>1 DEF Captured
    <3>3. CASE n = "source" BY <1>1, <1>3, <1>4, <2>4, <3>1, <3>2, <3>3
    <3>4. CASE n # "source"
      <4>1. x.got[m][n].round = -1 BY <2>4, <3>4 DEF Names, NoFact
      <4>2. -1 <= R[Watched(job, m, n)].round
        <5>1. PICK t \in Roles : Item(e, R, J, t, m, R[Watched(job, m, n)]) BY <1>2, WatchedItem
        <5>2. /\ R[Watched(job, m, n)].round \in Int /\ First(t) \in 0 .. 1
              /\ R[Watched(job, m, n)] # NoFact => First(t) <= R[Watched(job, m, n)].round
              /\ R[Watched(job, m, n)] = NoFact => R[Watched(job, m, n)].round = -1
          BY <1>2, <2>1, <5>1, LastRound
        <5> QED BY <5>2
      <4> QED BY <1>3, <1>4, <3>1, <3>2, <3>4, <4>1, <4>2
    <3> QED BY <3>3, <3>4
  <2> QED BY <2>2, <2>3, <2>5, <2>6
<1> QED BY <1>2, <1>3, <1>5, <1>6 DEF JobSane

(* The inputs of a WORK agree, and what it computes joins the rows that are there. *)
LEMMA InputsAgree ==
    ASSUME NEW e, NEW R, NEW J, NEW C, NEW k, Supplied(e, R, J, C, k), NEW r \in Live(J[k])
    PROVE  /\ ~InputMismatch(J[k], r)
           /\ \A y \in Outputs(J[k], r) : Fresh(e, R, J, k, r, J[k].work.role, J[k].work.round[r], y)
<1> DEFINE q == J[k].work.round[r]
<1>1. J[k].work.role \in Roles /\ J[k].work.initial \in BOOLEAN
  <2>1. Inputs(e, R, J, k, r, J[k].work.role, q) BY SuppliedInputs
  <2> QED BY <2>1 DEF Inputs
<1>2. CASE J[k].work.role = "D"
  <2>1. ~DraftMismatch(J[k], r) /\ \A y \in DraftOutputs(J[k], r) : Fresh(e, R, J, k, r, "D", q, y)
    BY <1>2, ProposeOutputs
  <2> QED BY <1>2, <2>1 DEF InputMismatch, Outputs
<1>3. CASE J[k].work.role = "T"
  <2>1. ~TargetMismatch(J[k], r) /\ \A y \in TargetOutputs(J[k], r) : Fresh(e, R, J, k, r, "T", q, y)
    <3>1. CASE J[k].work.initial BY <1>3, <3>1, FirstOutputs
    <3>2. CASE ~J[k].work.initial BY <1>3, <3>2, VerifyOutputs
    <3> QED BY <3>1, <3>2
  <2> QED BY <1>3, <2>1 DEF InputMismatch, Outputs
<1> QED BY <1>1, <1>2, <1>3 DEF Roles

(* The computation of a WORK keeps the invariant. *)
LEMMA ComputeKeeps ==
    ASSUME PipelineInv, NEW k \in DOMAIN jobs, Compute(k)
    PROVE  PipelineInv'
<1>1. Good(eng, rows, jobs, completions) /\ failure = "none" BY DEF PipelineInv
<1>2. Supplied(eng, rows, jobs, completions, k) BY <1>1 DEF Compute, Supplied
<1>3. ASSUME NEW r \in Live(jobs[k])
      PROVE  /\ ~InputMismatch(jobs[k], r)
             /\ \A y \in Outputs(jobs[k], r) :
                    Fresh(eng, rows, jobs, k, r, jobs[k].work.role, jobs[k].work.round[r], y)
  BY <1>2, InputsAgree
<1>4. PICK out : /\ \A r \in Live(jobs[k]) : out[r] \in Outputs(jobs[k], r)
                 /\ jobs' = [jobs EXCEPT ![k] = Computing(jobs[k], out)]
                 /\ eng' = eng /\ rows' = rows /\ completions' = completions /\ failure' = failure
  BY <1>3 DEF Compute, Computing
<1> DEFINE x == Computing(jobs[k], out)
           K == [jobs EXCEPT ![k] = x]
<1>5. \A r \in Live(jobs[k]) :
          Fresh(eng, rows, jobs, k, r, jobs[k].work.role, jobs[k].work.round[r], out[r])
  BY <1>3, <1>4
<1>6. /\ jobs[k] \in Job /\ Staged(jobs[k]) /\ Members(jobs[k].work) \subseteq Requests
  BY <1>1, JobFacts
<1>7. \A r \in Live(jobs[k]) : out[r] \in Row BY <1>5 DEF Fresh
<1>8. ComputedFrom(jobs[k], out, x) BY <1>6, <1>7, ComputingFields
<1>9. jobs' = K BY <1>4
<1>10. K = [jobs EXCEPT ![k] = x] OBVIOUS
<1> HIDE DEF x, K
<1>11. Content(eng, rows, K) BY <1>2, <1>5, <1>8, <1>10, ComputeContent
<1>12. JobSane(eng, rows, k, x) BY <1>2, <1>5, <1>8, ComputeSane
<1>13. x \in Job /\ x.work = jobs[k].work /\ jobs[k].published \subseteq x.published
  BY <1>8 DEF ComputedFrom
<1>14. Good(eng, rows, K, completions) BY <1>1, <1>10, <1>11, <1>12, <1>13, JobChanges
<1>15. Good(eng', rows', jobs', completions') BY <1>4, <1>9, <1>14
<1> QED BY <1>1, <1>4, <1>15 DEF PipelineInv
-----------------------------------------------------------------------------
(***************************************************************************)
(* The theorems.                                                           *)
(***************************************************************************)
(* A worker's steps keep the invariant. *)
LEMMA WorkerKeeps ==
    ASSUME PipelineInv, NEW k \in DOMAIN jobs, Worker(k)
    PROVE  PipelineInv'
<1>1. CASE \E r \in Members(jobs[k].work), name \in Names : Capture(k, r, name)
  BY <1>1, CaptureKeeps
<1>2. CASE \E r \in Members(jobs[k].work) : PublishImport(k, r) BY <1>2, ImportKeeps
<1>3. CASE Compute(k) BY <1>3, ComputeKeeps
<1>4. CASE \E r \in Members(jobs[k].work) : PublishResult(k, r) BY <1>4, PublishResultKeeps
<1>5. CASE \E r \in Members(jobs[k].work) : PublishHost(k, r) BY <1>5, PublishHostKeeps
<1>6. CASE Complete(k) BY <1>6, CompleteKeeps
<1> QED BY <1>1, <1>2, <1>3, <1>4, <1>5, <1>6 DEF Worker

(* Every step keeps the invariant. *)
LEMMA PipelineSteps == PipelineInv /\ [Next]_vars => PipelineInv'
<1> SUFFICES ASSUME PipelineInv, [Next]_vars PROVE PipelineInv' OBVIOUS
<1>1. ASSUME NEW r \in Requests, Admit(r) PROVE PipelineInv' BY <1>1, AdmitKeeps
<1>2. ASSUME NEW k \in DOMAIN jobs, Worker(k) PROVE PipelineInv' BY <1>2, WorkerKeeps
<1>3. ASSUME NEW s \in Roles, Resend(s) PROVE PipelineInv' BY <1>3, ResendKeeps
<1>4. ASSUME NEW s \in Roles, Schedule(s) PROVE PipelineInv' BY <1>4, ScheduleKeeps
<1>5. CASE Observe BY <1>5, ObserveKeeps
<1>6. CASE UNCHANGED vars BY <1>6 DEF vars, PipelineInv
<1> QED BY <1>1, <1>2, <1>3, <1>4, <1>5, <1>6 DEF Next, SystemStep, Idle

(* PipelineInv holds in every reachable state. *)
THEOREM PipelineSafe == Spec => []PipelineInv
<1>1. Init => PipelineInv BY InitGood
<1>2. PipelineInv /\ [Next]_vars => PipelineInv' BY PipelineSteps
<1> QED BY <1>1, <1>2, PTL DEF Spec

(* No exception is reachable: no raise of the ledger, of the dependencies, of the
   inputs or of the publication. *)
THEOREM PipelineNeverFails == Spec => []NoFailure
<1>1. PipelineInv => NoFailure BY DEF PipelineInv, NoFailure
<1> QED BY <1>1, PipelineSafe, PTL

(* The rows of a request, one role at a time. *)
LEMMA Accepted1 ==
    ASSUME PipelineInv, NEW s \in Roles, NEW r \in Requests
    PROVE  Res(rows, s, r).round <= Larger(Result(eng, s, r).round, 0) + 1
<1>1. Good(eng, rows, jobs, completions) BY DEF PipelineInv
<1>2. Content(eng, rows, jobs) /\ Order(eng, rows, s, r) /\ eng \in Engine /\ rows \in [Cells -> Row]
  BY <1>1 DEF Good, Frontier, Typed
<1>3. Item(eng, rows, jobs, s, r, Res(rows, s, r)) /\ Item(eng, rows, jobs, s, r, Result(eng, s, r))
  BY DEF Item
<1>4. /\ Res(rows, s, r).round \in Int /\ Last(s, Res(rows, s, r)) \in Int
      /\ Res(rows, s, r).round <= Last(s, Res(rows, s, r))
  BY <1>2, <1>3, LastRound
<1>5. /\ Result(eng, s, r).round \in Int /\ Last(s, Result(eng, s, r)) \in Int
      /\ First(s) \in 0 .. 1
  BY <1>2, <1>3, LastRound
<1>6. IssuedRound(eng, s, r) \in Int BY <1>2, RowTypes
<1>7. Res(rows, s, r).round <= Last(s, Result(eng, s, r)) + 1 BY <1>2, <1>4, <1>5, <1>6 DEF Order
<1>8. Last(s, Result(eng, s, r)) <= Larger(Result(eng, s, r).round, 0) BY <1>5 DEF Last, Larger
<1>9. Larger(Result(eng, s, r).round, 0) \in Int BY <1>5 DEF Larger
<1> QED BY <1>4, <1>5, <1>7, <1>8, <1>9

(* What the client is told of a request. *)
LEMMA ToldRight ==
    ASSUME PipelineInv, NEW r \in Requests
    PROVE  LET target == Res(rows, "T", r)
               request == eng.req[r]
           IN  /\ request.round \in {target.round - 1, target.round}
               /\ request.round = target.round =>
                     /\ request.count = target.count
                     /\ request.lifecycle = "finished" <=> target.finished
               /\ request.round < target.round => request.count < target.count
<1> DEFINE target == Res(rows, "T", r)
           held == Result(eng, "T", r)
<1>0. "T" \in Roles /\ First("T") = 0 BY DEF Roles, First
<1>1. Good(eng, rows, jobs, completions) BY DEF PipelineInv
<1>2. /\ Content(eng, rows, jobs) /\ Order(eng, rows, "T", r) /\ Told(eng, r)
      /\ eng \in Engine /\ rows \in [Cells -> Row]
  BY <1>0, <1>1 DEF Good, Frontier, Typed
<1>3. Item(eng, rows, jobs, "T", r, target) /\ Item(eng, rows, jobs, "T", r, held) BY DEF Item
<1>4. IssuedRound(eng, "T", r) \in Int BY <1>0, <1>2, RowTypes
<1>5. Last("T", held) <= Last("T", target) /\ Last("T", target) <= IssuedRound(eng, "T", r)
      /\ IssuedRound(eng, "T", r) <= Last("T", held) + 1
  BY <1>2 DEF Order
<1> HIDE DEF target, held
<1>6. /\ target.round \in Int /\ Last("T", target) = target.round /\ 0 <= target.round + 1
      /\ target = NoFact => target.round = -1
  BY <1>0, <1>2, <1>3, LastRound
<1>7. /\ held.round \in Int /\ Last("T", held) = held.round
      /\ held # NoFact => 0 <= held.round
      /\ held = NoFact => held.round = -1
  BY <1>0, <1>2, <1>3, LastRound
<1>8. held.round \in {target.round - 1, target.round} BY <1>4, <1>5, <1>6, <1>7
<1>9. held.round = target.round => held = target BY <1>0, <1>2, <1>3, SameRound
<1>10. ASSUME held.round < target.round PROVE held.count < target.count
  <2>1. target.round = held.round + 1 BY <1>6, <1>7, <1>8, <1>10
  <2>2. target # NoFact BY <1>6, <1>7, <1>10
  <2>3. GoodRow("T", target) /\ GoodRow("T", held) BY <1>0, <1>2, <1>3, ItemRound
  <2>4. target.count \in Int /\ target.size \in Int /\ held.count \in Int BY <2>3 DEF GoodRow, Row
  <2>5. target.size >= 1 /\ target.round < target.count BY <2>2, <2>3 DEF GoodRow
  <2>6. CASE held = NoFact
    <3>1. held.count = 0 BY <2>6 DEF NoFact
    <3> QED BY <1>6, <1>7, <2>1, <2>4, <2>5, <2>6, <3>1
  <2>7. CASE held # NoFact
    <3>1. Agree("T", target, "T", held) BY <1>0, <1>2, <1>3 DEF Content
    <3>2. target.count = held.count + target.size BY <2>1, <2>2, <2>7, <3>1 DEF Agree
    <3> QED BY <2>4, <2>5, <3>2
  <2> QED BY <2>6, <2>7
<1>11. /\ eng.req[r].round = held.round /\ eng.req[r].count = held.count
       /\ eng.req[r].lifecycle = "finished" <=> held.finished
  BY <1>2 DEF Told, held
<1> QED BY <1>8, <1>9, <1>10, <1>11 DEF target

(* A result is accepted before the next one of the same request and role can replace
   it, and what the client is told is what Target published. *)
THEOREM EveryResultAccepted == Spec => []ResultsAccepted
<1>1. PipelineInv => ResultsAccepted
  <2> SUFFICES ASSUME PipelineInv PROVE ResultsAccepted OBVIOUS
  <2>1. NoFailure BY DEF PipelineInv, NoFailure
  <2>2. ASSUME NEW r \in Requests, NEW s \in Roles
        PROVE  rows[<<s, "result", r>>].round <= Larger(Result(eng, s, r).round, 0) + 1
    BY Accepted1 DEF Res
  <2>3. ASSUME NEW r \in Requests
        PROVE  LET target == rows[<<"T", "result", r>>]
                   request == eng.req[r]
               IN  /\ request.round \in {target.round - 1, target.round}
                   /\ request.round = target.round =>
                         /\ request.count = target.count
                         /\ request.lifecycle = "finished" <=> target.finished
                   /\ request.round < target.round => request.count < target.count
    BY ToldRight DEF Res
  <2> QED BY <2>1, <2>2, <2>3 DEF ResultsAccepted
<1> QED BY <1>1, PipelineSafe, PTL

(* The host KV of a request has one writer per role at a time. *)
THEOREM HostHasOneWriter == Spec => []OneWriter
<1>1. PipelineInv => OneWriter
  <2> SUFFICES ASSUME PipelineInv, NEW j \in DOMAIN jobs, NEW k \in DOMAIN jobs,
                      NEW r \in Live(jobs[j]) \cap Live(jobs[k]),
                      jobs[j].work.role = jobs[k].work.role,
                      jobs[j].work.round[r] < jobs[k].work.round[r]
               PROVE  /\ "source" \in jobs[k].watch[r] \/ r \in jobs[j].exported
                      /\ ~ jobs[k].computed \/ r \in jobs[j].exported
    BY DEF OneWriter
  <2> DEFINE s == jobs[k].work.role
             p == jobs[j].work.round[r]
             q == jobs[k].work.round[r]
  <2>1. Good(eng, rows, jobs, completions) BY DEF PipelineInv
  <2>2. r \in Members(jobs[j].work) /\ r \in Members(jobs[k].work) /\ r \in Live(jobs[k]) /\ r \in Live(jobs[j])
    BY DEF Live
  <2>3. /\ r \in Requests /\ p \in Int /\ First(s) <= p /\ Placed(eng, rows, jobs[j], r)
    BY <2>1, <2>2, MemberFacts
  <2>4. q \in Int /\ First(s) \in 0 .. 1 /\ (jobs[k].work.initial <=> q = First(s))
    BY <2>1, <2>2, MemberFacts
  <2>5. ~jobs[k].work.initial BY <2>3, <2>4
  <2>6. ASSUME "source" \notin jobs[k].watch[r] PROVE r \in jobs[j].exported
    <3>1. q - 1 <= Host(rows, s, r).round BY <2>1, <2>2, <2>5, <2>6, SourceCaptured
    <3>2. Host(rows, s, r).round \in Int /\ Last(s, Host(rows, s, r)) \in Int
          /\ Host(rows, s, r).round <= Last(s, Host(rows, s, r))
      <4>1. Item(eng, rows, jobs, s, r, Host(rows, s, r)) /\ Content(eng, rows, jobs) /\ s \in Roles
        BY <2>1, JobFacts DEF Item, Good
      <4> QED BY <2>3, <4>1, LastRound
    <3>3. ~(Last(s, Host(rows, s, r)) < p) BY <2>3, <2>4, <3>1, <3>2
    <3> QED BY <2>2, <2>3, <3>3 DEF Placed
  <2>7. jobs[k].computed => jobs[k].watch[r] = {}
    <3>1. Staged(jobs[k]) BY <2>1, JobFacts
    <3> QED BY <2>2, <3>1 DEF Staged
  <2> QED BY <2>6, <2>7
<1> QED BY <1>1, PipelineSafe, PTL

(* A request never needs more WORKs of a role than it has tokens to produce. *)
THEOREM BudgetSuffices == Spec => []WorkBudget
<1>1. PipelineInv => WorkBudget
  <2> SUFFICES ASSUME PipelineInv, NEW r \in Requests, NEW s \in Roles
               PROVE  eng.issued[s][r] <= MaxNew
    BY DEF WorkBudget
  <2>1. Chain(eng, rows, r) /\ eng \in Engine /\ rows \in [Cells -> Row]
    BY DEF PipelineInv, Good, Frontier, Typed
  <2>2. eng.issued["D"][r] \in Int /\ eng.issued["T"][r] \in Int BY <2>1 DEF Engine, Roles
  <2>3. MaxNew \in Int BY PipelineAssumptions
  <2> QED BY <2>1, <2>2, <2>3 DEF Chain, Roles
<1> QED BY <1>1, PipelineSafe, PTL

(***************************************************************************)
(* The pipeline implements sequential decoding.                            *)
(***************************************************************************)
(* What a result adds to the results of its request that are published. *)
NextResult(s, q, out, target, draft) ==
    /\ out.round = q /\ out.count \in Int /\ out.size \in Int /\ out.finished \in BOOLEAN
    /\ s = "T" /\ q = 0 =>
           /\ target.round = -1 /\ target.count = 0
           /\ out.count = 1 /\ out.count <= MaxNew /\ (out.count = MaxNew => out.finished)
    /\ s = "T" /\ q # 0 =>
           /\ ~target.finished /\ target.round = q - 1 /\ draft.round = q
           /\ draft.count = target.count /\ out.count = target.count + out.size
           /\ 1 <= out.size /\ out.size <= draft.size + 1
           /\ out.count <= MaxNew /\ (out.count = MaxNew => out.finished)
    /\ s = "D" =>
           /\ ~target.finished /\ target.round = q - 1 /\ Larger(draft.round, 0) = q - 1
           /\ 1 <= q /\ out.count = target.count
           /\ 1 <= out.size /\ out.size <= Depth /\ out.count + out.size <= MaxNew

(* Every published result is the next step of the loop. *)
LEMMA PublicationNext ==
    ASSUME NEW e, NEW R, NEW J, NEW C, NEW k, NEW r, NEW s, NEW q, NEW out, NEW Q, NEW x, NEW K,
           Publication(e, R, J, C, k, r, s, q, out, "result", Q, x, K)
    PROVE  NextResult(s, q, out, Res(R, "T", r), Res(R, "D", r))
<1> DEFINE target == Res(R, "T", r)
           draft == Res(R, "D", r)
<1>1. Publisher(e, R, J, k, r, s, q, out) BY PublicationFacts
<1>2. Before(e, R, J, k, r, s, q, "result") BY PublicationBefore
<1>3. /\ Good(e, R, J, C) /\ k \in DOMAIN J /\ J[k].computed /\ r \in Live(J[k]) \ J[k].published
      /\ s = J[k].work.role /\ q = J[k].work.round[r]
  BY DEF Publication
<1>4. /\ s \in Roles /\ r \in Requests /\ q \in Int /\ First(s) <= q /\ r \in Members(J[k].work)
      /\ out.round = q /\ out # NoFact /\ GoodRow(s, out) /\ Item(e, R, J, s, r, out) /\ out \in Row
  BY <1>1 DEF Publisher
<1>5. Content(e, R, J) /\ Chain(e, R, r) BY <1>3, <1>4 DEF Good, Frontier
<1>6. Item(e, R, J, "T", r, target) /\ Item(e, R, J, "D", r, draft) /\ "T" \in Roles /\ "D" \in Roles
  BY DEF Item, Roles
<1> HIDE DEF target, draft
<1>7. /\ target.round \in Int /\ Last("T", target) \in Int /\ target.round <= Last("T", target)
      /\ target = NoFact => Last("T", target) = -1 /\ target.round = -1
      /\ target # NoFact => Last("T", target) = target.round /\ 0 <= target.round
  BY <1>4, <1>5, <1>6, LastRound DEF First
<1>8. /\ draft.round \in Int /\ Last("D", draft) \in Int /\ draft.round <= Last("D", draft)
      /\ draft = NoFact => Last("D", draft) = 0 /\ draft.round = -1
      /\ draft # NoFact => Last("D", draft) = draft.round /\ 1 <= draft.round
  BY <1>4, <1>5, <1>6, LastRound DEF First
<1>9. target.count \in Int /\ draft.count \in Int /\ draft.size \in Int
  <2>1. GoodRow("T", target) /\ GoodRow("D", draft) BY <1>4, <1>5, <1>6, ItemRound
  <2> QED BY <2>1 DEF GoodRow, Row
<1>10. /\ Agree(s, out, "T", target) /\ Agree(s, out, "D", draft)
       /\ Agree("D", draft, "T", target) /\ Agree("D", draft, s, out)
  BY <1>4, <1>5, <1>6 DEF Content
<1>11. /\ target.round <= Last("D", draft) /\ Last("D", draft) <= target.round + 1
  BY <1>5 DEF Chain, target, draft
<1>12. /\ out.round = q /\ out.count \in Int /\ out.size \in Int /\ out.finished \in BOOLEAN
  BY <1>4 DEF Row
<1>13. /\ s = "T" => Last("T", target) = q - 1
       /\ s = "D" => Last("D", draft) = q - 1 /\ q - 1 <= target.round
       /\ s = "T" /\ ~J[k].work.initial => q <= draft.round
       /\ J[k].work.initial <=> q = First(s)
  BY <1>2 DEF Before, target, draft
<1>14. J[k].work.initial \in BOOLEAN BY <1>3, <1>4, MemberFacts
<1>15. MaxNew \in Int /\ Depth \in Int BY PipelineAssumptions
<1>16. ASSUME s = "T", q = 0
       PROVE  /\ target.round = -1 /\ target.count = 0
              /\ out.count = 1 /\ out.count <= MaxNew /\ (out.count = MaxNew => out.finished)
  <2>1. target = NoFact BY <1>7, <1>13, <1>16
  <2>2. target.round = -1 /\ target.count = 0 BY <2>1 DEF NoFact
  <2> QED BY <1>4, <1>12, <1>16, <2>2 DEF GoodRow
<1>17. ASSUME s = "T", q # 0
       PROVE  /\ ~target.finished /\ target.round = q - 1 /\ draft.round = q
              /\ draft.count = target.count /\ out.count = target.count + out.size
              /\ 1 <= out.size /\ out.size <= draft.size + 1
              /\ out.count <= MaxNew /\ (out.count = MaxNew => out.finished)
  <2>1. 0 < q BY <1>4, <1>17 DEF First
  <2>2. target # NoFact /\ target.round = q - 1 BY <1>4, <1>7, <1>13, <1>17, <2>1
  <2>3. q <= draft.round BY <1>13, <1>14, <1>17 DEF First
  <2>4. draft # NoFact /\ draft.round = q BY <1>4, <1>8, <1>11, <2>1, <2>2, <2>3
  <2>5. ~target.finished /\ out.count = target.count + out.size
    BY <1>4, <1>10, <1>17, <2>2 DEF Agree
  <2>6. draft.count = target.count BY <1>4, <1>10, <2>2, <2>4 DEF Agree
  <2>7. out.size <= draft.size + 1 BY <1>4, <1>10, <1>17, <2>4 DEF Agree
  <2>8. 1 <= out.size /\ out.count <= MaxNew /\ (out.count = MaxNew => out.finished)
    BY <1>4, <1>12, <1>17 DEF GoodRow
  <2> QED BY <2>2, <2>4, <2>5, <2>6, <2>7, <2>8
<1>18. ASSUME s = "D"
       PROVE  /\ ~target.finished /\ target.round = q - 1 /\ Larger(draft.round, 0) = q - 1
              /\ 1 <= q /\ out.count = target.count
              /\ 1 <= out.size /\ out.size <= Depth /\ out.count + out.size <= MaxNew
  <2>1. 1 <= q BY <1>4, <1>18 DEF First
  <2>2. target # NoFact /\ target.round = q - 1 BY <1>4, <1>7, <1>11, <1>13, <1>18, <2>1
  <2>3. Larger(draft.round, 0) = q - 1
    <3>1. Larger(draft.round, 0) = Last("D", draft) BY <1>8 DEF Larger
    <3> QED BY <1>13, <1>18, <3>1
  <2>4. ~target.finished
    <3>1. Continues(R, J[k], r) BY <1>3, <1>4, MemberFacts
    <3>2. Staged(J[k]) BY <1>3, JobFacts
    <3>3. "classified" \notin J[k].watch[r] BY <1>3, <1>4, <3>2 DEF Staged
    <3> QED BY <1>3, <1>18, <2>2, <3>1, <3>3 DEF Continues, target
  <2>5. out.count = target.count BY <1>4, <1>10, <1>18, <2>2 DEF Agree
  <2>6. 1 <= out.size /\ out.size <= Depth /\ out.count + out.size <= MaxNew
    BY <1>4, <1>18 DEF GoodRow
  <2> QED BY <2>1, <2>2, <2>3, <2>4, <2>5, <2>6
<1> QED BY <1>12, <1>16, <1>17, <1>18 DEF NextResult, target, draft

(* The step that publishes a result. *)
LEMMA ResultStep ==
    ASSUME PipelineInv, NEW k \in DOMAIN jobs, NEW r \in Members(jobs[k].work), PublishResult(k, r)
    PROVE  LET s == jobs[k].work.role
               out == jobs[k].out[r]
           IN  /\ r \in Requests /\ s \in Roles
               /\ NextResult(s, jobs[k].work.round[r], out, Res(rows, "T", r), Res(rows, "D", r))
               /\ Res(rows', s, r) = out
               /\ \A t \in Roles, m \in Requests :
                      ~(t = s /\ m = r) => Res(rows', t, m) = Res(rows, t, m)
<1> DEFINE s == jobs[k].work.role
           q == jobs[k].work.round[r]
           out == jobs[k].out[r]
<1>1. /\ Publication(eng, rows, jobs, completions, k, r, s, q, out, "result", rows', jobs'[k], jobs')
  BY ResultPublication
<1>2. NextResult(s, q, out, Res(rows, "T", r), Res(rows, "D", r)) BY <1>1, PublicationNext
<1>3. OthersStay(rows, rows', s, "result", r, out) BY <1>1, PublicationFacts
<1>4. Publisher(eng, rows, jobs, k, r, s, q, out) BY <1>1, PublicationFacts
<1>5. r \in Requests /\ s \in Roles BY <1>4 DEF Publisher
<1>6. Res(rows', s, r) = out BY <1>3 DEF OthersStay, Res
<1>7. \A t \in Roles, m \in Requests : ~(t = s /\ m = r) => Res(rows', t, m) = Res(rows, t, m)
  BY <1>3 DEF OthersStay
<1> QED BY <1>2, <1>5, <1>6, <1>7

(* What the results of rows R are in SequentialDecoding. *)
Output(R) == [r \in Requests |-> R[<<"T", "result", r>>].count]
Finished(R) == [r \in Requests |-> R[<<"T", "result", r>>].finished]
Verified(R) == [r \in Requests |-> R[<<"T", "result", r>>].round]
Drafted(R) == [r \in Requests |-> Larger(R[<<"D", "result", r>>].round, 0)]
Proposal(R) == [r \in Requests |-> [base |-> R[<<"D", "result", r>>].count,
                                    size |-> R[<<"D", "result", r>>].size]]

(* Without a result, SequentialDecoding stutters. *)
LEMMA Stutters ==
    ASSUME \A t \in Roles, m \in Requests : Res(rows', t, m) = Res(rows, t, m)
    PROVE  UNCHANGED Sequential!vars
<1>1. "T" \in Roles /\ "D" \in Roles BY DEF Roles
<1>2. ASSUME NEW m \in Requests
      PROVE  /\ rows'[<<"T", "result", m>>] = rows[<<"T", "result", m>>]
             /\ rows'[<<"D", "result", m>>] = rows[<<"D", "result", m>>]
  BY <1>1 DEF Res
<1> QED BY <1>2 DEF Sequential!vars

(* Nothing but a published result changes a result row. *)
LEMMA OtherSteps ==
    ASSUME PipelineInv, NEW k \in DOMAIN jobs, NEW r \in Members(jobs[k].work),
           PublishImport(k, r) \/ PublishHost(k, r)
    PROVE  UNCHANGED Sequential!vars
<1>1. PICK c \in {"import", "host"} :
          \E v : rows' = [rows EXCEPT ![<<jobs[k].work.role, c, r>>] = v]
  BY DEF PublishImport, PublishHost
<1>2. rows \in [Cells -> Row] BY DEF PipelineInv, Good, Typed
<1>3. ASSUME NEW t \in Roles, NEW m \in Requests PROVE Res(rows', t, m) = Res(rows, t, m)
  BY <1>1, <1>2, CellNames DEF Res
<1> QED BY <1>3, Stutters

(* A result of Target is a prefill or a verification. *)
LEMMA TargetStep ==
    ASSUME NEW r \in Requests, NEW q \in Nat, NEW out, Res(rows, "T", r) \in Row, Res(rows, "D", r) \in Row,
           NextResult("T", q, out, Res(rows, "T", r), Res(rows, "D", r)),
           Res(rows', "T", r) = out,
           \A t \in Roles, m \in Requests :
               ~(t = "T" /\ m = r) => Res(rows', t, m) = Res(rows, t, m)
    PROVE  Sequential!Prefill(r) \/ Sequential!Verify(r)
<1> DEFINE target == Res(rows, "T", r)
           draft == Res(rows, "D", r)
<1>1. "T" \in Roles /\ "D" \in Roles BY DEF Roles
<1>2. \A m \in Requests : m # r => rows'[<<"T", "result", m>>] = rows[<<"T", "result", m>>]
  BY <1>1 DEF Res
<1>3. \A m \in Requests : rows'[<<"D", "result", m>>] = rows[<<"D", "result", m>>]
  BY <1>1 DEF Res
<1>4. rows'[<<"T", "result", r>>] = out BY DEF Res
<1>5. Drafted(rows') = Drafted(rows) /\ Proposal(rows') = Proposal(rows)
  BY <1>3 DEF Drafted, Proposal
<1>6. Output(rows') = [Output(rows) EXCEPT ![r] = out.count]
  BY <1>2, <1>4 DEF Output
<1>7. Finished(rows') = [Finished(rows) EXCEPT ![r] = out.finished]
  BY <1>2, <1>4 DEF Finished
<1>8. Verified(rows') = [Verified(rows) EXCEPT ![r] = out.round]
  BY <1>2, <1>4 DEF Verified
<1>9. /\ Output(rows)[r] = target.count /\ Finished(rows)[r] = target.finished
      /\ Verified(rows)[r] = target.round /\ Drafted(rows)[r] = Larger(draft.round, 0)
      /\ Proposal(rows)[r].base = draft.count /\ Proposal(rows)[r].size = draft.size
  BY DEF Output, Finished, Verified, Drafted, Proposal, Res
<1>10. /\ out.round = q /\ out.count \in Int /\ out.size \in Int /\ out.finished \in BOOLEAN
  BY DEF NextResult
<1> HIDE DEF target, draft
<1>0. /\ target.count \in Int /\ target.round \in Int /\ draft.size \in Int /\ draft.count \in Int
      /\ draft.round \in Int /\ MaxNew \in Int
  BY PipelineAssumptions DEF target, draft, Row
<1>11. ASSUME q = 0 PROVE Sequential!Prefill(r)
  <2>1. /\ target.round = -1 /\ target.count = 0
        /\ out.count = 1 /\ out.count <= MaxNew /\ (out.count = MaxNew => out.finished)
    BY <1>11 DEF NextResult, target, draft
  <2>2. Output(rows') = [Output(rows) EXCEPT ![r] = @ + 1] /\ Output(rows)[r] + 1 <= MaxNew
    BY <1>0, <1>6, <1>9, <1>10, <2>1
  <2>3. Finished(rows') = [Finished(rows) EXCEPT ![r] = out.finished \/ Output(rows)[r] + 1 = MaxNew]
    <3>1. out.finished = (out.finished \/ Output(rows)[r] + 1 = MaxNew) BY <1>0, <1>9, <1>10, <2>1
    <3> QED BY <1>7, <3>1
  <2>4. Verified(rows') = [Verified(rows) EXCEPT ![r] = 0] /\ Verified(rows)[r] = -1
    BY <1>8, <1>9, <1>10, <1>11, <2>1
  <2>5. Sequential!Commit(r, 1)
    BY <1>10, <2>2, <2>3 DEF Sequential!Commit, Output, Finished
  <2> QED BY <1>5, <2>4, <2>5 DEF Sequential!Prefill, Verified, Drafted, Proposal
<1>12. ASSUME q # 0 PROVE Sequential!Verify(r)
  <2>1. /\ ~target.finished /\ target.round = q - 1 /\ draft.round = q
        /\ draft.count = target.count /\ out.count = target.count + out.size
        /\ 1 <= out.size /\ out.size <= draft.size + 1
        /\ out.count <= MaxNew /\ (out.count = MaxNew => out.finished)
    BY <1>12 DEF NextResult, target, draft
  <2>2. 0 < q /\ Drafted(rows)[r] = q BY <1>9, <1>12, <2>1 DEF Larger
  <2>3. Output(rows') = [Output(rows) EXCEPT ![r] = @ + out.size] /\ Output(rows)[r] + out.size <= MaxNew
    BY <1>0, <1>6, <1>9, <1>10, <2>1
  <2>4. Finished(rows') = [Finished(rows) EXCEPT ![r] = out.finished \/ Output(rows)[r] + out.size = MaxNew]
    <3>1. out.finished = (out.finished \/ Output(rows)[r] + out.size = MaxNew) BY <1>0, <1>9, <1>10, <2>1
    <3> QED BY <1>7, <3>1
  <2>5. Sequential!Commit(r, out.size)
    BY <1>10, <2>3, <2>4 DEF Sequential!Commit, Output, Finished
  <2>6. Verified(rows') = [Verified(rows) EXCEPT ![r] = Drafted(rows)[r]] BY <1>8, <1>10, <2>2
  <2>7. /\ ~Finished(rows)[r] /\ Drafted(rows)[r] = Verified(rows)[r] + 1
        /\ Proposal(rows)[r].base = Output(rows)[r]
        /\ out.size \in 1 .. Proposal(rows)[r].size + 1
    BY <1>0, <1>9, <1>10, <2>1, <2>2
  <2> QED BY <1>5, <2>5, <2>6, <2>7 DEF Sequential!Verify, Output, Finished, Verified, Drafted, Proposal
<1> QED BY <1>11, <1>12

(* A result of Draft is a proposal. *)
LEMMA DraftStep ==
    ASSUME NEW r \in Requests, NEW q \in Nat, NEW out, Res(rows, "T", r) \in Row, Res(rows, "D", r) \in Row,
           NextResult("D", q, out, Res(rows, "T", r), Res(rows, "D", r)),
           Res(rows', "D", r) = out,
           \A t \in Roles, m \in Requests :
               ~(t = "D" /\ m = r) => Res(rows', t, m) = Res(rows, t, m)
    PROVE  Sequential!Propose(r)
<1> DEFINE target == Res(rows, "T", r)
           draft == Res(rows, "D", r)
           proposal == [base |-> out.count, size |-> out.size]
<1>1. "T" \in Roles /\ "D" \in Roles BY DEF Roles
<1>2. \A m \in Requests : m # r => rows'[<<"D", "result", m>>] = rows[<<"D", "result", m>>]
  BY <1>1 DEF Res
<1>3. \A m \in Requests : rows'[<<"T", "result", m>>] = rows[<<"T", "result", m>>]
  BY <1>1 DEF Res
<1>4. rows'[<<"D", "result", r>>] = out BY DEF Res
<1>5. Output(rows') = Output(rows) /\ Finished(rows') = Finished(rows) /\ Verified(rows') = Verified(rows)
  BY <1>3 DEF Output, Finished, Verified
<1>6. Proposal(rows') = [Proposal(rows) EXCEPT ![r] = proposal]
  BY <1>2, <1>4 DEF Proposal
<1>7. Drafted(rows') = [Drafted(rows) EXCEPT ![r] = Larger(out.round, 0)]
  BY <1>2, <1>4 DEF Drafted
<1>8. /\ Output(rows)[r] = target.count /\ Finished(rows)[r] = target.finished
      /\ Verified(rows)[r] = target.round /\ Drafted(rows)[r] = Larger(draft.round, 0)
  BY DEF Output, Finished, Verified, Drafted, Res
<1> HIDE DEF target, draft
<1>9. /\ out.round = q /\ out.count \in Int /\ out.size \in Int
      /\ ~target.finished /\ target.round = q - 1 /\ Larger(draft.round, 0) = q - 1
      /\ 1 <= q /\ out.count = target.count
      /\ 1 <= out.size /\ out.size <= Depth /\ out.count + out.size <= MaxNew
  BY DEF NextResult, target, draft
<1>10. ~Finished(rows)[r] /\ Verified(rows)[r] >= 0 /\ Drafted(rows)[r] = Verified(rows)[r]
  BY <1>8, <1>9
<1>11. Depth \in Nat BY PipelineAssumptions
<1>12. out.size \in 1 .. Depth /\ Output(rows)[r] + out.size <= MaxNew BY <1>8, <1>9, <1>11
<1>13. Proposal(rows') = [Proposal(rows) EXCEPT ![r] = [base |-> Output(rows)[r], size |-> out.size]]
  BY <1>6, <1>8, <1>9
<1>14. Drafted(rows') = [Drafted(rows) EXCEPT ![r] = @ + 1]
  <2>1. Larger(out.round, 0) = Drafted(rows)[r] + 1 BY <1>8, <1>9 DEF Larger
  <2> QED BY <1>7, <2>1
<1> QED BY <1>5, <1>10, <1>12, <1>13, <1>14
       DEF Sequential!Propose, Output, Finished, Verified, Drafted, Proposal

(* Every step of the pipeline is a step of SequentialDecoding or a stutter. *)
LEMMA StepsDecode ==
    PipelineInv /\ [Next]_vars => Sequential!Next \/ UNCHANGED Sequential!vars
<1> SUFFICES ASSUME PipelineInv, [Next]_vars PROVE Sequential!Next \/ UNCHANGED Sequential!vars
  OBVIOUS
<1>1. rows' = rows => UNCHANGED Sequential!vars BY DEF Sequential!vars
<1>2. ASSUME NEW k \in DOMAIN jobs, NEW r \in Members(jobs[k].work), PublishResult(k, r)
      PROVE  Sequential!Next
  <2> DEFINE s == jobs[k].work.role
             q == jobs[k].work.round[r]
             out == jobs[k].out[r]
  <2>1. /\ r \in Requests /\ s \in Roles
        /\ NextResult(s, q, out, Res(rows, "T", r), Res(rows, "D", r))
        /\ Res(rows', s, r) = out
        /\ \A t \in Roles, m \in Requests : ~(t = s /\ m = r) => Res(rows', t, m) = Res(rows, t, m)
    BY <1>2, ResultStep
  <2>2. Good(eng, rows, jobs, completions) BY DEF PipelineInv
  <2>3. q \in Nat
    <3>1. q \in Int /\ First(s) \in 0 .. 1 /\ First(s) <= q BY <2>2, MemberFacts
    <3> QED BY <3>1
  <2>4. Res(rows, "T", r) \in Row /\ Res(rows, "D", r) \in Row
    <3>1. rows \in [Cells -> Row] /\ "T" \in Roles /\ "D" \in Roles BY <2>2 DEF Good, Typed, Roles
    <3> QED BY <2>1, <2>2, <3>1, RowTypes DEF Good, Typed
  <2> HIDE DEF s, q, out
  <2>5. CASE s = "T"
    <3>1. Sequential!Prefill(r) \/ Sequential!Verify(r) BY <2>1, <2>3, <2>4, <2>5, TargetStep
    <3> QED BY <2>1, <3>1 DEF Sequential!Next
  <2>6. CASE s = "D"
    <3>1. Sequential!Propose(r) BY <2>1, <2>3, <2>4, <2>6, DraftStep
    <3> QED BY <2>1, <3>1 DEF Sequential!Next
  <2> QED BY <2>1, <2>5, <2>6 DEF Roles
<1>3. ASSUME NEW k \in DOMAIN jobs, Worker(k) PROVE Sequential!Next \/ UNCHANGED Sequential!vars
  <2>1. CASE \E r \in Members(jobs[k].work), name \in Names : Capture(k, r, name)
    <3>1. rows' = rows BY <2>1 DEF Capture
    <3> QED BY <1>1, <3>1
  <2>2. CASE \E r \in Members(jobs[k].work) : PublishImport(k, r) BY <2>2, OtherSteps
  <2>3. CASE Compute(k)
    <3>1. rows' = rows BY <2>3 DEF Compute
    <3> QED BY <1>1, <3>1
  <2>4. CASE \E r \in Members(jobs[k].work) : PublishResult(k, r) BY <1>2, <2>4
  <2>5. CASE \E r \in Members(jobs[k].work) : PublishHost(k, r) BY <2>5, OtherSteps
  <2>6. CASE Complete(k)
    <3>1. rows' = rows BY <2>6 DEF Complete
    <3> QED BY <1>1, <3>1
  <2> QED BY <1>3, <2>1, <2>2, <2>3, <2>4, <2>5, <2>6 DEF Worker
<1>4. ASSUME NEW r \in Requests, Admit(r) PROVE rows' = rows BY <1>4 DEF Admit
<1>5. ASSUME NEW s \in Roles, Resend(s) PROVE rows' = rows BY <1>5 DEF Resend, Dispatch
<1>6. ASSUME NEW s \in Roles, Schedule(s) PROVE rows' = rows BY <1>6 DEF Schedule, Dispatch
<1>7. CASE Observe
  <2>1. rows' = rows BY <1>7 DEF Observe
  <2> QED BY <1>1, <2>1
<1>8. CASE UNCHANGED vars
  <2>1. rows' = rows BY <1>8 DEF vars
  <2> QED BY <1>1, <2>1
<1> QED BY <1>1, <1>3, <1>4, <1>5, <1>6, <1>7, <1>8 DEF Next, SystemStep, Idle

(* Speculative decoding through the pipeline is sequential: the results that workers
   publish change as SequentialDecoding says, one round after the other. *)
THEOREM PipelineDecodesSequentially == Spec => DecodesSequentially
<1>1. Init => Sequential!Init
  <2> SUFFICES ASSUME Init PROVE Sequential!Init OBVIOUS
  <2>1. "T" \in Roles /\ "D" \in Roles BY DEF Roles
  <2>2. \A s \in Roles, r \in Requests : rows[<<s, "result", r>>] = NoFact
    BY CellNames DEF Init
  <2>3. \A r \in Requests : rows[<<"T", "result", r>>] = NoFact /\ rows[<<"D", "result", r>>] = NoFact
    BY <2>1, <2>2
  <2>4. /\ NoFact.count = 0 /\ NoFact.finished = FALSE /\ NoFact.round = -1 /\ NoFact.size = 0
        /\ Larger(NoFact.round, 0) = 0
    BY DEF NoFact, Larger
  <2> HIDE DEF NoFact
  <2> QED BY <2>3, <2>4 DEF Sequential!Init, Sequential!NoProposal
<1>2. PipelineInv /\ [Next]_vars => [Sequential!Next]_Sequential!vars BY StepsDecode
<1> QED BY <1>1, <1>2, PipelineSafe, PTL DEF Spec, DecodesSequentially, Sequential!Spec

(***************************************************************************)
(* Wake-ups.  NoStrandedWork is about all workers of a stage at once; what *)
(* is kept is stronger: each worker that could take a WORK by itself is    *)
(* dirty.  While a WORK of the stage waits for room in a ring, the members *)
(* of that WORK and its worker are taken care of: sending it wakes them.   *)
(***************************************************************************)
(* A request may take the next round of a stage. *)
Wants(e, s, r) == EligibleInitial(e, s, r) \/ EligibleNext(e, s, r)

(* A worker may take another WORK. *)
HasRoom(e, w) ==
    /\ ~(Cardinality(RecordsOf(e, w)) >= MaxOutstanding)
    /\ OpenBanks(e, w, FALSE) # {} \/ (DirectImports /\ OpenBanks(e, w, TRUE) # {})

(* The requests that no waiting WORK of a stage has taken. *)
Unsent(e, s) == Requests \ UNION {Members(work) : work \in e.pending[s]}

(* A worker that no waiting WORK is for can take one for some request. *)
CanTake(e, s, w) ==
    /\ \A work \in e.pending[s] : work.key[1] # w
    /\ HasRoom(e, w)
    /\ \E r \in Unsent(e, s) : Wants(e, s, r)

Woken(e) == \A s \in Roles : \A w \in WorkersOf(s) : CanTake(e, s, w) => w \in e.dirty[s]

(* A set of numbers has a least one. *)
LEMMA LeastNumber ==
    ASSUME NEW S \in SUBSET Nat, S # {}
    PROVE  \E x \in S : \A y \in S : x <= y
<1>1. \E x \in S : \A y \in S : ~(<<y, x>> \in OpToRel(<, Nat))
  BY NatLessThanWellFounded, WFMin, Zenon
<1>2. PICK x \in S : \A y \in S : ~(<<y, x>> \in OpToRel(<, Nat)) BY <1>1
<1>3. \A y \in S : y \in Nat /\ x \in Nat BY <1>2
<1>4. \A y \in S : ~(y < x) BY <1>2, <1>3 DEF OpToRel
<1>5. \A y \in S : x <= y BY <1>3, <1>4
<1> QED BY <1>2, <1>5

(* A worker with room has a Bank for the next WORK, and a single request fits. *)
LEMMA RoomMeans ==
    ASSUME NEW e \in Engine, NEW w
    PROVE  /\ HasRoom(e, w) <=> Capacity(e, w) # {}
           /\ \A b \in Capacity(e, w), r \in Requests : Fits(e, w, b, {r})
<1> DEFINE open == IF OpenBanks(e, w, FALSE) # {} \/ ~DirectImports
                   THEN OpenBanks(e, w, FALSE) ELSE OpenBanks(e, w, TRUE)
<1>1. OpenBanks(e, w, FALSE) \subseteq Banks /\ OpenBanks(e, w, TRUE) \subseteq Banks BY DEF OpenBanks
<1>2. Banks \subseteq Nat BY PipelineAssumptions DEF Banks
<1>3. open \in SUBSET Nat BY <1>1, <1>2
<1>4. open # {} => \E x \in open : \A y \in open : x <= y
  <2> HIDE DEF open
  <2> QED BY <1>3, LeastNumber
<1>5. Capacity(e, w) = IF Cardinality(RecordsOf(e, w)) >= MaxOutstanding THEN {}
                       ELSE {b \in open : \A o \in open : b <= o}
  BY DEF Capacity
<1>6. open # {} <=> OpenBanks(e, w, FALSE) # {} \/ (DirectImports /\ OpenBanks(e, w, TRUE) # {})
  BY PipelineAssumptions
<1>7. HasRoom(e, w) <=> Capacity(e, w) # {}
  <2> HIDE DEF open
  <2> QED BY <1>4, <1>5, <1>6 DEF HasRoom
<1>8. ASSUME NEW b \in Capacity(e, w), NEW r \in Requests PROVE Fits(e, w, b, {r})
  <2>1. Cardinality({r}) = 1 BY FS_Singleton
  <2>2. b \in OpenBanks(e, w, FALSE) \/ b \in OpenBanks(e, w, TRUE) BY <1>5, <1>8
  <2>3. \A o \in Banks \ {b} : \A k \in Owners(e, w, o) :
            Cardinality(Members(e.records[k].work)) < BankRows
    BY <2>2 DEF OpenBanks
  <2>4. ASSUME NEW o \in Banks \ {b}, NEW k \in Owners(e, w, o)
        PROVE  1 + Cardinality(Members(e.records[k].work)) <= BankRows
    <3>1. k \in DOMAIN e.records BY DEF Owners, RecordsOf
    <3>2. Members(e.records[k].work) \subseteq Requests BY <3>1, EngineRecords
    <3>3. Cardinality(Members(e.records[k].work)) \in Nat
      BY <3>2, FS_Subset, FS_CardinalityType, PipelineAssumptions
    <3> QED BY <2>3, <3>3, PipelineAssumptions
  <2>5. 1 <= MaxBatch BY PipelineAssumptions
  <2> HIDE DEF open
  <2> QED BY <2>1, <2>4, <2>5 DEF Fits
<1> QED BY <1>7, <1>8

(* What it means that a stage can be planned. *)
LEMMA PlanMeans ==
    ASSUME NEW e \in Engine, NEW s \in Roles, NEW W, NEW R \in SUBSET Requests
    PROVE  Plannable(e, s, W, R) <=> \E w \in W : HasRoom(e, w) /\ \E r \in R : Wants(e, s, r)
<1>1. \A w : /\ HasRoom(e, w) <=> Capacity(e, w) # {}
             /\ \A b \in Capacity(e, w), r \in Requests : Fits(e, w, b, {r})
  BY RoomMeans
<1>2. \A w : HasRoom(e, w) <=> \E b : b \in Capacity(e, w) BY <1>1
<1>3. \A w, b, r : b \in Capacity(e, w) /\ r \in R => Fits(e, w, b, {r}) BY <1>1
<1> QED BY <1>2, <1>3, Zenon DEF Plannable, Wants

(* The wake-ups of Wake. *)
LEMMA WakeDirty ==
    ASSUME NEW e \in Engine, NEW woken
    PROVE  \A s \in Roles : Wake(e, woken).dirty[s] =
               e.dirty[s] \cup {w \in WorkersOf(s) : <<s, w>> \in woken}
  BY DEF Wake, Engine

(* A step that wakes every worker it may have opened keeps Woken. *)
LEMMA StillWoken ==
    ASSUME NEW e, NEW f, Woken(e), f.pending = e.pending,
           \A s \in Roles : e.dirty[s] \subseteq f.dirty[s],
           \A s \in Roles : \A w \in WorkersOf(s) \ f.dirty[s] :
               /\ HasRoom(f, w) => HasRoom(e, w)
               /\ \A r \in Requests : Wants(f, s, r) => Wants(e, s, r)
    PROVE  Woken(f)
<1> SUFFICES ASSUME NEW s \in Roles, NEW w \in WorkersOf(s), CanTake(f, s, w), w \notin f.dirty[s]
             PROVE  FALSE
  BY DEF Woken
<1>1. Unsent(f, s) = Unsent(e, s) /\ Unsent(e, s) \subseteq Requests BY DEF Unsent
<1>2. CanTake(e, s, w) BY <1>1 DEF CanTake
<1> QED BY <1>2 DEF Woken

(* A worker's room depends on its records and on its Banks' rows. *)
LEMMA SameRoom ==
    ASSUME NEW e, NEW f, NEW w,
           RecordsOf(f, w) = RecordsOf(e, w),
           \A k \in RecordsOf(e, w) : /\ f.records[k].work = e.records[k].work
                                      /\ f.records[k].computed = e.records[k].computed
                                      /\ f.records[k].completed = e.records[k].completed,
           \A b \in Banks : <<w, b>> \in e.occupied => <<w, b>> \in f.occupied,
           HasRoom(f, w)
    PROVE  HasRoom(e, w)
<1>1. \A b : Owners(f, w, b) = Owners(e, w, b) BY DEF Owners
<1>2. \A b, k : k \in Owners(e, w, b) => k \in RecordsOf(e, w) BY DEF Owners
<1>3. OpenBanks(f, w, FALSE) \subseteq OpenBanks(e, w, FALSE) BY <1>1, <1>2 DEF OpenBanks
<1>4. OpenBanks(f, w, TRUE) \subseteq OpenBanks(e, w, TRUE) BY <1>1, <1>2 DEF OpenBanks
<1> QED BY <1>3, <1>4 DEF HasRoom

(* Eligibility depends on what has been accepted and issued. *)
LEMMA SameWants ==
    ASSUME NEW e, NEW f, NEW s \in Roles, NEW r,
           f.req[r] = e.req[r], \A t \in Roles : f.issued[t][r] = e.issued[t][r],
           \A t \in Roles : Result(f, t, r) = Result(e, t, r),
           DirectImports => f.rows[<<s, "host", r>>] = e.rows[<<s, "host", r>>]
    PROVE  Wants(f, s, r) <=> Wants(e, s, r)
<1>0. "T" \in Roles /\ "D" \in Roles BY DEF Roles
<1>1. \A t \in Roles : IssuedRound(f, t, r) = IssuedRound(e, t, r) BY DEF IssuedRound
<1>2. Active(f, r) <=> Active(e, r) BY DEF Active
<1>3. TargetResult(f, r) <=> TargetResult(e, r) BY <1>0, <1>1, <1>2 DEF TargetResult
<1>4. DraftSource(f, r) <=> DraftSource(e, r) BY <1>0, <1>1 DEF DraftSource
<1>5. DirectImports => (HostReady(f, s, r) <=> HostReady(e, s, r)) BY DEF HostReady
<1>6. EligibleInitial(f, s, r) <=> EligibleInitial(e, s, r) BY <1>2, <1>3 DEF EligibleInitial
<1>7. EligibleNext(f, s, r) <=> EligibleNext(e, s, r)
  BY <1>0, <1>1, <1>2, <1>3, <1>4, <1>5 DEF EligibleNext
<1> QED BY <1>6, <1>7 DEF Wants

(* The facts of a poll leave computations and Banks alone. *)
LEMMA FactsFields ==
    ASSUME NEW e \in Engine, rows \in [Cells -> Row], NEW batch \in SUBSET Cells
    PROVE  LET f == ApplyFacts(e, batch)
           IN  /\ \A s \in Roles : f.dirty[s] = e.dirty[s] \cup
                      {w \in WorkersOf(s) : <<s, w>> \in FactWakes(Accepted(e, batch))}
               /\ \A k \in DOMAIN e.records : f.records[k].computed = e.records[k].computed
               /\ f.occupied = e.occupied
<1> DEFINE good == Accepted(e, batch)
           new == [c \in Cells |-> IF c \in good THEN rows[c] ELSE e.rows[c]]
           req == [r \in Requests |->
                     IF <<"T", "result", r>> \in good
                     THEN Consumed(e.req[r], rows[<<"T", "result", r>>]) ELSE e.req[r]]
           rec == [k \in DOMAIN e.records |->
                     [e.records[k] EXCEPT !.applied = @ \cup
                        {r \in Members(e.records[k].work) :
                            /\ <<e.records[k].work.role, "result", r>> \in good
                            /\ Applied(e, k, r)}]]
           g == [e EXCEPT !.rows = new, !.req = req, !.records = rec]
<1>1. ApplyFacts(e, batch) = Wake(g, FactWakes(good)) BY DEF ApplyFacts, Accepted
<1>2. \A k \in DOMAIN e.records : e.records[k] \in Record BY EngineRecords
<1>3. \A k \in DOMAIN e.records : rec[k].computed = e.records[k].computed
  <2> HIDE DEF good
  <2> QED BY <1>2 DEF Record
<1> HIDE DEF new, req, rec, good
<1>4. g.dirty = e.dirty /\ g.records = rec /\ g.occupied = e.occupied BY DEF Engine
<1>5. {"dirty", "records", "occupied"} \subseteq DOMAIN g BY DEF Engine
<1> HIDE DEF g
<1>6. /\ \A s \in Roles : Wake(g, FactWakes(good)).dirty[s] =
             e.dirty[s] \cup {w \in WorkersOf(s) : <<s, w>> \in FactWakes(good)}
      /\ Wake(g, FactWakes(good)).records = rec /\ Wake(g, FactWakes(good)).occupied = e.occupied
  BY <1>4, <1>5 DEF Wake
<1> QED BY <1>1, <1>3, <1>6 DEF good

(* The facts of a poll wake the stages they may open. *)
LEMMA FactsWake ==
    ASSUME NEW e \in Engine, rows \in [Cells -> Row], NEW batch \in SUBSET Cells, Woken(e)
    PROVE  Woken(ApplyFacts(e, batch))
<1> DEFINE f == ApplyFacts(e, batch)
           good == Accepted(e, batch)
<1>0. good \subseteq Cells BY DEF Accepted
<1>1. /\ Updated(e, f, good) /\ DOMAIN f.records = DOMAIN e.records
      /\ \A k \in DOMAIN e.records : /\ f.records[k].work = e.records[k].work
                                     /\ f.records[k].completed = e.records[k].completed
  BY ApplyFactsUpdates
<1>2. \A k \in DOMAIN e.records : f.records[k].computed = e.records[k].computed
  BY FactsFields
<1>3. /\ \A s \in Roles : f.dirty[s] = e.dirty[s] \cup {w \in WorkersOf(s) : <<s, w>> \in FactWakes(good)}
      /\ f.occupied = e.occupied
  BY FactsFields
<1>4. f.pending = e.pending /\ \A s \in Roles : e.dirty[s] \subseteq f.dirty[s]
  BY <1>1, <1>3 DEF Updated
<1>5. \A w : HasRoom(f, w) => HasRoom(e, w)
  <2>1. \A w : RecordsOf(f, w) = RecordsOf(e, w) BY <1>1 DEF RecordsOf
  <2>2. \A w : \A k \in RecordsOf(e, w) : k \in DOMAIN e.records BY DEF RecordsOf
  <2> QED BY <1>1, <1>2, <1>3, <2>1, <2>2, SameRoom
<1>6. ASSUME NEW s \in Roles, NEW w \in WorkersOf(s), w \notin f.dirty[s], NEW r \in Requests
      PROVE  Wants(f, s, r) => Wants(e, s, r)
  <2>1. <<s, w>> \notin FactWakes(good) BY <1>3, <1>6
  <2>2. w \in Workers BY DEF WorkersOf, Workers
  <2>3. \A c \in good : c[2] # "result"
    BY <2>1, <2>2 DEF FactWakes, Everyone
  <2>4. \A c \in good : DirectImports => ~(c[1] = s /\ c[2] = "host")
    BY <2>1, <2>2, <2>3 DEF FactWakes, Everyone
  <2>5. \A t \in Roles : <<t, "result", r>> \notin good /\ <<t, "result", r>> \in Cells
    BY <2>3, CellNames
  <2>6. DirectImports => <<s, "host", r>> \notin good
    BY <2>4
  <2>7. <<s, "host", r>> \in Cells BY CellNames
  <2>8. "T" \in Roles BY DEF Roles
  <2>9. f.req[r] = e.req[r] /\ f.issued = e.issued BY <1>1, <2>5, <2>8 DEF Updated
  <2>10. \A t \in Roles : Result(f, t, r) = Result(e, t, r) BY <1>1, <2>5 DEF Updated, Result
  <2>11. DirectImports => f.rows[<<s, "host", r>>] = e.rows[<<s, "host", r>>]
    BY <1>1, <2>6, <2>7 DEF Updated
  <2> QED BY <2>9, <2>10, <2>11, SameWants
<1> HIDE DEF f, good
<1>7. Woken(f) BY <1>4, <1>5, <1>6, StillWoken
<1> QED BY <1>7 DEF f

(* A change of the records wakes the workers whose records it changes. *)
LEMMA RecordsWake ==
    ASSUME NEW e \in Engine, NEW f, NEW S, Woken(e),
           f.req = e.req, f.issued = e.issued, f.rows = e.rows, f.pending = e.pending,
           DOMAIN f.records \subseteq DOMAIN e.records,
           \A s \in Roles : f.dirty[s] = e.dirty[s] \cup {w \in WorkersOf(s) : <<s, w>> \in Roles \X S},
           \A k \in DOMAIN e.records : k[1] \in S \/
               /\ k \in DOMAIN f.records
               /\ f.records[k].work = e.records[k].work
               /\ f.records[k].computed = e.records[k].computed
               /\ f.records[k].completed = e.records[k].completed,
           \A w \in Workers, b \in Banks : <<w, b>> \in e.occupied /\ w \notin S => <<w, b>> \in f.occupied
    PROVE  Woken(f)
<1>1. ASSUME NEW s \in Roles, NEW w \in WorkersOf(s) \ f.dirty[s]
      PROVE  /\ HasRoom(f, w) => HasRoom(e, w)
             /\ \A r \in Requests : Wants(f, s, r) => Wants(e, s, r)
  <2>1. w \notin S BY <1>1
  <2>2. RecordsOf(f, w) = RecordsOf(e, w) BY <2>1 DEF RecordsOf
  <2>3. \A k \in RecordsOf(e, w) : k \in DOMAIN e.records /\ k[1] \notin S BY <2>1 DEF RecordsOf
  <2>4. w \in Workers BY DEF WorkersOf, Workers
  <2>5. HasRoom(f, w) => HasRoom(e, w) BY <2>1, <2>2, <2>3, <2>4, SameRoom
  <2>6. \A t, r : Result(f, t, r) = Result(e, t, r) BY DEF Result
  <2> QED BY <2>5, <2>6, SameWants
<1>2. \A s \in Roles : e.dirty[s] \subseteq f.dirty[s] OBVIOUS
<1> QED BY <1>1, <1>2, StillWoken

(* The fields a wake-up keeps, whatever else the Engine is. *)
LEMMA WakeFields ==
    ASSUME NEW g, {"dirty", "records", "occupied"} \subseteq DOMAIN g, NEW woken
    PROVE  /\ \A s \in Roles : Wake(g, woken).dirty[s] =
                  g.dirty[s] \cup {w \in WorkersOf(s) : <<s, w>> \in woken}
           /\ Wake(g, woken).records = g.records /\ Wake(g, woken).occupied = g.occupied
  BY DEF Wake

(* The worker rows wake the workers they may open. *)
LEMMA ReadWake ==
    ASSUME NEW e \in Engine, jobs \in PerWork(Job), Woken(e)
    PROVE  Woken(ReadWorkers(e))
<1> DEFINE computed == {k \in DOMAIN e.records : DirectImports
                         /\ (k \in DOMAIN completions \/ (k \in DOMAIN jobs /\ jobs[k].computed))}
           freed == {p[1] : p \in e.occupied \ OccupiedBanks}
           ended == {k[1] : k \in {k \in computed : ~ e.records[k].computed}}
           rec == [k \in DOMAIN e.records |-> [e.records[k] EXCEPT !.computed = @ \/ k \in computed]]
           g == [e EXCEPT !.occupied = OccupiedBanks, !.records = rec]
           f == ReadWorkers(e)
           S == freed \cup ended
<1>1. Quiet(e, f) /\ \A k \in DOMAIN e.records : f.records[k].completed = e.records[k].completed
  BY ReadWorkersStill
<1>2. f = Wake(g, Roles \X S) BY Zenon DEF ReadWorkers
<1>3. \A k \in DOMAIN e.records : e.records[k] \in Record BY EngineRecords
<1>4. \A k \in DOMAIN e.records : k[1] \notin ended => rec[k].computed = e.records[k].computed
  <2> SUFFICES ASSUME NEW k \in DOMAIN e.records, k[1] \notin ended
               PROVE  rec[k].computed = e.records[k].computed
    OBVIOUS
  <2>1. k \in computed => e.records[k].computed OBVIOUS
  <2> HIDE DEF computed
  <2>2. (e.records[k].computed \/ k \in computed) = e.records[k].computed BY <1>3, <2>1 DEF Record
  <2> QED BY <1>3, <2>2 DEF Record
<1>5. \A w, b : <<w, b>> \in e.occupied /\ w \notin freed => <<w, b>> \in OccupiedBanks
  <2> SUFFICES ASSUME NEW w, NEW b, <<w, b>> \in e.occupied, <<w, b>> \notin OccupiedBanks
               PROVE  w \in freed
    OBVIOUS
  <2> QED OBVIOUS
<1> HIDE DEF rec, freed, ended, computed
<1>6. /\ {"dirty", "records", "occupied"} \subseteq DOMAIN g
      /\ g.dirty = e.dirty /\ g.records = rec /\ g.occupied = OccupiedBanks
  BY DEF Engine
<1> HIDE DEF g, f
<1>7. /\ \A s \in Roles : f.dirty[s] = e.dirty[s] \cup {w \in WorkersOf(s) : <<s, w>> \in Roles \X S}
      /\ f.records = rec /\ f.occupied = OccupiedBanks
  BY <1>2, <1>6, WakeFields
<1>8. Woken(f)
  <2>1. /\ f.req = e.req /\ f.issued = e.issued /\ f.rows = e.rows /\ f.pending = e.pending
        /\ DOMAIN f.records = DOMAIN e.records
        /\ \A k \in DOMAIN e.records : f.records[k].work = e.records[k].work
    BY <1>1 DEF Quiet, SameRecord
  <2>2. \A k \in DOMAIN e.records : k[1] \in S \/
               /\ k \in DOMAIN f.records
               /\ f.records[k].work = e.records[k].work
               /\ f.records[k].computed = e.records[k].computed
               /\ f.records[k].completed = e.records[k].completed
    BY <1>1, <1>4, <1>7, <2>1
  <2>3. \A w \in Workers, b \in Banks : <<w, b>> \in e.occupied /\ w \notin S => <<w, b>> \in f.occupied
    BY <1>5, <1>7
  <2> HIDE DEF S
  <2> QED BY <1>7, <2>1, <2>2, <2>3, RecordsWake
<1> QED BY <1>8 DEF f

(* Completions wake their workers. *)
LEMMA CompletionsWake ==
    ASSUME NEW e \in Engine, Woken(e), completions \in PerWork(SUBSET Requests)
    PROVE  Woken(ObserveCompletions(e))
<1> DEFINE new == {k \in DOMAIN completions : ~ e.records[k].completed}
           rec == [k \in DOMAIN e.records |->
                     [e.records[k] EXCEPT !.completed = @ \/ k \in new, !.computed = @ \/ k \in new]]
           g == [e EXCEPT !.records = rec]
           f == ObserveCompletions(e)
           S == {k[1] : k \in new}
<1>1. Quiet(e, f) BY ObserveCompletionsStill
<1>2. f = Wake(g, Roles \X S) BY DEF ObserveCompletions
<1>3. \A k \in DOMAIN e.records : e.records[k] \in Record BY EngineRecords
<1>4. \A k \in DOMAIN e.records : k[1] \notin S =>
          rec[k].computed = e.records[k].computed /\ rec[k].completed = e.records[k].completed
  <2> SUFFICES ASSUME NEW k \in DOMAIN e.records, k[1] \notin S
               PROVE  rec[k].computed = e.records[k].computed /\ rec[k].completed = e.records[k].completed
    OBVIOUS
  <2>1. k \notin new OBVIOUS
  <2> HIDE DEF new
  <2>2. /\ (e.records[k].computed \/ k \in new) = e.records[k].computed
        /\ (e.records[k].completed \/ k \in new) = e.records[k].completed
    BY <1>3, <2>1 DEF Record
  <2> QED BY <1>3, <2>2 DEF Record
<1> HIDE DEF rec, new
<1>6. /\ {"dirty", "records", "occupied"} \subseteq DOMAIN g
      /\ g.dirty = e.dirty /\ g.records = rec /\ g.occupied = e.occupied
  BY DEF Engine
<1> HIDE DEF g, f
<1>7. /\ \A s \in Roles : f.dirty[s] = e.dirty[s] \cup {w \in WorkersOf(s) : <<s, w>> \in Roles \X S}
      /\ f.records = rec /\ f.occupied = e.occupied
  BY <1>2, <1>6, WakeFields
<1>8. Woken(f)
  <2>1. /\ f.req = e.req /\ f.issued = e.issued /\ f.rows = e.rows /\ f.pending = e.pending
        /\ DOMAIN f.records = DOMAIN e.records
        /\ \A k \in DOMAIN e.records : f.records[k].work = e.records[k].work
    BY <1>1 DEF Quiet, SameRecord
  <2>2. \A k \in DOMAIN e.records : k[1] \in S \/
               /\ k \in DOMAIN f.records
               /\ f.records[k].work = e.records[k].work
               /\ f.records[k].computed = e.records[k].computed
               /\ f.records[k].completed = e.records[k].completed
    BY <1>4, <1>7, <2>1
  <2> HIDE DEF S
  <2> QED BY <1>7, <2>1, <2>2, RecordsWake
<1> QED BY <1>8 DEF f

(* So does the credit of a retired record. *)
LEMMA RefreshWakes ==
    ASSUME NEW e \in Engine, Woken(e)
    PROVE  Woken(Refresh(e)) /\ Refresh(e) \in Engine
<1> DEFINE rec == Without(e.records, Retirable(e))
           g == [e EXCEPT !.records = rec]
           f == Refresh(e)
           S == {k[1] : k \in Retirable(e)}
<1>1. /\ rec \in PerWork(Record) /\ DOMAIN rec = DOMAIN e.records \ Retirable(e)
      /\ \A k \in DOMAIN e.records \ Retirable(e) : rec[k] = e.records[k]
  <2>1. e.records \in PerWork(Record) BY EngineRecords
  <2> QED BY <2>1, WithoutMap
<1> HIDE DEF rec
<1>2. /\ g \in Engine /\ g.req = e.req /\ g.issued = e.issued /\ g.rows = e.rows
      /\ g.pending = e.pending /\ g.records = rec /\ g.occupied = e.occupied /\ g.dirty = e.dirty
      /\ {"dirty", "records", "occupied"} \subseteq DOMAIN g
  BY <1>1 DEF Engine
<1>3. f = Wake(g, Roles \X S) BY DEF Refresh, rec
<1> HIDE DEF g, f
<1>4. Quiet(g, f) BY <1>2, <1>3, WakeQuiet
<1>5. /\ \A s \in Roles : f.dirty[s] = e.dirty[s] \cup {w \in WorkersOf(s) : <<s, w>> \in Roles \X S}
      /\ f.records = rec /\ f.occupied = e.occupied
  BY <1>2, <1>3, WakeFields
<1>6. \A k \in DOMAIN e.records : k[1] \in S \/
               /\ k \in DOMAIN f.records
               /\ f.records[k].work = e.records[k].work
               /\ f.records[k].computed = e.records[k].computed
               /\ f.records[k].completed = e.records[k].completed
  BY <1>1, <1>5
<1>7. /\ f.req = e.req /\ f.issued = e.issued /\ f.rows = e.rows /\ f.pending = e.pending /\ f \in Engine
  BY <1>2, <1>4 DEF Quiet
<1>8. DOMAIN f.records \subseteq DOMAIN e.records BY <1>1, <1>5
<1> HIDE DEF S
<1>9. Woken(f) BY <1>5, <1>6, <1>7, <1>8, RecordsWake
<1> QED BY <1>7, <1>9 DEF f

(* The Engine forgets the dirty workers of a stage only when no worker could take
   a WORK. *)
LEMMA SettleWakes ==
    ASSUME NEW e \in Engine, Woken(e)
    PROVE  Woken(Settle(e))
<1> DEFINE f == Settle(e)
           d == [s \in Roles |-> IF e.pending[s] = {} /\ ~ Plannable(e, s, e.dirty[s], Requests)
                                 THEN {} ELSE e.dirty[s]]
<1>1. f = [e EXCEPT !.dirty = d] BY DEF Settle
<1> HIDE DEF d, f
<1>2. /\ f.req = e.req /\ f.issued = e.issued /\ f.rows = e.rows /\ f.pending = e.pending
      /\ f.records = e.records /\ f.occupied = e.occupied /\ f.dirty = d
  BY <1>1 DEF Engine
<1>3. ASSUME NEW s \in Roles, NEW w \in WorkersOf(s), CanTake(f, s, w) PROVE w \in f.dirty[s]
  <2>1. Unsent(f, s) = Unsent(e, s) /\ Unsent(e, s) \subseteq Requests BY <1>2 DEF Unsent
  <2>2. HasRoom(e, w)
    <3>1. RecordsOf(f, w) = RecordsOf(e, w) BY <1>2 DEF RecordsOf
    <3>2. HasRoom(f, w) BY <1>3 DEF CanTake
    <3> QED BY <1>2, <3>1, <3>2, SameRoom
  <2>3. \A r \in Requests : Wants(f, s, r) => Wants(e, s, r)
    <3>1. \A t, r : Result(f, t, r) = Result(e, t, r) BY <1>2 DEF Result
    <3> QED BY <1>2, <3>1, SameWants
  <2>4. CanTake(e, s, w) BY <1>2, <1>3, <2>1, <2>2, <2>3 DEF CanTake
  <2>5. w \in e.dirty[s] BY <2>4 DEF Woken
  <2>6. e.pending[s] = {} => Plannable(e, s, e.dirty[s], Requests)
    <3>1. \E r \in Requests : Wants(e, s, r) BY <2>1, <2>4 DEF CanTake
    <3> QED BY <2>2, <2>5, <3>1, PlanMeans
  <2> QED BY <1>2, <2>5, <2>6 DEF d
<1> QED BY <1>3 DEF Woken, f

(* Nobody is forgotten by a poll. *)
LEMMA PollWakes ==
    ASSUME NEW e \in Engine, rows \in [Cells -> Row], jobs \in PerWork(Job),
           completions \in PerWork(SUBSET Requests), Woken(e),
           NEW batch \in SUBSET Cells, NEW fresh \in BOOLEAN, NEW reading \in BOOLEAN
    PROVE  Woken(Observed(e, batch, fresh, reading))
<1> DEFINE a == ApplyFacts(e, batch)
           b == IF fresh THEN ReadWorkers(a) ELSE a
           c == IF reading THEN ObserveCompletions(b) ELSE b
<1>1. a \in Engine /\ Woken(a) BY FactsWake, ApplyFactsUpdates DEF Updated
<1>2. Observed(e, batch, fresh, reading) = Settle(Refresh(c)) BY DEF Observed
<1> HIDE DEF a
<1>3. b \in Engine /\ Woken(b) BY <1>1, ReadWake, ReadWorkersStill DEF Quiet
<1> HIDE DEF b
<1>4. c \in Engine /\ Woken(c) BY <1>3, CompletionsWake, ObserveCompletionsStill DEF Quiet
<1> HIDE DEF c
<1> QED BY <1>2, <1>4, RefreshWakes, SettleWakes

(* A WORK that has been sent is not wanted again. *)
LEMMA SentWants ==
    ASSUME NEW e, NEW R, NEW J, NEW C, NEW s, NEW work, Sending(e, R, J, C, s, work),
           NEW f, Issued(e, f, s, work), NEW r \in Members(work)
    PROVE  ~Wants(f, s, r)
<1>1. /\ e \in Engine /\ work \in Work /\ s \in Roles /\ Ready(e, s, work)
      /\ R \in [Cells -> Row]
  BY DEF Sending, Good, Typed
<1>2. r \in Requests /\ work.round[r] \in Int BY <1>1, WorkFacts
<1>3. Result(f, s, r) = Result(e, s, r) BY DEF Issued, Result
<1>4. f.issued[s][r] = IF s = "D" THEN work.round[r] ELSE work.round[r] + 1
  BY <1>1, <1>2 DEF Issued
<1>5. work.round[r] = Last(s, Result(f, s, r)) + 1 BY <1>1, <1>3 DEF Ready
<1>6. Result(f, s, r).round \in Int BY <1>1, <1>2, <1>3, RowTypes
<1>7. IssuedRound(f, s, r) = work.round[r] BY <1>2, <1>4 DEF IssuedRound
<1>8. f.issued[s][r] # 0 BY <1>1, <1>2, <1>4, <1>5, <1>6 DEF Last, First, Roles
<1>9. CASE s = "D"
  <2>1. ~DraftSource(f, r) BY <1>5, <1>6, <1>7, <1>9 DEF DraftSource, Last, First
  <2> QED BY <1>8, <1>9, <2>1 DEF Wants, EligibleInitial, EligibleNext
<1>10. CASE s = "T"
  <2>1. ~TargetResult(f, r) BY <1>5, <1>6, <1>7, <1>10 DEF TargetResult, Last, First
  <2> QED BY <1>8, <1>10, <2>1 DEF Wants, EligibleInitial, EligibleNext
<1> QED BY <1>1, <1>9, <1>10 DEF Roles

(* The Banks of the Engine and its wake-ups when a WORK has been sent. *)
LEMMA SentFields ==
    ASSUME NEW e \in Engine, NEW work
    PROVE  /\ Sent(e, work).occupied = e.occupied
           /\ \A s \in Roles : Sent(e, work).dirty[s] =
                  e.dirty[s] \cup {w \in WorkersOf(s) : <<s, w>> \in SentWakes(work)}
<1> DEFINE f == [e EXCEPT
        !.records = Put(@, work.key, [work |-> work, applied |-> {}, computed |-> FALSE,
                                      completed |-> FALSE]),
        !.sequence[work.key[1]] = work.key[2] + 1,
        !.issued[work.role] = [r \in Requests |->
            IF r \notin Members(work) THEN @[r]
            ELSE IF work.role = "D" THEN work.round[r] ELSE work.round[r] + 1],
        !.pending[work.role] = @ \ {work}]
<1>1. Sent(e, work) = Wake(f, SentWakes(work)) BY DEF Sent
<1>2. {"dirty", "records", "occupied"} \subseteq DOMAIN f BY DEF Engine
<1>3. f.dirty = e.dirty /\ f.occupied = e.occupied BY DEF Engine
<1> HIDE DEF f
<1> QED BY <1>1, <1>2, <1>3, WakeFields

(* Sending a WORK forgets nobody. *)
LEMMA SentWoken ==
    ASSUME NEW e, NEW R, NEW J, NEW C, NEW s, NEW work, Sending(e, R, J, C, s, work), Woken(e)
    PROVE  Woken(Sent(e, work))
<1> DEFINE f == Sent(e, work)
<1>1. e \in Engine /\ work \in Work /\ s \in Roles /\ e.pending[s] \subseteq {work}
  BY DEF Sending, Good, Typed
<1>2. Issued(e, f, s, work) BY SendAccepted
<1>3. work.role = s /\ work.key \notin DOMAIN e.records BY SendKey
<1>4. f.occupied = e.occupied /\ \A t \in Roles : f.dirty[t] =
                  e.dirty[t] \cup {w \in WorkersOf(t) : <<t, w>> \in SentWakes(work)}
  BY <1>1, SentFields
<1> HIDE DEF f
<1> SUFFICES ASSUME NEW t \in Roles, NEW w \in WorkersOf(t), CanTake(f, t, w), w \notin f.dirty[t]
             PROVE  FALSE
  BY DEF Woken, f
<1>5. w \in Workers BY DEF WorkersOf, Workers
<1>6. <<t, w>> \notin SentWakes(work) BY <1>4
<1>7. t = s /\ w # work.key[1] BY <1>3, <1>5, <1>6 DEF SentWakes, Everyone
<1>8. RecordsOf(f, w) = RecordsOf(e, w)
      /\ \A k \in RecordsOf(e, w) : f.records[k] = e.records[k]
  BY <1>2, <1>3, <1>7 DEF Issued, Put, RecordsOf
<1>9. HasRoom(e, w)
  <2>1. HasRoom(f, w) BY DEF CanTake
  <2> QED BY <1>4, <1>8, <2>1, SameRoom
<1>10. PICK r \in Unsent(f, t) : Wants(f, t, r) BY DEF CanTake
<1>11. r \in Requests BY DEF Unsent
<1>12. r \notin Members(work) BY <1>2, <1>7, <1>10, SentWants
<1>13. Wants(e, s, r)
  <2>1. f.req[r] = e.req[r] /\ f.rows = e.rows BY <1>2 DEF Issued
  <2>2. \A x \in Roles : f.issued[x][r] = e.issued[x][r] BY <1>2, <1>11, <1>12 DEF Issued
  <2>3. \A x \in Roles : Result(f, x, r) = Result(e, x, r) BY <2>1 DEF Result
  <2> QED BY <1>1, <1>7, <1>10, <2>1, <2>2, <2>3, SameWants
<1>14. r \in Unsent(e, s) BY <1>1, <1>11, <1>12 DEF Unsent
<1>15. CanTake(e, s, w) BY <1>1, <1>7, <1>9, <1>13, <1>14 DEF CanTake
<1>16. w \in e.dirty[s] BY <1>1, <1>7, <1>15 DEF Woken
<1> QED BY <1>4, <1>7, <1>16

(* Nor does a WORK that waits for room in a ring. *)
LEMMA PendWoken ==
    ASSUME NEW e \in Engine, NEW s \in Roles, NEW work, Woken(e), e.pending[s] = {},
           ~Plannable(e, s, e.dirty[s] \ {work.key[1]}, Requests \ Members(work)),
           NEW f, f = [e EXCEPT !.pending[s] = {work}, !.dirty[s] = {}]
    PROVE  Woken(f)
<1> DEFINE p == [e.pending EXCEPT ![s] = {work}]
           d == [e.dirty EXCEPT ![s] = {}]
<1>1. f = [e EXCEPT !.pending = p, !.dirty = d] BY DEF Engine
<1>2. /\ p[s] = {work} /\ d[s] = {}
      /\ \A t \in Roles \ {s} : p[t] = e.pending[t] /\ d[t] = e.dirty[t]
  BY DEF Engine, Dirty
<1> HIDE DEF p, d
<1>3. /\ f.req = e.req /\ f.issued = e.issued /\ f.rows = e.rows /\ f.records = e.records
      /\ f.occupied = e.occupied /\ f.pending = p /\ f.dirty = d
  BY <1>1 DEF Engine
<1> SUFFICES ASSUME NEW t \in Roles, NEW w \in WorkersOf(t), CanTake(f, t, w), w \notin f.dirty[t]
             PROVE  FALSE
  BY DEF Woken
<1>4. HasRoom(e, w)
  <2>1. RecordsOf(f, w) = RecordsOf(e, w) BY <1>3 DEF RecordsOf
  <2>2. HasRoom(f, w) BY DEF CanTake
  <2> QED BY <1>3, <2>1, <2>2, SameRoom
<1>5. PICK r \in Unsent(f, t) : Wants(f, t, r) BY DEF CanTake
<1>6. Wants(e, t, r)
  <2>1. \A x \in Roles : Result(f, x, r) = Result(e, x, r) BY <1>3 DEF Result
  <2> QED BY <1>3, <1>5, <2>1, SameWants
<1>7. CASE t # s
  <2>1. Unsent(f, t) = Unsent(e, t) BY <1>2, <1>3, <1>7 DEF Unsent
  <2>2. CanTake(e, t, w) BY <1>2, <1>3, <1>4, <1>5, <1>6, <1>7, <2>1 DEF CanTake
  <2> QED BY <1>2, <1>3, <1>7, <2>2 DEF Woken
<1>8. CASE t = s
  <2>1. w # work.key[1] BY <1>2, <1>3, <1>8 DEF CanTake
  <2>2. r \in Requests \ Members(work) BY <1>2, <1>3, <1>8 DEF Unsent
  <2>3. r \in Unsent(e, s) BY <2>2 DEF Unsent
  <2>4. CanTake(e, s, w) BY <1>4, <1>6, <1>8, <2>3 DEF CanTake
  <2>5. w \in e.dirty[s] \ {work.key[1]} BY <1>8, <2>1, <2>4 DEF Woken
  <2> DEFINE W == e.dirty[s] \ {work.key[1]}
             B == Requests \ Members(work)
  <2>6. B \in SUBSET Requests OBVIOUS
  <2>7. \E v \in W : HasRoom(e, v) /\ \E x \in B : Wants(e, s, x)
    BY <1>4, <1>6, <1>8, <2>2, <2>5
  <2>8. ~Plannable(e, s, W, B) OBVIOUS
  <2> HIDE DEF W, B
  <2> QED BY <2>6, <2>7, <2>8, PlanMeans
<1> QED BY <1>7, <1>8

(* A new request is for the Target workers first. *)
LEMMA AdmitWoken ==
    ASSUME PipelineInv, Woken(eng), NEW r \in Requests, Admit(r)
    PROVE  Woken(eng')
<1> DEFINE f == [eng EXCEPT !.req[r].lifecycle = "active"]
           req == [eng.req EXCEPT ![r].lifecycle = "active"]
<1>1. Good(eng, rows, jobs, completions) BY DEF PipelineInv
<1>2. eng.req[r].lifecycle = "absent" /\ eng' = Wake(f, Everyone({"T"})) BY DEF Admit
<1>3. eng \in Engine BY <1>1 DEF Good, Typed
<1>4. f = [eng EXCEPT !.req = req] BY <1>3 DEF Engine
<1>5. \A x \in Requests \ {r} : req[x] = eng.req[x] BY <1>3 DEF Engine
<1> HIDE DEF f, req
<1>6. /\ eng'.req = req /\ eng'.issued = eng.issued /\ eng'.rows = eng.rows
      /\ eng'.records = eng.records /\ eng'.occupied = eng.occupied /\ eng'.pending = eng.pending
      /\ \A s \in Roles : eng'.dirty[s] = eng.dirty[s] \cup {w \in WorkersOf(s) : <<s, w>> \in Everyone({"T"})}
  <2>1. /\ f.req = req /\ f.issued = eng.issued /\ f.rows = eng.rows
        /\ f.records = eng.records /\ f.occupied = eng.occupied /\ f.pending = eng.pending
        /\ f.dirty = eng.dirty
        /\ {"req", "issued", "rows", "records", "occupied", "pending", "dirty"} \subseteq DOMAIN f
    BY <1>3, <1>4 DEF Engine
  <2> QED BY <1>2, <2>1 DEF Wake
<1>7. \A s \in Roles : eng.dirty[s] \subseteq eng'.dirty[s] BY <1>6
<1>8. ASSUME NEW s \in Roles, NEW w \in WorkersOf(s) \ eng'.dirty[s], NEW x \in Requests, Wants(eng', s, x)
      PROVE  Wants(eng, s, x)
  <2>1. s = "D"
    <3>1. w \in Workers BY DEF WorkersOf, Workers
    <3> QED BY <1>6, <1>8, <3>1 DEF Everyone, Roles
  <2>2. \A t, y : Result(eng', t, y) = Result(eng, t, y) BY <1>6 DEF Result
  <2>3. CASE x # r BY <1>5, <1>6, <1>8, <2>2, <2>3, SameWants
  <2>4. CASE x = r
    <3>1. Chain(eng, rows, r) /\ Told(eng, r) BY <1>1 DEF Good, Frontier
    <3>2. eng.issued["T"][r] = 0 BY <1>2, <3>1 DEF Told
    <3>3. eng.issued["D"][r] \in Int BY <1>3 DEF Engine, Roles
    <3>4. eng.issued["D"][r] = 0 BY <3>1, <3>2, <3>3 DEF Chain
    <3>5. ~TargetResult(eng', r) BY <1>6, <3>2 DEF TargetResult, IssuedRound
    <3> QED BY <1>6, <1>8, <2>1, <2>4, <3>4, <3>5 DEF Wants, EligibleInitial, EligibleNext
  <2> QED BY <2>3, <2>4
<1>9. \A w : HasRoom(eng', w) => HasRoom(eng, w)
  <2>1. \A w : RecordsOf(eng', w) = RecordsOf(eng, w) BY <1>6 DEF RecordsOf
  <2> QED BY <1>6, <2>1, SameRoom
<1> QED BY <1>6, <1>7, <1>8, <1>9, StillWoken

(* A dispatch and the poll that follows it. *)
LEMMA DispatchWoken ==
    ASSUME PipelineInv, Woken(eng), NEW s, NEW work,
           Sending(eng, rows, jobs, completions, s, work), Dispatch(eng, work)
    PROVE  Woken(eng')
<1> DEFINE e == Sent(eng, work)
<1>1. ~SentMismatch(eng, work) /\ Issued(eng, e, s, work) BY SendAccepted
<1>2. PICK batch \in Batches(eng) : Finish(e, batch, TRUE, FALSE) BY <1>1 DEF Dispatch
<1>3. e \in Engine /\ e.rows = eng.rows BY <1>1 DEF Issued
<1>4. Woken(e) BY SentWoken
<1>5. /\ rows \in [Cells -> Row] /\ jobs \in PerWork(Job)
      /\ completions \in PerWork(SUBSET Requests)
  BY DEF PipelineInv, Good, Typed
<1>6. batch \in SUBSET Cells BY DEF Batches, Changed
<1> HIDE DEF e
<1>7. eng' = e \/ eng' = Observed(e, batch, TRUE, FALSE) BY <1>2 DEF Finish
<1>8. Woken(Observed(e, batch, TRUE, FALSE)) BY <1>3, <1>4, <1>5, <1>6, PollWakes
<1> QED BY <1>4, <1>7, <1>8

(* Every step wakes the workers it opens. *)
LEMMA StepsWake == PipelineInv /\ Woken(eng) /\ [Next]_vars => Woken(eng')
<1> SUFFICES ASSUME PipelineInv, Woken(eng), [Next]_vars PROVE Woken(eng') OBVIOUS
<1>1. Good(eng, rows, jobs, completions) /\ eng \in Engine BY DEF PipelineInv, Good, Typed
<1>2. ASSUME NEW r \in Requests, Admit(r) PROVE Woken(eng') BY <1>2, AdmitWoken
<1>3. ASSUME NEW k \in DOMAIN jobs, Worker(k) PROVE Woken(eng')
  <2>1. eng' = eng
    BY <1>3 DEF Worker, Capture, PublishImport, Compute, PublishResult, PublishHost, Complete
  <2> QED BY <2>1
<1>4. ASSUME NEW s \in Roles, Resend(s) PROVE Woken(eng')
  <2>1. PICK work \in eng.pending[s] : Dispatch(eng, work) BY <1>4 DEF Resend
  <2>2. Ready(eng, s, work) /\ eng.pending[s] = {work} BY <1>1 DEF Good, Pending
  <2>3. work \in Work BY <1>1 DEF Engine
  <2>4. Sending(eng, rows, jobs, completions, s, work) BY <1>1, <2>2, <2>3 DEF Sending
  <2> QED BY <2>1, <2>4, DispatchWoken
<1>5. ASSUME NEW s \in Roles, Schedule(s) PROVE Woken(eng')
  <2>1. eng.pending[s] = {} BY <1>5 DEF Schedule
  <2>2. PICK w \in eng.dirty[s], initial \in BOOLEAN : \E b \in Capacity(eng, w) :
        LET ready == {r \in Requests :
                         IF initial THEN EligibleInitial(eng, s, r) ELSE EligibleNext(eng, s, r)}
        IN  \E batch \in SUBSET ready \ {{}} :
                /\ Fits(eng, w, b, batch)
                /\ \E work \in {Build(eng, s, w, b, batch, initial)} :
                    IF FreezeMismatch(eng, work)
                    THEN /\ Fail("direct import source does not match frozen WORK")
                         /\ UNCHANGED <<eng, rows, jobs, completions>>
                    ELSE \/ Dispatch(eng, work)
                         \/ /\ FullRings
                            /\ ~ Plannable(eng, s, eng.dirty[s] \ {w}, Requests \ batch)
                            /\ eng' = [eng EXCEPT !.pending[s] = {work}, !.dirty[s] = {}]
                            /\ UNCHANGED <<rows, jobs, completions, failure>>
    BY <1>5 DEF Schedule
  <2> DEFINE ready == {r \in Requests :
                         IF initial THEN EligibleInitial(eng, s, r) ELSE EligibleNext(eng, s, r)}
  <2>3. PICK b \in Capacity(eng, w), batch \in SUBSET ready \ {{}} :
        LET work == Build(eng, s, w, b, batch, initial) IN
        IF FreezeMismatch(eng, work)
        THEN /\ Fail("direct import source does not match frozen WORK")
             /\ UNCHANGED <<eng, rows, jobs, completions>>
        ELSE \/ Dispatch(eng, work)
             \/ /\ ~ Plannable(eng, s, eng.dirty[s] \ {w}, Requests \ batch)
                /\ eng' = [eng EXCEPT !.pending[s] = {work}, !.dirty[s] = {}]
    BY <2>2
  <2> DEFINE work == Build(eng, s, w, b, batch, initial)
  <2>4. b \in Banks BY CapacityBanks
  <2>5. batch \in SUBSET Requests
        /\ \A r \in batch : IF initial THEN EligibleInitial(eng, s, r) ELSE EligibleNext(eng, s, r)
    OBVIOUS
  <2>6. work \in Work /\ Ready(eng, s, work) /\ ~FreezeMismatch(eng, work)
    BY <1>1, <2>4, <2>5, BuildReady
  <2>7. work.key[1] = w /\ Members(work) = batch BY DEF Build, Members
  <2>8. Sending(eng, rows, jobs, completions, s, work) BY <1>1, <2>1, <2>6 DEF Sending
  <2>9. \/ Dispatch(eng, work)
        \/ /\ ~ Plannable(eng, s, eng.dirty[s] \ {work.key[1]}, Requests \ Members(work))
           /\ eng' = [eng EXCEPT !.pending[s] = {work}, !.dirty[s] = {}]
    BY <2>3, <2>6, <2>7
  <2> HIDE DEF work, ready
  <2> QED BY <1>1, <2>1, <2>8, <2>9, DispatchWoken, PendWoken
<1>6. CASE Observe
  <2>1. PICK batch \in Batches(eng), fresh \in {TRUE, ~LateRows} : Finish(eng, batch, fresh, TRUE)
    BY <1>6 DEF Observe
  <2>2. /\ rows \in [Cells -> Row] /\ jobs \in PerWork(Job)
        /\ completions \in PerWork(SUBSET Requests)
    BY <1>1 DEF Good, Typed
  <2>3. batch \in SUBSET Cells /\ fresh \in BOOLEAN BY DEF Batches, Changed
  <2>4. eng' = eng \/ eng' = Observed(eng, batch, fresh, TRUE) BY <2>1 DEF Finish
  <2>5. Woken(Observed(eng, batch, fresh, TRUE)) BY <1>1, <2>2, <2>3, PollWakes
  <2> QED BY <2>4, <2>5
<1>7. CASE UNCHANGED vars BY <1>7 DEF vars
<1> QED BY <1>2, <1>3, <1>4, <1>5, <1>6, <1>7 DEF Next, SystemStep, Idle

(* At the start there is nothing to take. *)
LEMMA InitWoken == Init => Woken(eng)
<1> SUFFICES ASSUME Init PROVE Woken(eng) OBVIOUS
<1>1. \A r \in Requests : eng.req[r].lifecycle = "absent" BY DEF Init
<1>2. \A r \in Requests, s \in Roles : ~Wants(eng, s, r)
  BY <1>1 DEF Wants, EligibleInitial, EligibleNext, Active
<1>3. \A s : Unsent(eng, s) \subseteq Requests BY DEF Unsent
<1> QED BY <1>2, <1>3 DEF Woken, CanTake

(* Woken is all that NoStrandedWork asks. *)
LEMMA WokenPlans == PipelineInv /\ Woken(eng) => NoStrandedWork
<1> SUFFICES ASSUME PipelineInv, Woken(eng), NEW s \in Roles,
                    eng.pending[s] = {}, Plannable(eng, s, WorkersOf(s), Requests)
             PROVE  Plannable(eng, s, eng.dirty[s], Requests)
  BY DEF NoStrandedWork
<1>1. eng \in Engine BY DEF PipelineInv, Good, Typed
<1>2. Requests \in SUBSET Requests OBVIOUS
<1>3. PICK w \in WorkersOf(s) : HasRoom(eng, w) /\ \E r \in Requests : Wants(eng, s, r)
  BY <1>1, <1>2, PlanMeans
<1>4. Unsent(eng, s) = Requests BY DEF Unsent
<1>5. w \in eng.dirty[s] BY <1>3, <1>4 DEF Woken, CanTake
<1> QED BY <1>1, <1>2, <1>3, <1>5, PlanMeans

(* No wake-up is missing: a stage that some worker could serve has a dirty worker it
   can be planned for. *)
THEOREM NobodyStranded == Spec => []NoStrandedWork
<1>1. Init => Woken(eng) BY InitWoken
<1>2. PipelineInv /\ Woken(eng) /\ [Next]_vars => Woken(eng)'
  <2>1. Woken(eng)' <=> Woken(eng') BY DEF Woken, CanTake, HasRoom, Unsent, Wants
  <2> QED BY <2>1, StepsWake
<1>3. PipelineInv /\ Woken(eng) => NoStrandedWork BY WokenPlans
<1> QED BY <1>1, <1>2, <1>3, PipelineSafe, PTL DEF Spec
==============================================================================
