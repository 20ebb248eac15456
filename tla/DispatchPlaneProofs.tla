------------------------ MODULE DispatchPlaneProofs ------------------------
(***************************************************************************)
(* Proofs about the dispatch of commands, for any slots, workers, batches, *)
(* ring capacity and bounds: no command is stranded in a worker's ring or  *)
(* hand, and the dispatch partition of a row never mixes two lifetimes.    *)
(*                                                                         *)
(* A worker goes to sleep over a command whose facts it does not see.  The *)
(* invariant says that this happens only while the dispatcher still        *)
(* publishes them: every member of every command in flight either shows    *)
(* its fact in the row, of the row's current epoch and with an operation   *)
(* that is not older, or is one the dispatcher has left to publish.  A     *)
(* fact that was shown stays shown, since a slot is admitted again only    *)
(* when no command names it, so nothing resets the partition under it.     *)
(***************************************************************************)
EXTENDS DispatchPlane, TLAPS

Kinds == {"initial", "legacy", "delta", "remove", "prefill", "tprepare", "trun", "dprepare", "drun"}

\* The operation sequence by which a command's fact is seen.
SeqField(kind) ==
    CASE kind \in {"initial", "legacy", "delta", "drun"} -> "draft_issue_seq"
      [] kind = "dprepare" -> "draft_prepare_seq"
      [] kind = "tprepare" -> "target_prepare_seq"
      [] OTHER -> "target_run_seq"
SeqFields == {"draft_issue_seq", "draft_prepare_seq", "target_prepare_seq", "target_run_seq"}
VersionField == "draft_source_snapshot_version"

\* The parts of a row that workers publish.
FactParts == {"draft", "draft_d2h", "draft_h2d", "target", "d2h", "h2d"}

-----------------------------------------------------------------------------
\* A dispatch partition has its fields; sequences and epochs are numbers.
BlockShape(d) ==
    /\ SeqFields \cup {"request_epoch", VersionField} \subseteq DOMAIN d
    /\ \A f \in SeqFields \cup {"request_epoch"} : d[f] \in Nat

RowShape(r) ==
    /\ {"engine", "dispatch"} \subseteq DOMAIN r
    /\ {"request_epoch", "active"} \subseteq DOMAIN r.engine
    /\ r.engine.request_epoch \in Nat
    /\ BlockShape(r.dispatch)

RowsShape == DOMAIN rows = Slots /\ \A s \in Slots : RowShape(rows[s])

\* A command that is not a removal carries operations of the current lifetime.
CommandShape(c) ==
    /\ c # None
    /\ c.kind \in Kinds
    /\ DOMAIN c.rows \subseteq Slots
    /\ c.kind # "remove" => \A s \in DOMAIN c.rows :
         /\ c.rows[s].op_seq \in 1 .. clock
         /\ c.rows[s].request_epoch = Epoch(s)

\* The dispatch fact of member s of a command is in its row.
Shown(c, s) ==
    /\ rows[s].dispatch.request_epoch = c.rows[s].request_epoch
    /\ rows[s].dispatch[SeqField(c.kind)] >= c.rows[s].op_seq

\* The dispatcher has the fact of this member left to publish.
Left(c, s) == sending # None /\ sending.cmd = c /\ s \in sending.left

\* The commands of a worker's ring and the one in its hand.
InFlight(w) == {ring[w][i] : i \in DOMAIN ring[w]} \cup {c \in {got[w]} : c # None}

CommandsShown ==
    \A w \in Workers : \A c \in InFlight(w) :
        /\ CommandShape(c)
        /\ c.worker = w
        /\ c.kind # "remove" => \A s \in DOMAIN c.rows : Shown(c, s) \/ Left(c, s)

\* What is being published: the newest operation, and for a Draft prepare or run
\* a source the scheduler has seen or the lifetime the partition shows.
SendingShape ==
    sending # None =>
        LET c == sending.cmd IN
        /\ sending = [cmd |-> c, left |-> sending.left]
        /\ CommandShape(c)
        /\ sending.left \subseteq DOMAIN c.rows
        /\ c.kind = "remove" => sending.left = {}
        /\ \A s \in sending.left : c.rows[s].op_seq = clock
        /\ c.kind = "dprepare" => \A s \in DOMAIN c.rows :
             /\ c.rows[s].source \in snaps[s]
             /\ c.rows[s].source.request_epoch = c.rows[s].request_epoch
        /\ c.kind = "drun" => \A s \in sending.left :
             rows[s].dispatch.request_epoch = c.rows[s].request_epoch

PendShape == \A w \in Workers : pend[w] # None => DOMAIN pend[w].rows \subseteq Slots

\* A worker's job publishes to the parts of workers only.
JobShape(j) ==
    /\ {"kind", "phase", "held"} \subseteq DOMAIN j
    /\ j.kind \in Kinds \ {"remove"}
    /\ j.phase \in DOMAIN Phases(j.kind)
    /\ j.held # None => j.held.fact.part \in FactParts

PlaneShape ==
    /\ clock \in Nat
    /\ DOMAIN ring = Workers /\ DOMAIN got = Workers /\ DOMAIN awake = Workers
    /\ DOMAIN pend = Workers
    /\ \A w \in Workers : \E C : ring[w] \in Seq(C)
    /\ DOMAIN snaps = Slots
    /\ \A j \in jobs : JobShape(j)

\* None is a value of its own: no command, and nothing being published.
NoneIsNoRecord ==
    /\ \A c, left : [cmd |-> c, left |-> left] # None
    /\ \A kind, worker, seq, batch, members :
         [kind |-> kind, worker |-> worker, seq |-> seq, batch |-> batch, rows |-> members] # None

DispatchInv ==
    /\ PlaneShape /\ RowsShape /\ SendingShape /\ PendShape
    /\ CommandsShown /\ NoStrandedCommand /\ DispatchOfOneLifetime

-----------------------------------------------------------------------------
\* The elements of a sequence behind Append and Tail.
Elements(s) == {s[i] : i \in DOMAIN s}

\* Appending adds one element to those of a sequence.
LEMMA AppendElements ==
    ASSUME NEW C, NEW s \in Seq(C), NEW e
    PROVE  /\ Append(s, e) \in Seq(C \cup {e})
           /\ Elements(Append(s, e)) = Elements(s) \cup {e}
<1>1. s \in Seq(C \cup {e})
  OBVIOUS
<1>2. Append(s, e) \in Seq(C \cup {e})
  BY <1>1
<1>3. Len(Append(s, e)) = Len(s) + 1 /\ DOMAIN Append(s, e) = 1 .. Len(s) + 1 /\ DOMAIN s = 1 .. Len(s)
      /\ Len(s) \in Nat
  BY <1>1
<1>4. \A i \in 1 .. Len(s) : Append(s, e)[i] = s[i]
  BY <1>1
<1>5. Append(s, e)[Len(s) + 1] = e
  BY <1>1
<1>6. Elements(Append(s, e)) \subseteq Elements(s) \cup {e}
  <2> SUFFICES ASSUME NEW i \in DOMAIN Append(s, e) PROVE Append(s, e)[i] \in Elements(s) \cup {e}
    BY DEF Elements
  <2>1. i \in 1 .. Len(s) \/ i = Len(s) + 1
    BY <1>3
  <2> QED
    BY <1>3, <1>4, <1>5, <2>1 DEF Elements
<1>7. Elements(s) \cup {e} \subseteq Elements(Append(s, e))
  <2>1. e \in Elements(Append(s, e))
    BY <1>3, <1>5 DEF Elements
  <2>2. ASSUME NEW i \in DOMAIN s PROVE s[i] \in Elements(Append(s, e))
    <3>1. i \in DOMAIN Append(s, e) /\ Append(s, e)[i] = s[i]
      BY <1>3, <1>4
    <3> QED
      BY <3>1 DEF Elements
  <2> QED
    BY <2>1, <2>2 DEF Elements
<1> QED
  BY <1>2, <1>6, <1>7

\* Taking the head off leaves no new element.
LEMMA TailElements ==
    ASSUME NEW C, NEW s \in Seq(C), s # <<>>
    PROVE  /\ Tail(s) \in Seq(C)
           /\ Elements(Tail(s)) \subseteq Elements(s)
           /\ Head(s) \in Elements(s)
<1>1. Len(s) \in Nat \ {0} /\ DOMAIN s = 1 .. Len(s)
  OBVIOUS
<1>2. Tail(s) \in Seq(C) /\ Len(Tail(s)) = Len(s) - 1 /\ DOMAIN Tail(s) = 1 .. Len(s) - 1
  BY <1>1
<1>3. \A i \in DOMAIN Tail(s) : Tail(s)[i] = s[i + 1] /\ i + 1 \in DOMAIN s
  BY <1>1, <1>2
<1>4. Head(s) = s[1] /\ 1 \in DOMAIN s
  BY <1>1
<1> QED
  BY <1>2, <1>3, <1>4 DEF Elements

-----------------------------------------------------------------------------
\* A slot before any publication, and what a request left behind.
LEMMA FreshRows ==
    /\ RowShape(EmptyRow) /\ EmptyRow.dispatch.draft_source_snapshot_version = 0
    /\ RowShape(Residue)
    /\ Residue.dispatch.request_epoch = 1 /\ Residue.dispatch.draft_source_snapshot_version = 1
<1> DEFINE old == Over(PrepareValues(None, 4, OldPrepare),
               [draft_issue_seq |-> 5, draft_round_id |-> 2, draft_worker_id |-> None,
                target_prepare_seq |-> 3, target_run_seq |-> 6, target_round_id |-> 2,
                planned_target_id |-> None, planned_bank |-> 3, draft_owner_epoch |-> 1,
                draft_run_batch |-> 4])
<1>1. EmptyRow.dispatch = Over(DispatchFields, DispatchBlock) /\ EmptyRow.engine = EngineBlock
      /\ {"engine", "dispatch"} \subseteq DOMAIN EmptyRow
  BY DEF EmptyRow
<1>2. BlockShape(Over(DispatchFields, DispatchBlock))
      /\ Over(DispatchFields, DispatchBlock).draft_source_snapshot_version = 0
  BY DEF BlockShape, Over, DispatchBlock, DispatchFields, SeqFields, VersionField
<1>3. Residue.dispatch = old /\ Residue.engine = [request_epoch |-> 1, active |-> FALSE]
      /\ {"engine", "dispatch"} \subseteq DOMAIN Residue
  BY DEF Residue
<1>4. PrepareValues(None, 4, OldPrepare) =
        [request_epoch |-> 1, draft_prepare_seq |-> 4, planned_draft_id |-> None,
         draft_prepared_batch |-> 4, draft_source_snapshot_version |-> 1, draft_next_owner_epoch |-> 1]
  BY DEF PrepareValues, OldPrepare, Over, OldOp, OldSource, SnapshotIdentity
<1>5. BlockShape(old) /\ old.request_epoch = 1 /\ old.draft_source_snapshot_version = 1
  BY <1>4 DEF BlockShape, Over, SeqFields, VersionField
<1> HIDE DEF old
<1> QED
  BY <1>1, <1>2, <1>3, <1>5 DEF RowShape, EngineBlock

\* The Engine's first state: every row empty or left by an earlier process.
LEMMA DispatchInit == ASSUME InitDispatch PROVE DispatchInv
<1>1. RowsShape
  <2>1. PICK S \in Batches :
          rows = [s \in Slots |-> LET r == IF s \in Used THEN Residue ELSE EmptyRow IN
                                  IF s \in S THEN r ELSE [r EXCEPT !.engine.request_epoch = MaxEpoch]]
    BY DEF InitDispatch
  <2>2. MaxEpoch \in Nat
    BY DispatchAssumption
  <2>3. ASSUME NEW r, RowShape(r) PROVE RowShape([r EXCEPT !.engine.request_epoch = MaxEpoch])
    BY <2>2, <2>3 DEF RowShape
  <2> QED
    BY <2>1, <2>3, FreshRows DEF RowsShape
<1>2. DispatchOfOneLifetime
  <2>1. PICK S \in Batches :
          rows = [s \in Slots |-> LET r == IF s \in Used THEN Residue ELSE EmptyRow IN
                                  IF s \in S THEN r ELSE [r EXCEPT !.engine.request_epoch = MaxEpoch]]
    BY DEF InitDispatch
  <2>2. ASSUME NEW r, RowShape(r) PROVE [r EXCEPT !.engine.request_epoch = MaxEpoch].dispatch = r.dispatch
    BY <2>2 DEF RowShape
  <2>3. \A s \in Slots : rows[s].dispatch = IF s \in Used THEN Residue.dispatch ELSE EmptyRow.dispatch
    BY <2>1, <2>2, FreshRows
  <2>4. \A s \in Slots : s \in Used => OldSource \in snaps[s]
    BY DEF InitDispatch
  <2>5. OldSource.request_epoch = 1 /\ OldSource.snapshot_version = 1
    BY DEF OldSource, SnapshotIdentity, OldOp
  <2> QED
    BY <2>3, <2>4, <2>5, FreshRows DEF DispatchOfOneLifetime
<1>3. PlaneShape
  <2>1. <<>> \in Seq({})
    OBVIOUS
  <2> QED
    BY <2>1 DEF InitDispatch, PlaneShape
<1>4. \A w \in Workers : InFlight(w) = {}
  BY DEF InitDispatch, InFlight
<1>5. SendingShape /\ PendShape /\ CommandsShown /\ NoStrandedCommand
  BY <1>4 DEF InitDispatch, SendingShape, PendShape, CommandsShown, NoStrandedCommand
<1> QED
  BY <1>1, <1>2, <1>3, <1>5 DEF DispatchInv

-----------------------------------------------------------------------------
\* What a step leaves of the rows when it publishes no dispatch fact and starts
\* no lifetime.
RowsKept ==
    /\ DOMAIN rows' = Slots
    /\ \A s \in Slots : /\ RowShape(rows'[s])
                        /\ rows'[s].dispatch = rows[s].dispatch
                        /\ rows'[s].engine.request_epoch = rows[s].engine.request_epoch

\* Such a step, that sends nothing either, keeps what was shown and named.
FactsKept ==
    /\ RowsKept
    /\ UNCHANGED <<sending, clock>>
    /\ pend' = pend
    /\ \A s \in Slots : snaps[s] \subseteq snaps'[s]
    /\ \A w \in Workers : InFlight(w)' \subseteq InFlight(w)

\* A step that keeps the facts keeps every command shown.
LEMMA FactsKeptStep ==
    ASSUME DispatchInv, FactsKept
    PROVE  RowsShape' /\ SendingShape' /\ PendShape' /\ CommandsShown' /\ DispatchOfOneLifetime'
<1>1. RowsShape'
  BY DEF FactsKept, RowsKept, RowsShape
<1>2. ASSUME NEW c, CommandShape(c) PROVE CommandShape(c)'
  BY <1>2 DEF CommandShape, FactsKept, RowsKept, Epoch
<1>3. ASSUME NEW c, CommandShape(c), NEW s \in DOMAIN c.rows, Shown(c, s) PROVE Shown(c, s)'
  BY <1>3 DEF CommandShape, Shown, FactsKept, RowsKept
<1>4. ASSUME NEW c, NEW s, Left(c, s) PROVE Left(c, s)'
  BY <1>4 DEF Left, FactsKept
<1>5. SendingShape'
  <2> SUFFICES ASSUME sending' # None PROVE SendingShape'
    BY DEF SendingShape
  <2>0. PICK c : c = sending.cmd
    OBVIOUS
  <2>1. /\ sending # None /\ sending' = sending /\ sending'.cmd = c /\ sending'.left = sending.left
        /\ clock' = clock
    BY <2>0 DEF FactsKept
  <2>2. /\ sending = [cmd |-> c, left |-> sending.left]
        /\ CommandShape(c)
        /\ sending.left \subseteq DOMAIN c.rows
        /\ c.kind = "remove" => sending.left = {}
        /\ \A s \in sending.left : c.rows[s].op_seq = clock
        /\ c.kind = "dprepare" => \A s \in DOMAIN c.rows :
             /\ c.rows[s].source \in snaps[s]
             /\ c.rows[s].source.request_epoch = c.rows[s].request_epoch
        /\ c.kind = "drun" => \A s \in sending.left :
             rows[s].dispatch.request_epoch = c.rows[s].request_epoch
    BY <2>0, <2>1 DEF DispatchInv, SendingShape
  <2>3. DOMAIN c.rows \subseteq Slots
    BY <2>2 DEF CommandShape
  <2>4. \A s \in DOMAIN c.rows : snaps[s] \subseteq snaps'[s] /\ rows'[s].dispatch = rows[s].dispatch
    BY <2>3 DEF FactsKept, RowsKept
  <2>5. CommandShape(c)'
    BY <1>2, <2>2
  <2>6. c.kind = "dprepare" => \A s \in DOMAIN c.rows :
             /\ c.rows[s].source \in snaps'[s]
             /\ c.rows[s].source.request_epoch = c.rows[s].request_epoch
    BY <2>2, <2>4
  <2>7. c.kind = "drun" => \A s \in sending.left :
             rows'[s].dispatch.request_epoch = c.rows[s].request_epoch
    BY <2>2, <2>4
  <2> QED
    BY <2>1, <2>2, <2>5, <2>6, <2>7 DEF SendingShape
<1>6. PendShape'
  BY DEF DispatchInv, PendShape, FactsKept
<1>7. CommandsShown'
  <2> SUFFICES ASSUME NEW w \in Workers, NEW c \in InFlight(w)'
               PROVE  /\ CommandShape(c)' /\ c.worker = w
                      /\ c.kind # "remove" => \A s \in DOMAIN c.rows : Shown(c, s)' \/ Left(c, s)'
    BY DEF CommandsShown
  <2>1. c \in InFlight(w)
    BY DEF FactsKept
  <2>2. /\ CommandShape(c) /\ c.worker = w
        /\ c.kind # "remove" => \A s \in DOMAIN c.rows : Shown(c, s) \/ Left(c, s)
    BY <2>1 DEF DispatchInv, CommandsShown
  <2> QED
    BY <1>2, <1>3, <1>4, <2>2
<1>8. DispatchOfOneLifetime'
  <2>1. \A s \in Slots : snaps[s] \subseteq snaps'[s] /\ rows'[s].dispatch = rows[s].dispatch
    BY DEF FactsKept, RowsKept
  <2> QED
    BY <2>1 DEF DispatchInv, DispatchOfOneLifetime
<1> QED
  BY <1>1, <1>5, <1>6, <1>7, <1>8

\* The rows themselves stand still.
LEMMA RowsStill ==
    ASSUME DispatchInv, rows' = rows
    PROVE  RowsKept
  BY DEF DispatchInv, RowsShape, RowsKept

\* A publication of a worker's part, or of the Engine's flag.
LEMMA PublishPart ==
    ASSUME DispatchInv, NEW s, NEW part \in FactParts, NEW values,
           rows' = [rows EXCEPT ![s] = Publish(@, part, values)]
    PROVE  RowsKept
<1>1. ASSUME NEW r, RowShape(r)
      PROVE  /\ RowShape(Publish(r, part, values))
             /\ Publish(r, part, values).dispatch = r.dispatch
             /\ Publish(r, part, values).engine = r.engine
  BY <1>1 DEF RowShape, Publish, FactParts
<1>2. DOMAIN rows' = Slots
  BY DEF DispatchInv, RowsShape
<1>3. \A x \in Slots : rows'[x] = rows[x] \/ rows'[x] = Publish(rows[x], part, values)
  BY DEF DispatchInv, RowsShape
<1> QED
  BY <1>1, <1>2, <1>3 DEF DispatchInv, RowsShape, RowsKept

\* The release of a finished request publishes lifecycle fields only.
LEMMA FinishStep ==
    ASSUME DispatchInv, NEW s0 \in Slots, Finish(s0)
    PROVE  DispatchInv'
<1>1. RowsKept
  <2>1. ASSUME NEW r, RowShape(r)
        PROVE  /\ RowShape(PublishLifecycle(r))
               /\ PublishLifecycle(r).dispatch = r.dispatch
               /\ PublishLifecycle(r).engine.request_epoch = r.engine.request_epoch
    BY <2>1 DEF RowShape, PublishLifecycle, Publish, Over
  <2>2. rows' = [rows EXCEPT ![s0] = PublishLifecycle(@)]
    BY DEF Finish
  <2>3. DOMAIN rows' = Slots
    BY <2>2 DEF DispatchInv, RowsShape
  <2>4. \A x \in Slots : rows'[x] = rows[x] \/ rows'[x] = PublishLifecycle(rows[x])
    BY <2>2 DEF DispatchInv, RowsShape
  <2> QED
    BY <2>1, <2>3, <2>4 DEF DispatchInv, RowsShape, RowsKept
<1>2. UNCHANGED <<clock, sending, pend, ring, awake, got, jobs, snaps>>
  BY DEF Finish
<1>3. FactsKept
  BY <1>1, <1>2 DEF FactsKept, InFlight
<1>4. RowsShape' /\ SendingShape' /\ PendShape' /\ CommandsShown' /\ DispatchOfOneLifetime'
  BY <1>3, FactsKeptStep
<1>5. PlaneShape'
  BY <1>2 DEF DispatchInv, PlaneShape, JobShape
<1>6. NoStrandedCommand'
  BY <1>2 DEF DispatchInv, NoStrandedCommand
<1> QED
  BY <1>4, <1>5, <1>6 DEF DispatchInv

\* A new lifetime of a slot that no command names: what the others show stays.
LEMMA AdmitStep ==
    ASSUME DispatchInv, NEW s0 \in Slots, Admit(s0)
    PROVE  DispatchInv'
<1>1. /\ UNCHANGED <<clock, sending, pend, ring, awake, got, jobs, snaps>>
      /\ rows' = [rows EXCEPT ![s0] = PublishDraftAllocation(PublishAllocation(PublishActive(@)))]
      /\ Quiet(s0) /\ sending = None
  BY DEF Admit, Quiet
<1>2. ASSUME NEW r, RowShape(r)
      PROVE  LET n == PublishDraftAllocation(PublishAllocation(PublishActive(r)))
             IN  RowShape(n) /\ n.dispatch = r.dispatch
  <2>1. LET a == PublishActive(r) IN RowShape(a) /\ a.dispatch = r.dispatch
    BY <1>2 DEF RowShape, PublishActive, Publish, Over
  <2>2. ASSUME NEW a, RowShape(a)
        PROVE  RowShape(PublishAllocation(a)) /\ PublishAllocation(a).dispatch = a.dispatch
    BY <2>2 DEF RowShape, PublishAllocation, Publish
  <2>3. ASSUME NEW a, RowShape(a)
        PROVE  RowShape(PublishDraftAllocation(a)) /\ PublishDraftAllocation(a).dispatch = a.dispatch
    BY <2>3 DEF RowShape, PublishDraftAllocation, Publish
  <2> QED
    BY <2>1, <2>2, <2>3
<1>3. DOMAIN rows' = Slots /\ \A x \in Slots : RowShape(rows'[x]) /\ rows'[x].dispatch = rows[x].dispatch
  <2>1. \A x \in Slots : \/ rows'[x] = rows[x]
                         \/ rows'[x] = PublishDraftAllocation(PublishAllocation(PublishActive(rows[x])))
    BY <1>1 DEF DispatchInv, RowsShape
  <2>2. DOMAIN rows' = Slots
    BY <1>1 DEF DispatchInv, RowsShape
  <2> QED
    BY <1>2, <2>1, <2>2 DEF DispatchInv, RowsShape
<1>4. \A x \in Slots \ {s0} : rows'[x] = rows[x]
  BY <1>1 DEF DispatchInv, RowsShape
<1>5. CommandsShown'
  <2> SUFFICES ASSUME NEW w \in Workers, NEW c \in InFlight(w)'
               PROVE  /\ CommandShape(c)' /\ c.worker = w
                      /\ c.kind # "remove" => \A s \in DOMAIN c.rows : Shown(c, s)' \/ Left(c, s)'
    BY DEF CommandsShown
  <2>1. c \in InFlight(w)
    BY <1>1 DEF InFlight
  <2>2. /\ CommandShape(c) /\ c.worker = w
        /\ c.kind # "remove" => \A s \in DOMAIN c.rows : Shown(c, s) \/ Left(c, s)
    BY <2>1 DEF DispatchInv, CommandsShown
  <2>3. ~ Names(c, s0)
    BY <1>1, <2>1 DEF InFlight, Quiet
  <2>4. c # None /\ DOMAIN c.rows \subseteq Slots \ {s0}
    BY <2>2, <2>3 DEF Names, CommandShape
  <2>5. \A s \in DOMAIN c.rows : rows'[s] = rows[s]
    BY <1>4, <2>4
  <2>6. CommandShape(c)'
    BY <1>1, <2>2, <2>5 DEF CommandShape, Epoch
  <2>7. \A s \in DOMAIN c.rows : Shown(c, s) => Shown(c, s)'
    BY <2>5 DEF Shown
  <2>8. \A s \in DOMAIN c.rows : ~ Left(c, s)
    BY <1>1 DEF Left
  <2> QED
    BY <2>2, <2>6, <2>7, <2>8
<1>6. PlaneShape' /\ SendingShape' /\ PendShape' /\ NoStrandedCommand'
  BY <1>1 DEF DispatchInv, PlaneShape, JobShape, SendingShape, PendShape, NoStrandedCommand
<1>7. RowsShape'
  BY <1>3 DEF RowsShape
<1>8. DispatchOfOneLifetime'
  BY <1>1, <1>3 DEF DispatchInv, DispatchOfOneLifetime
<1> QED
  BY <1>5, <1>6, <1>7, <1>8 DEF DispatchInv

-----------------------------------------------------------------------------
\* A worker's publication is to one of the parts of workers.
LEMMA FactsArePublished ==
    ASSUME NEW j, JobShape(j), NEW s
    PROVE  FactOf(j, s).part \in FactParts
<1>2. CASE j.kind \in {"initial", "drun"}
  <2>1. DraftFact(j, s).part \in FactParts
    BY DEF DraftFact, FactParts, Fact
  <2> QED
    BY <1>2, <2>1 DEF FactOf
<1>3. CASE j.kind \in {"legacy", "delta"}
  <2>1. LegacyDraftFact(j, s).part \in FactParts
    BY DEF LegacyDraftFact, FactParts, Fact
  <2> QED
    BY <1>3, <2>1 DEF FactOf
<1>4. CASE j.kind = "dprepare"
  <2>1. DraftImportFact(j, s).part \in FactParts
    BY DEF DraftImportFact, FactParts, Fact
  <2> QED
    BY <1>4, <2>1 DEF FactOf
<1>5. CASE j.kind \in {"prefill", "trun"}
  <2>1. Phases(j.kind) = <<"READY_DRAFT", "IN_D2H", "HOST_READY">>
    BY <1>5 DEF Phases
  <2>2. j.phase \in 1 .. 3
    BY <2>1 DEF JobShape
  <2>3. Status(j) \in {"READY_DRAFT", "IN_D2H", "HOST_READY"}
    BY <2>1, <2>2 DEF Status
  <2>4. TargetFact(j, s).part \in FactParts
    BY <2>3 DEF TargetFact, FactParts, Fact
  <2> QED
    BY <1>5, <2>4 DEF FactOf
<1>6. CASE j.kind = "tprepare"
  <2>1. TargetImportFact(j, s).part \in FactParts
    BY DEF TargetImportFact, FactParts, Fact
  <2> QED
    BY <1>6, <2>1 DEF FactOf
<1> QED
  BY <1>2, <1>3, <1>4, <1>5, <1>6 DEF JobShape, Kinds

\* The phases of a job are numbered from 1.
LEMMA PhasesNumbered ==
    ASSUME NEW kind \in Kinds \ {"remove"}
    PROVE  /\ Len(Phases(kind)) \in Nat /\ DOMAIN Phases(kind) = 1 .. Len(Phases(kind))
           /\ 1 \in DOMAIN Phases(kind)
<1>1. CASE kind \in {"initial", "drun"}
  <2>1. Phases(kind) = <<"IN_DRAFT", "READY_TARGET", "IN_D2H", "HOST_READY">>
    BY <1>1 DEF Phases
  <2> QED
    BY <2>1
<1>2. CASE kind \in {"legacy", "delta"}
  <2>1. Phases(kind) = <<"IN_DRAFT", "READY_TARGET">>
    BY <1>2 DEF Phases
  <2> QED
    BY <2>1
<1>3. CASE kind = "dprepare"
  <2>1. Phases(kind) = <<"WAIT_HOST", "IN_H2D", "GPU_READY">>
    BY <1>3 DEF Phases
  <2> QED
    BY <2>1
<1>4. CASE kind \in {"prefill", "trun"}
  <2>1. Phases(kind) = <<"READY_DRAFT", "IN_D2H", "HOST_READY">>
    BY <1>4 DEF Phases
  <2> QED
    BY <2>1
<1>5. CASE kind = "tprepare"
  <2>1. Phases(kind) = <<"WAIT_HOST", "GPU_READY">>
    BY <1>5 DEF Phases
  <2> QED
    BY <2>1
<1> QED
  BY <1>1, <1>2, <1>3, <1>4, <1>5 DEF Kinds

\* Checking the fences of a member holds its publication, or ends the job.
LEMMA ValidateStep ==
    ASSUME DispatchInv, NEW j \in jobs, NEW s \in j.left, Validate(j, s)
    PROVE  DispatchInv'
<1>1. UNCHANGED <<rows, clock, sending, pend, ring, awake, got, snaps>>
  BY DEF Validate
<1>2. JobShape(j)
  BY DEF DispatchInv, PlaneShape
<1>3. ASSUME NEW k \in jobs' PROVE JobShape(k)
  <2> DEFINE f == FactOf(j, s)
             h == [j EXCEPT !.held = [slot |-> s, fact |-> f]]
  <2>1. k \in jobs \/ k = h
    BY DEF Validate
  <2>2. f.part \in FactParts
    BY <1>2, FactsArePublished
  <2> HIDE DEF f
  <2>3. JobShape(h)
    BY <1>2, <2>2 DEF JobShape
  <2> QED
    BY <2>1, <2>3 DEF DispatchInv, PlaneShape
<1>4. PlaneShape'
  BY <1>1, <1>3 DEF DispatchInv, PlaneShape, JobShape
<1>5. FactsKept
  BY <1>1, RowsStill DEF FactsKept, InFlight
<1>6. RowsShape' /\ SendingShape' /\ PendShape' /\ CommandsShown' /\ DispatchOfOneLifetime'
  BY <1>5, FactsKeptStep
<1>7. NoStrandedCommand'
  BY <1>1 DEF DispatchInv, NoStrandedCommand
<1> QED
  BY <1>4, <1>6, <1>7 DEF DispatchInv

\* A publication leaves the dispatch partition alone; snapshots only add up.
LEMMA PublishStep ==
    ASSUME DispatchInv, NEW j \in jobs, PublishHeld(j)
    PROVE  DispatchInv'
<1>1. UNCHANGED <<clock, sending, pend, ring, awake, got>>
  BY DEF PublishHeld
<1>2. JobShape(j) /\ j.held # None /\ j.held.fact.part \in FactParts
  BY DEF DispatchInv, PlaneShape, PublishHeld, JobShape
<1>3. rows' = [rows EXCEPT ![j.held.slot] = Publish(@, j.held.fact.part, j.held.fact.values)]
  BY DEF PublishHeld
<1>4. RowsKept
  BY <1>2, <1>3, PublishPart
<1>5. DOMAIN snaps' = Slots /\ \A s \in Slots : snaps[s] \subseteq snaps'[s]
  <2>1. \/ snaps' = snaps
        \/ snaps' = [snaps EXCEPT ![j.held.slot] = @ \cup {Identity(j, j.held.slot)}]
    BY DEF PublishHeld
  <2> QED
    BY <2>1 DEF DispatchInv, PlaneShape
<1>6. ASSUME NEW k \in jobs' PROVE JobShape(k)
  <2>0. PICK last \in {TRUE, FALSE} : \E left :
          /\ \/ k \in jobs
             \/ k = [j EXCEPT !.held = None, !.phase = IF last THEN @ + 1 ELSE @, !.left = left]
          /\ last => k \in jobs \/ j.phase # Len(Phases(j.kind))
    <3>1. PICK last \in {j.left = {j.held.slot}} :
            jobs' = (jobs \ {j}) \cup
                IF last /\ j.phase = Len(Phases(j.kind)) THEN {}
                ELSE {[j EXCEPT !.held = None, !.phase = IF last THEN @ + 1 ELSE @,
                                !.left = IF last THEN DOMAIN j.rows ELSE @ \ {j.held.slot}]}
      BY DEF PublishHeld
    <3>2. CASE last /\ j.phase = Len(Phases(j.kind))
      BY <3>1, <3>2
    <3>3. CASE last /\ j.phase # Len(Phases(j.kind))
      <4>1. k \in jobs \/ k = [j EXCEPT !.held = None, !.phase = @ + 1, !.left = DOMAIN j.rows]
        BY <3>1, <3>3
      <4> QED
        BY <3>3, <4>1
    <3>4. CASE ~ last
      <4>1. k \in jobs \/ k = [j EXCEPT !.held = None, !.phase = @, !.left = @ \ {j.held.slot}]
        BY <3>1, <3>4
      <4> QED
        BY <3>4, <4>1
    <3> QED
      BY <3>2, <3>3, <3>4
  <2>1. PICK left :
          /\ \/ k \in jobs
             \/ k = [j EXCEPT !.held = None, !.phase = IF last THEN @ + 1 ELSE @, !.left = left]
          /\ last => k \in jobs \/ j.phase # Len(Phases(j.kind))
    BY <2>0
  <2>2. CASE k \in jobs
    BY <2>2 DEF DispatchInv, PlaneShape
  <2>3. CASE k \notin jobs
    <3> DEFINE n == [j EXCEPT !.held = None, !.phase = IF last THEN @ + 1 ELSE @, !.left = left]
    <3>1. k = n /\ (last => j.phase # Len(Phases(j.kind)))
      BY <2>1, <2>3
    <3>2. n.kind = j.kind /\ n.held = None /\ DOMAIN n = DOMAIN j
          /\ (n.phase = j.phase \/ (n.phase = j.phase + 1 /\ last))
      BY <1>2 DEF JobShape
    <3> HIDE DEF n
    <3>3. n.phase \in DOMAIN Phases(j.kind)
      BY <1>2, <3>1, <3>2, PhasesNumbered DEF JobShape
    <3> QED
      BY <1>2, <3>1, <3>2, <3>3 DEF JobShape
  <2> QED
    BY <2>2, <2>3
<1>7. PlaneShape'
  BY <1>1, <1>5, <1>6 DEF DispatchInv, PlaneShape, JobShape
<1>8. FactsKept
  BY <1>1, <1>4, <1>5 DEF FactsKept, InFlight
<1>9. RowsShape' /\ SendingShape' /\ PendShape' /\ CommandsShown' /\ DispatchOfOneLifetime'
  BY <1>8, FactsKeptStep
<1>10. NoStrandedCommand'
  BY <1>1 DEF DispatchInv, NoStrandedCommand
<1> QED
  BY <1>7, <1>9, <1>10 DEF DispatchInv

\* A copy that completes unreported has a later phase.
LEMMA SkipStep ==
    ASSUME DispatchInv, NEW j \in jobs, SkipProgress(j)
    PROVE  DispatchInv'
<1>1. UNCHANGED <<rows, clock, sending, pend, ring, awake, got, snaps>>
  BY DEF SkipProgress
<1>2. JobShape(j) /\ Status(j) \in {"IN_D2H", "IN_H2D"}
  BY DEF DispatchInv, PlaneShape, SkipProgress
<1>3. j.phase + 1 \in DOMAIN Phases(j.kind)
  <2>1. j.kind \in Kinds \ {"remove"} /\ j.phase \in DOMAIN Phases(j.kind)
        /\ Phases(j.kind)[j.phase] \in {"IN_D2H", "IN_H2D"}
    BY <1>2 DEF JobShape, Status
  <2>2. CASE j.kind \in {"initial", "drun"}
    BY <2>1, <2>2 DEF Phases
  <2>3. CASE j.kind \in {"legacy", "delta"}
    BY <2>1, <2>3 DEF Phases
  <2>4. CASE j.kind = "dprepare"
    BY <2>1, <2>4 DEF Phases
  <2>5. CASE j.kind \in {"prefill", "trun"}
    BY <2>1, <2>5 DEF Phases
  <2>6. CASE j.kind = "tprepare"
    BY <2>1, <2>6 DEF Phases
  <2> QED
    BY <2>1, <2>2, <2>3, <2>4, <2>5, <2>6 DEF Kinds
<1>4. ASSUME NEW k \in jobs' PROVE JobShape(k)
  <2>1. k \in jobs \/ k = [j EXCEPT !.phase = @ + 1]
    BY DEF SkipProgress
  <2>2. JobShape([j EXCEPT !.phase = @ + 1])
    BY <1>2, <1>3 DEF JobShape
  <2> QED
    BY <2>1, <2>2 DEF DispatchInv, PlaneShape
<1>5. PlaneShape'
  BY <1>1, <1>4 DEF DispatchInv, PlaneShape, JobShape
<1>6. FactsKept
  BY <1>1, RowsStill DEF FactsKept, InFlight
<1>7. RowsShape' /\ SendingShape' /\ PendShape' /\ CommandsShown' /\ DispatchOfOneLifetime'
  BY <1>6, FactsKeptStep
<1>8. NoStrandedCommand'
  BY <1>1 DEF DispatchInv, NoStrandedCommand
<1> QED
  BY <1>5, <1>7, <1>8 DEF DispatchInv

-----------------------------------------------------------------------------
\* A fence waits, refuses or lets pass; it does not wait for what is shown.
LEMMA ShownIsNotAwaited ==
    ASSUME DispatchInv, NEW c, CommandShape(c), NEW s \in DOMAIN c.rows,
           c.kind # "remove" => Shown(c, s)
    PROVE  Verdict(c, s) \in {"ready", "refuse"}
<1>1. CASE c.kind = "remove"
  BY <1>1 DEF Verdict
<1>2. CASE c.kind # "remove"
  <2> DEFINE d == rows[s].dispatch
             q == c.rows[s]
  <2>1. /\ d.request_epoch = q.request_epoch /\ d[SeqField(c.kind)] >= q.op_seq
        /\ q.op_seq \in 1 .. clock /\ q.request_epoch = Epoch(s) /\ s \in Slots
    BY <1>2 DEF Shown, CommandShape
  <2>2. BlockShape(d) /\ Epoch(s) \in Nat /\ clock \in Nat
    BY <2>1 DEF DispatchInv, RowsShape, RowShape, PlaneShape, Epoch
  <2>3. ASSUME NEW shown \in Nat, NEW own \in Nat, NEW valid, shown >= own
        PROVE  SequenceVerdict(shown, own, valid) \in {"ready", "refuse"}
    BY <2>3 DEF SequenceVerdict
  <2>4. /\ d["draft_issue_seq"] \in Nat /\ d["draft_prepare_seq"] \in Nat
        /\ d["target_prepare_seq"] \in Nat /\ d["target_run_seq"] \in Nat /\ q.op_seq \in Nat \ {0}
        /\ d.request_epoch \in Nat
    BY <2>1, <2>2 DEF BlockShape, SeqFields
  <2>5. CASE c.kind = "initial"
    <3>1. d.draft_issue_seq >= q.op_seq
      BY <2>1, <2>5 DEF SeqField
    <3>2. HasDraftDispatch(d)
      BY <2>4, <3>1 DEF HasDraftDispatch
    <3>3. ~ (q.request_epoch > d.request_epoch) /\ ~ (q.request_epoch < d.request_epoch)
      BY <2>1, <2>4
    <3>4. InitialVerdict(c, s) = IF ValidateInitialDispatch(rows[s], c.worker, c.batch, q)
                                 THEN "ready" ELSE "refuse"
      BY <3>2, <3>3 DEF InitialVerdict
    <3> QED
      BY <2>5, <3>4 DEF Verdict
  <2>6. CASE c.kind \in {"dprepare", "drun"}
    <3>1. CASE c.kind = "dprepare"
      <4>1. d.draft_prepare_seq >= q.op_seq
        BY <2>1, <3>1 DEF SeqField
      <4>2. SequenceVerdict(d.draft_prepare_seq, q.op_seq, ValidatePrepare(rows[s], c.worker, c.batch, q, FALSE))
              \in {"ready", "refuse"}
        BY <2>4, <4>1 DEF SequenceVerdict
      <4> QED
        BY <3>1, <4>2 DEF Verdict
    <3>2. CASE c.kind = "drun"
      <4>1. d.draft_issue_seq >= q.op_seq
        BY <2>1, <3>2 DEF SeqField
      <4>2. SequenceVerdict(d.draft_issue_seq, q.op_seq, ValidateRunDispatch(rows[s], c.worker, c.batch, q))
              \in {"ready", "refuse"}
        BY <2>4, <4>1 DEF SequenceVerdict
      <4> QED
        BY <3>2, <4>2 DEF Verdict
    <3> QED
      BY <2>6, <3>1, <3>2
  <2>7. CASE c.kind \in {"legacy", "delta"}
    <3>1. d.draft_issue_seq >= q.op_seq
      BY <2>1, <2>7 DEF SeqField
    <3> QED
      BY <2>4, <2>7, <3>1 DEF Verdict, SequenceVerdict
  <2>8. CASE c.kind = "tprepare"
    <3>1. d.target_prepare_seq >= q.op_seq
      BY <2>1, <2>8 DEF SeqField
    <3> QED
      BY <2>4, <2>8, <3>1 DEF Verdict, SequenceVerdict
  <2>9. CASE c.kind \in {"prefill", "trun"}
    <3>1. d.target_run_seq >= q.op_seq
      BY <2>1, <2>9 DEF SeqField
    <3> QED
      BY <2>4, <2>9, <3>1 DEF Verdict, SequenceVerdict
  <2> QED
    BY <1>2, <2>5, <2>6, <2>7, <2>8, <2>9 DEF CommandShape, Kinds
<1> QED
  BY <1>1, <1>2

\* The commands of a ring and a hand, behind a wake-up that took c.
LEMMA ConsumeStep ==
    ASSUME DispatchInv, NEW w \in Workers, Consume(w)
    PROVE  DispatchInv'
<1> DEFINE c0 == IF got[w] # None THEN got[w] ELSE Head(ring[w])
<1>0. PICK c : c = c0
  OBVIOUS
<1>1. UNCHANGED <<rows, clock, sending, pend, snaps>>
  BY DEF Consume
<1>2. PICK C : ring[w] \in Seq(C)
  BY DEF DispatchInv, PlaneShape
<1>3. /\ ring' = IF got[w] # None THEN ring ELSE [ring EXCEPT ![w] = Tail(@)]
      /\ got' = [got EXCEPT ![w] = IF FactsVisible(c) \/ Overtaken(c) THEN None ELSE c]
      /\ awake' = [awake EXCEPT ![w] = (FactsVisible(c) \/ Overtaken(c)) /\ ring'[w] # << >>]
      /\ jobs' = IF FactsVisible(c) /\ ApplyOK(cache[w], c) THEN jobs \cup JobsOf(c) ELSE jobs
      /\ got[w] = None => ring[w] # <<>>
  BY <1>0 DEF Consume
<1>4. c \in InFlight(w)
  BY <1>0, <1>2, <1>3, TailElements DEF InFlight, Elements
<1>5. /\ CommandShape(c) /\ c.worker = w
      /\ c.kind # "remove" => \A s \in DOMAIN c.rows : Shown(c, s) \/ Left(c, s)
  BY <1>4 DEF DispatchInv, CommandsShown
<1>6. /\ DOMAIN ring' = Workers /\ DOMAIN got' = Workers /\ DOMAIN awake' = Workers
      /\ \A v \in Workers : \E D : ring'[v] \in Seq(D)
      /\ \A v \in Workers : InFlight(v)' \subseteq InFlight(v)
      /\ \A v \in Workers \ {w} : ring'[v] = ring[v] /\ got'[v] = got[v] /\ (awake'[v] = awake[v])
  <2>0. DOMAIN ring = Workers /\ DOMAIN got = Workers /\ DOMAIN awake = Workers
    BY DEF DispatchInv, PlaneShape
  <2>1. DOMAIN ring' = Workers /\ DOMAIN got' = Workers /\ DOMAIN awake' = Workers
    BY <1>3, <2>0
  <2>2. \A v \in Workers \ {w} : ring'[v] = ring[v] /\ got'[v] = got[v]
    BY <1>3, <2>0
  <2>3. \A v \in Workers \ {w} : (awake'[v] = awake[v])
    BY <1>3, <2>0
  <2>4. /\ ring'[w] \in Seq(C) /\ Elements(ring'[w]) \subseteq Elements(ring[w])
    <3>1. ring'[w] = ring[w] \/ (ring[w] # <<>> /\ ring'[w] = Tail(ring[w]))
      BY <1>3, <2>0
    <3> QED
      BY <1>2, <3>1, TailElements
  <2>5. got'[w] \in {None, c}
    BY <1>3, <2>0
  <2>6. InFlight(w)' \subseteq InFlight(w)
    BY <1>4, <2>4, <2>5 DEF InFlight, Elements
  <2>7. \A v \in Workers : InFlight(v)' \subseteq InFlight(v)
    BY <2>2, <2>6 DEF InFlight
  <2>8. \A v \in Workers : \E D : ring'[v] \in Seq(D)
    BY <2>2, <2>4 DEF DispatchInv, PlaneShape
  <2> QED
    BY <2>1, <2>2, <2>3, <2>7, <2>8
<1>7. ASSUME NEW j \in jobs' PROVE JobShape(j)
  <2>1. CASE j \in jobs
    BY <2>1 DEF DispatchInv, PlaneShape
  <2>2. CASE j \notin jobs
    <3>1. c.kind # "remove"
          /\ j = [worker |-> c.worker, kind |-> c.kind, batch |-> c.batch, rows |-> c.rows,
                  phase |-> 1, left |-> DOMAIN c.rows, held |-> None]
      BY <1>3, <2>2 DEF JobsOf
    <3>2. c.kind \in Kinds \ {"remove"}
      BY <1>5, <3>1 DEF CommandShape
    <3> QED
      BY <3>1, <3>2, PhasesNumbered DEF JobShape
  <2> QED
    BY <2>1, <2>2
<1>8. PlaneShape'
  BY <1>1, <1>6, <1>7 DEF DispatchInv, PlaneShape, JobShape
<1>9. FactsKept
  BY <1>1, <1>6, RowsStill DEF FactsKept
<1>10. RowsShape' /\ SendingShape' /\ PendShape' /\ CommandsShown' /\ DispatchOfOneLifetime'
  BY <1>9, FactsKeptStep
<1>11. NoStrandedCommand'
  <2> SUFFICES ASSUME NEW v \in Workers, ring'[v] # <<>> \/ got'[v] # None,
                      sending # None => sending.cmd.worker # v
               PROVE  awake'[v]
    BY <1>1 DEF NoStrandedCommand
  <2>1. CASE v # w
    BY <1>6, <2>1 DEF DispatchInv, NoStrandedCommand
  <2>2. CASE v = w
    <3>1. \A s \in DOMAIN c.rows : ~ Left(c, s)
      BY <1>5, <2>2 DEF Left
    <3>2. \A s \in DOMAIN c.rows : Verdict(c, s) \in {"ready", "refuse"}
      BY <1>5, <3>1, ShownIsNotAwaited
    <3>3. FactsVisible(c) \/ Overtaken(c)
      BY <3>2 DEF FactsVisible, Overtaken
    <3>4. got'[v] = None
      BY <1>3, <2>2, <3>3 DEF DispatchInv, PlaneShape
    <3>5. ring'[v] # <<>>
      BY <3>4
    <3> QED
      BY <1>3, <2>2, <3>3, <3>5 DEF DispatchInv, PlaneShape
  <2> QED
    BY <2>1, <2>2
<1> QED
  BY <1>8, <1>10, <1>11 DEF DispatchInv

\* The facts are all there: the worker is woken if there is something to take.
LEMMA SentStep ==
    ASSUME DispatchInv, Sent
    PROVE  DispatchInv'
<1>1. /\ UNCHANGED <<rows, clock, ring, got, jobs, snaps>>
      /\ sending # None /\ sending.left = {} /\ sending' = None
      /\ awake' = [awake EXCEPT ![sending.cmd.worker] =
                     got[sending.cmd.worker] # None \/ ring[sending.cmd.worker] # << >>]
  BY DEF Sent
<1>2. RowsShape' /\ SendingShape' /\ DispatchOfOneLifetime'
  BY <1>1 DEF DispatchInv, RowsShape, SendingShape, DispatchOfOneLifetime
<1>3. PlaneShape'
  <2>1. DOMAIN pend' = DOMAIN pend
    BY DEF Sent
  <2> QED
    BY <1>1, <2>1 DEF DispatchInv, PlaneShape, JobShape
<1>4. PendShape'
  <2>1. DOMAIN sending.cmd.rows \subseteq Slots
    BY <1>1 DEF DispatchInv, SendingShape, CommandShape
  <2> SUFFICES ASSUME NEW w \in Workers, pend'[w] # None PROVE DOMAIN pend'[w].rows \subseteq Slots
    BY DEF PendShape
  <2>2. pend'[w] = sending.cmd \/ pend'[w] = None \/ pend'[w] = pend[w]
    BY DEF Sent, DispatchInv, PlaneShape
  <2> QED
    BY <2>1, <2>2 DEF DispatchInv, PendShape
<1>5. CommandsShown'
  <2> SUFFICES ASSUME NEW w \in Workers, NEW c \in InFlight(w)
               PROVE  /\ CommandShape(c)' /\ c.worker = w
                      /\ c.kind # "remove" => \A s \in DOMAIN c.rows : Shown(c, s)' \/ Left(c, s)'
    BY <1>1 DEF CommandsShown, InFlight
  <2>1. /\ CommandShape(c) /\ c.worker = w
        /\ c.kind # "remove" => \A s \in DOMAIN c.rows : Shown(c, s) \/ Left(c, s)
    BY DEF DispatchInv, CommandsShown
  <2>2. \A s : ~ Left(c, s)
    BY <1>1 DEF Left
  <2> QED
    BY <1>1, <2>1, <2>2 DEF CommandShape, Epoch, Shown
<1>6. NoStrandedCommand'
  <2> SUFFICES ASSUME NEW w \in Workers, ring[w] # <<>> \/ got[w] # None PROVE awake'[w]
    BY <1>1 DEF NoStrandedCommand
  <2>1. CASE w = sending.cmd.worker
    BY <1>1, <2>1 DEF DispatchInv, PlaneShape
  <2>2. CASE w # sending.cmd.worker
    <3>1. awake[w]
      BY <2>2 DEF DispatchInv, NoStrandedCommand
    <3> QED
      BY <1>1, <2>2, <3>1 DEF DispatchInv, PlaneShape
  <2> QED
    BY <2>1, <2>2
<1> QED
  BY <1>2, <1>3, <1>4, <1>5, <1>6 DEF DispatchInv

-----------------------------------------------------------------------------
\* Fields that are numbers over a block that has its shape.
LEMMA OverShape ==
    ASSUME NEW d, BlockShape(d), NEW v,
           \A f \in (SeqFields \cup {"request_epoch"}) \cap DOMAIN v : v[f] \in Nat
    PROVE  /\ BlockShape(Over(v, d))
           /\ \A f \in DOMAIN v : Over(v, d)[f] = v[f]
           /\ \A f \in DOMAIN d \ DOMAIN v : Over(v, d)[f] = d[f]
<1>1. \A f \in DOMAIN v : Over(v, d)[f] = v[f]
  BY DEF Over
<1>2. \A f \in DOMAIN d \ DOMAIN v : Over(v, d)[f] = d[f]
  BY DEF Over
<1>3. DOMAIN Over(v, d) = DOMAIN v \cup DOMAIN d
  BY DEF Over
<1>4. BlockShape(Over(v, d))
  BY <1>1, <1>2, <1>3 DEF BlockShape
<1> QED
  BY <1>1, <1>2, <1>4

\* What a publication of the fields v leaves in the dispatch partition.
Published(r, n, v) ==
    /\ RowShape(n) /\ n.engine = r.engine
    /\ \A f \in DOMAIN v : n.dispatch[f] = v[f]
    /\ r.dispatch.request_epoch = v.request_epoch =>
         \A f \in SeqFields \cup {VersionField} : f \notin DOMAIN v => n.dispatch[f] = r.dispatch[f]

\* Publishing a block with an epoch and natural sequences is a plain publication.
LEMMA PublishedPlainly ==
    ASSUME NEW r, RowShape(r), NEW v, "request_epoch" \in DOMAIN v,
           \A f \in (SeqFields \cup {"request_epoch"}) \cap DOMAIN v : v[f] \in Nat
    PROVE  /\ Published(r, Publish(r, "dispatch", v), v)
           /\ VersionField \notin DOMAIN v =>
                Publish(r, "dispatch", v).dispatch[VersionField] = r.dispatch[VersionField]
<1>1. BlockShape(r.dispatch)
  BY DEF RowShape
<1>2. /\ Publish(r, "dispatch", v).dispatch = Over(v, r.dispatch)
      /\ Publish(r, "dispatch", v).engine = r.engine
      /\ DOMAIN Publish(r, "dispatch", v) = DOMAIN r
  BY DEF Publish, RowShape
<1>3. /\ BlockShape(Over(v, r.dispatch))
      /\ \A f \in DOMAIN v : Over(v, r.dispatch)[f] = v[f]
      /\ \A f \in DOMAIN r.dispatch \ DOMAIN v : Over(v, r.dispatch)[f] = r.dispatch[f]
  BY <1>1, OverShape
<1>4. SeqFields \cup {VersionField} \subseteq DOMAIN r.dispatch
  BY <1>1 DEF BlockShape
<1> QED
  BY <1>2, <1>3, <1>4 DEF Published, RowShape

\* The first publication of a lifetime clears what it does not set.
LEMMA PublishedForEpoch ==
    ASSUME NEW r, RowShape(r), NEW v, "request_epoch" \in DOMAIN v,
           \A f \in (SeqFields \cup {"request_epoch"}) \cap DOMAIN v : v[f] \in Nat
    PROVE  /\ Published(r, PublishDispatch(r, v), v)
           /\ \/ VersionField \in DOMAIN v
              \/ r.dispatch.request_epoch = v.request_epoch
              \/ PublishDispatch(r, v).dispatch[VersionField] = 0
<1>1. CASE r.dispatch.request_epoch = v.request_epoch
  <2>1. PublishDispatch(r, v) = Publish(r, "dispatch", v)
    BY <1>1 DEF PublishDispatch, ResetDispatchFieldsForEpoch
  <2> QED
    BY <1>1, <2>1, PublishedPlainly
<1>2. CASE r.dispatch.request_epoch # v.request_epoch
  <2> DEFINE e == EmptyRow.dispatch
             u == Over(v, e)
  <2>1. PublishDispatch(r, v) = Publish(r, "dispatch", u)
    BY <1>2 DEF PublishDispatch, ResetDispatchFieldsForEpoch
  <2>2. BlockShape(e) /\ e[VersionField] = 0
    BY FreshRows DEF RowShape, VersionField
  <2> HIDE DEF e
  <2>3. /\ BlockShape(u)
        /\ \A f \in DOMAIN v : u[f] = v[f]
        /\ \A f \in DOMAIN e \ DOMAIN v : u[f] = e[f]
    BY <2>2, OverShape
  <2>4. DOMAIN v \subseteq DOMAIN u /\ VersionField \in DOMAIN u /\ VersionField \in DOMAIN e
    BY <2>2, <2>3 DEF Over, BlockShape
  <2> HIDE DEF u
  <2>5. Published(r, Publish(r, "dispatch", u), u)
    BY <2>3, <2>4, PublishedPlainly DEF BlockShape
  <2>6. \A f \in DOMAIN v : Publish(r, "dispatch", u).dispatch[f] = v[f]
    BY <2>3, <2>4, <2>5 DEF Published
  <2>7. VersionField \notin DOMAIN v => Publish(r, "dispatch", u).dispatch[VersionField] = 0
    BY <2>2, <2>3, <2>4, <2>5 DEF Published
  <2> QED
    BY <1>2, <2>1, <2>5, <2>6, <2>7 DEF Published
<1> QED
  BY <1>1, <1>2

\* The fact of a command shows its operation; of the rest of the partition it
\* keeps the operations of the same lifetime, and of the snapshot version what
\* belongs to that lifetime, or to the source it prepares.
FactShows(r, n, c, q) ==
    /\ RowShape(n) /\ n.engine = r.engine
    /\ n.dispatch.request_epoch = q.request_epoch
    /\ n.dispatch[SeqField(c.kind)] = q.op_seq
    /\ r.dispatch.request_epoch = q.request_epoch =>
         \A f \in SeqFields \ {SeqField(c.kind)} : n.dispatch[f] = r.dispatch[f]
    /\ \/ n.dispatch[VersionField] = 0
       \/ c.kind = "dprepare" /\ n.dispatch[VersionField] = q.source.snapshot_version
       \/ /\ c.kind = "drun" \/ r.dispatch.request_epoch = q.request_epoch
          /\ n.dispatch[VersionField] = r.dispatch[VersionField]

\* The first fact of a command makes the row show the command.
LEMMA FactRows ==
    ASSUME NEW c, NEW s, RowShape(rows[s]), c.kind \in Kinds \ {"remove"},
           c.rows[s].op_seq \in Nat, c.rows[s].request_epoch \in Nat
    PROVE  FactShows(rows[s], FactRow(c, s), c, c.rows[s])
<1> DEFINE r == rows[s]
           q == c.rows[s]
           n == FactRow(c, s)
<1>1. CASE c.kind \in {"initial", "legacy", "delta"}
  <2> DEFINE base == [request_epoch |-> q.request_epoch, draft_issue_seq |-> q.op_seq,
                      draft_round_id |-> q.round_id, draft_worker_id |-> c.worker]
             more == IF c.batch = 0 THEN << >>
                     ELSE [draft_owner_epoch |-> 0, draft_source_snapshot_version |-> 0,
                           draft_run_batch |-> c.batch]
             v == Over(base, more)
  <2>1. n = PublishDispatch(r, v)
    BY <1>1 DEF FactRow, PublishDraftCommandSent
  <2>2. /\ {"request_epoch", "draft_issue_seq"} \subseteq DOMAIN v
        /\ SeqFields \cap DOMAIN v = {"draft_issue_seq"}
        /\ v.request_epoch = q.request_epoch /\ v.draft_issue_seq = q.op_seq
        /\ VersionField \in DOMAIN v => v[VersionField] = 0
    <3>1. CASE c.batch = 0
      <4>1. more = <<>> /\ DOMAIN more = {}
        BY <3>1
      <4>2. DOMAIN base = {"request_epoch", "draft_issue_seq", "draft_round_id", "draft_worker_id"}
        OBVIOUS
      <4>3. base.request_epoch = q.request_epoch /\ base.draft_issue_seq = q.op_seq
        OBVIOUS
      <4> HIDE DEF base, more
      <4> QED
        BY <4>1, <4>2, <4>3 DEF Over, SeqFields, VersionField
    <3>2. CASE c.batch # 0
      <4>1. more = [draft_owner_epoch |-> 0, draft_source_snapshot_version |-> 0,
                    draft_run_batch |-> c.batch]
        BY <3>2
      <4>2. /\ DOMAIN base = {"request_epoch", "draft_issue_seq", "draft_round_id", "draft_worker_id"}
            /\ DOMAIN more = {"draft_owner_epoch", "draft_source_snapshot_version", "draft_run_batch"}
            /\ more.draft_source_snapshot_version = 0
        BY <4>1
      <4>3. base.request_epoch = q.request_epoch /\ base.draft_issue_seq = q.op_seq
        OBVIOUS
      <4> HIDE DEF base, more
      <4> QED
        BY <4>2, <4>3 DEF Over, SeqFields, VersionField
    <3> QED
      BY <3>1, <3>2
  <2> HIDE DEF v
  <2>3. \A f \in (SeqFields \cup {"request_epoch"}) \cap DOMAIN v : v[f] \in Nat
    BY <2>2
  <2>4. /\ Published(r, n, v)
        /\ \/ VersionField \in DOMAIN v
           \/ r.dispatch.request_epoch = v.request_epoch
           \/ n.dispatch[VersionField] = 0
    BY <2>1, <2>2, <2>3, PublishedForEpoch
  <2>5. SeqField(c.kind) = "draft_issue_seq"
    BY <1>1 DEF SeqField
  <2> QED
    BY <2>2, <2>4, <2>5 DEF FactShows, Published
<1>2. CASE c.kind \in {"prefill", "trun"}
  <2> DEFINE v == [request_epoch |-> q.request_epoch, target_run_seq |-> q.op_seq,
                   target_round_id |-> q.round_id, planned_target_id |-> c.worker,
                   planned_bank |-> c.batch]
  <2>1. n = PublishDispatch(r, v)
    BY <1>2 DEF FactRow, PublishRunCommandSent
  <2>2. /\ {"request_epoch", "target_run_seq"} \subseteq DOMAIN v
        /\ SeqFields \cap DOMAIN v = {"target_run_seq"} /\ VersionField \notin DOMAIN v
        /\ v.request_epoch = q.request_epoch /\ v.target_run_seq = q.op_seq
    BY DEF SeqFields, VersionField
  <2> HIDE DEF v
  <2>3. \A f \in (SeqFields \cup {"request_epoch"}) \cap DOMAIN v : v[f] \in Nat
    BY <2>2
  <2>4. /\ Published(r, n, v)
        /\ \/ VersionField \in DOMAIN v
           \/ r.dispatch.request_epoch = v.request_epoch
           \/ n.dispatch[VersionField] = 0
    BY <2>1, <2>2, <2>3, PublishedForEpoch
  <2>5. SeqField(c.kind) = "target_run_seq"
    BY <1>2 DEF SeqField
  <2> QED
    BY <2>2, <2>4, <2>5 DEF FactShows, Published
<1>3. CASE c.kind = "tprepare"
  <2> DEFINE v == [request_epoch |-> q.request_epoch, target_prepare_seq |-> q.op_seq,
                   planned_target_id |-> c.worker, planned_bank |-> c.batch]
  <2>1. n = PublishDispatch(r, v)
    BY <1>3 DEF FactRow, PublishPrepareCommandSent
  <2>2. /\ {"request_epoch", "target_prepare_seq"} \subseteq DOMAIN v
        /\ SeqFields \cap DOMAIN v = {"target_prepare_seq"} /\ VersionField \notin DOMAIN v
        /\ v.request_epoch = q.request_epoch /\ v.target_prepare_seq = q.op_seq
    BY DEF SeqFields, VersionField
  <2> HIDE DEF v
  <2>3. \A f \in (SeqFields \cup {"request_epoch"}) \cap DOMAIN v : v[f] \in Nat
    BY <2>2
  <2>4. /\ Published(r, n, v)
        /\ \/ VersionField \in DOMAIN v
           \/ r.dispatch.request_epoch = v.request_epoch
           \/ n.dispatch[VersionField] = 0
    BY <2>1, <2>2, <2>3, PublishedForEpoch
  <2>5. SeqField(c.kind) = "target_prepare_seq"
    BY <1>3 DEF SeqField
  <2> QED
    BY <2>2, <2>4, <2>5 DEF FactShows, Published
<1>4. CASE c.kind = "dprepare"
  <2> DEFINE v == PrepareValues(c.worker, c.batch, q)
  <2>1. n = Publish(r, "dispatch", v)
    BY <1>4 DEF FactRow
  <2>2. /\ {"request_epoch", "draft_prepare_seq", VersionField} \subseteq DOMAIN v
        /\ SeqFields \cap DOMAIN v = {"draft_prepare_seq"}
        /\ v.request_epoch = q.request_epoch /\ v.draft_prepare_seq = q.op_seq
        /\ v[VersionField] = q.source.snapshot_version
    BY DEF SeqFields, VersionField, PrepareValues
  <2> HIDE DEF v
  <2>3. \A f \in (SeqFields \cup {"request_epoch"}) \cap DOMAIN v : v[f] \in Nat
    BY <2>2
  <2>4. Published(r, n, v)
    BY <2>1, <2>2, <2>3, PublishedPlainly
  <2>5. SeqField(c.kind) = "draft_prepare_seq"
    BY <1>4 DEF SeqField
  <2> QED
    BY <1>4, <2>2, <2>4, <2>5 DEF FactShows, Published
<1>5. CASE c.kind = "drun"
  <2> DEFINE v == [request_epoch |-> q.request_epoch, draft_issue_seq |-> q.op_seq,
                   draft_round_id |-> q.round_id, draft_worker_id |-> c.worker,
                   draft_owner_epoch |-> q.owner_epoch, draft_run_batch |-> c.batch]
  <2>1. n = Publish(r, "dispatch", v)
    BY <1>5 DEF FactRow
  <2>2. /\ {"request_epoch", "draft_issue_seq"} \subseteq DOMAIN v
        /\ SeqFields \cap DOMAIN v = {"draft_issue_seq"} /\ VersionField \notin DOMAIN v
        /\ v.request_epoch = q.request_epoch /\ v.draft_issue_seq = q.op_seq
    BY DEF SeqFields, VersionField
  <2> HIDE DEF v
  <2>3. \A f \in (SeqFields \cup {"request_epoch"}) \cap DOMAIN v : v[f] \in Nat
    BY <2>2
  <2>4. Published(r, n, v) /\ n.dispatch[VersionField] = r.dispatch[VersionField]
    BY <2>1, <2>2, <2>3, PublishedPlainly
  <2>5. SeqField(c.kind) = "draft_issue_seq"
    BY <1>5 DEF SeqField
  <2> QED
    BY <1>5, <2>2, <2>4, <2>5 DEF FactShows, Published
<1> QED
  BY <1>1, <1>2, <1>3, <1>4, <1>5 DEF Kinds

-----------------------------------------------------------------------------
\* A fact is published: its member is shown, and what others showed stays shown.
LEMMA FactStep ==
    ASSUME NoneIsNoRecord, DispatchInv, NEW s0 \in Slots, PublishDispatchFact(s0)
    PROVE  DispatchInv'
<1>0. PICK c : c = sending.cmd
  OBVIOUS
<1>1. /\ UNCHANGED <<clock, pend, ring, awake, got, jobs, snaps>>
      /\ sending # None /\ s0 \in sending.left
      /\ rows' = [rows EXCEPT ![s0] = FactRow(c, s0)]
      /\ sending' = [sending EXCEPT !.left = @ \ {s0}]
  BY <1>0 DEF PublishDispatchFact
<1>2. /\ sending = [cmd |-> c, left |-> sending.left]
      /\ CommandShape(c)
      /\ sending.left \subseteq DOMAIN c.rows
      /\ c.kind # "remove"
      /\ \A s \in sending.left : c.rows[s].op_seq = clock
      /\ c.kind = "dprepare" => \A s \in DOMAIN c.rows :
           /\ c.rows[s].source \in snaps[s]
           /\ c.rows[s].source.request_epoch = c.rows[s].request_epoch
      /\ c.kind = "drun" => \A s \in sending.left :
           rows[s].dispatch.request_epoch = c.rows[s].request_epoch
  BY <1>0, <1>1 DEF DispatchInv, SendingShape
<1> DEFINE q == c.rows[s0]
<1>3. /\ s0 \in DOMAIN c.rows /\ q.op_seq = clock /\ q.op_seq \in Nat /\ clock \in Nat
      /\ q.request_epoch = Epoch(s0) /\ Epoch(s0) \in Nat
      /\ RowShape(rows[s0]) /\ c.kind \in Kinds \ {"remove"}
  BY <1>1, <1>2 DEF CommandShape, DispatchInv, PlaneShape, RowsShape, RowShape, Epoch
<1>4. DOMAIN rows' = Slots /\ rows'[s0] = FactRow(c, s0) /\ \A x \in Slots \ {s0} : rows'[x] = rows[x]
  BY <1>1 DEF DispatchInv, RowsShape
<1>5. FactShows(rows[s0], rows'[s0], c, q)
  BY <1>3, <1>4, FactRows
<1>6. sending' = [cmd |-> c, left |-> sending.left \ {s0}]
  BY <1>1, <1>2
<1>7. sending' # None /\ sending'.cmd = c /\ sending'.left = sending.left \ {s0}
  BY <1>6 DEF NoneIsNoRecord
<1>8. RowsShape' /\ \A s \in Slots : Epoch(s)' = Epoch(s)
  BY <1>4, <1>5 DEF DispatchInv, RowsShape, FactShows, Epoch
<1>9. ASSUME NEW d, CommandShape(d) PROVE CommandShape(d)'
  BY <1>1, <1>8, <1>9 DEF CommandShape
<1>10. PlaneShape' /\ PendShape'
  BY <1>1 DEF DispatchInv, PlaneShape, JobShape, PendShape
<1>11. SendingShape'
  <2>1. CommandShape(c)'
    BY <1>2, <1>9
  <2>2. \A s \in sending.left \ {s0} : rows'[s] = rows[s]
    BY <1>2, <1>4 DEF CommandShape
  <2>3. c.kind = "drun" => \A s \in sending.left \ {s0} :
          rows'[s].dispatch.request_epoch = c.rows[s].request_epoch
    BY <1>2, <2>2
  <2> QED
    BY <1>1, <1>2, <1>6, <1>7, <2>1, <2>3 DEF SendingShape
<1>12. CommandsShown'
  <2> SUFFICES ASSUME NEW w \in Workers, NEW d \in InFlight(w)
               PROVE  /\ CommandShape(d)' /\ d.worker = w
                      /\ d.kind # "remove" => \A s \in DOMAIN d.rows : Shown(d, s)' \/ Left(d, s)'
    BY <1>1 DEF CommandsShown, InFlight
  <2>1. /\ CommandShape(d) /\ d.worker = w
        /\ d.kind # "remove" => \A s \in DOMAIN d.rows : Shown(d, s) \/ Left(d, s)
    BY DEF DispatchInv, CommandsShown
  <2> SUFFICES ASSUME d.kind # "remove", NEW s \in DOMAIN d.rows
               PROVE  Shown(d, s)' \/ Left(d, s)'
    BY <1>9, <2>1
  <2>2. CASE s # s0
    <3>1. rows'[s] = rows[s]
      BY <1>4, <2>1, <2>2 DEF CommandShape
    <3>2. Shown(d, s) => Shown(d, s)'
      BY <3>1 DEF Shown
    <3>3. Left(d, s) => Left(d, s)'
      BY <1>0, <1>7, <2>2 DEF Left
    <3> QED
      BY <2>1, <3>2, <3>3
  <2>3. CASE s = s0 /\ d = c
    <3>1. rows'[s].dispatch.request_epoch = q.request_epoch
          /\ rows'[s].dispatch[SeqField(d.kind)] = q.op_seq
      BY <1>5, <2>3 DEF FactShows
    <3> QED
      BY <1>3, <2>3, <3>1 DEF Shown
  <2>4. CASE s = s0 /\ d # c
    <3>1. Shown(d, s)
      BY <1>0, <2>1, <2>4 DEF Left
    <3>2. /\ rows[s0].dispatch.request_epoch = d.rows[s0].request_epoch
          /\ rows[s0].dispatch[SeqField(d.kind)] >= d.rows[s0].op_seq
          /\ d.rows[s0].request_epoch = Epoch(s0) /\ d.rows[s0].op_seq \in 1 .. clock
      BY <2>1, <2>4, <3>1 DEF Shown, CommandShape
    <3>3. /\ rows'[s0].dispatch.request_epoch = q.request_epoch
          /\ rows'[s0].dispatch[SeqField(c.kind)] = clock
          /\ \A f \in SeqFields \ {SeqField(c.kind)} : rows'[s0].dispatch[f] = rows[s0].dispatch[f]
      BY <1>3, <1>5, <3>2 DEF FactShows
    <3>4. SeqField(d.kind) \in SeqFields
      BY <2>1 DEF SeqField, SeqFields
    <3>5. rows'[s0].dispatch[SeqField(d.kind)] >= d.rows[s0].op_seq
      <4>1. CASE SeqField(d.kind) = SeqField(c.kind)
        BY <1>3, <3>2, <3>3, <4>1
      <4>2. CASE SeqField(d.kind) # SeqField(c.kind)
        BY <3>2, <3>3, <3>4, <4>2
      <4> QED
        BY <4>1, <4>2
    <3> QED
      BY <1>3, <2>4, <3>2, <3>3, <3>5 DEF Shown
  <2> QED
    BY <2>2, <2>3, <2>4
<1>13. NoStrandedCommand'
  BY <1>0, <1>1, <1>7 DEF DispatchInv, NoStrandedCommand
<1>14. DispatchOfOneLifetime'
  <2> DEFINE d == rows[s0].dispatch
             e == rows'[s0].dispatch
  <2>1. /\ e.request_epoch = q.request_epoch
        /\ \/ e.draft_source_snapshot_version = 0
           \/ c.kind = "dprepare" /\ e.draft_source_snapshot_version = q.source.snapshot_version
           \/ /\ d.request_epoch = q.request_epoch
              /\ e.draft_source_snapshot_version = d.draft_source_snapshot_version
    BY <1>1, <1>2, <1>5 DEF FactShows, VersionField
  <2>2. e.draft_source_snapshot_version # 0 =>
          \E id \in snaps[s0] : /\ id.request_epoch = e.request_epoch
                                /\ id.snapshot_version = e.draft_source_snapshot_version
    <3>1. CASE c.kind = "dprepare" /\ e.draft_source_snapshot_version = q.source.snapshot_version
      BY <1>2, <1>3, <2>1, <3>1
    <3>2. CASE d.request_epoch = q.request_epoch
               /\ e.draft_source_snapshot_version = d.draft_source_snapshot_version
      BY <2>1, <3>2 DEF DispatchInv, DispatchOfOneLifetime
    <3> QED
      BY <2>1, <3>1, <3>2
  <2> HIDE DEF e
  <2>3. \A s \in Slots : s = s0 \/ rows'[s] = rows[s]
    BY <1>4
  <2> USE DEF e
  <2> QED
    BY <1>1, <2>2, <2>3 DEF DispatchInv, DispatchOfOneLifetime
<1> QED
  BY <1>8, <1>10, <1>11, <1>12, <1>13, <1>14 DEF DispatchInv

-----------------------------------------------------------------------------
\* What the scheduler's commands have in common.
NewCommand(c) ==
    /\ c # None /\ c.kind \in Kinds /\ c.worker \in Workers /\ DOMAIN c.rows \subseteq Slots
    /\ c.kind # "remove" => \A s \in DOMAIN c.rows :
         c.rows[s].op_seq = clock + 1 /\ c.rows[s].request_epoch = Epoch(s)
    /\ c.kind = "dprepare" => \A s \in DOMAIN c.rows :
         /\ c.rows[s].source \in snaps[s]
         /\ c.rows[s].source.request_epoch = c.rows[s].request_epoch
    /\ c.kind = "drun" => \A s \in DOMAIN c.rows :
         rows[s].dispatch.request_epoch = c.rows[s].request_epoch

\* The command enters the ring of its worker before any of its facts is shown.
LEMMA DispatchStep ==
    ASSUME NoneIsNoRecord, DispatchInv, NEW c, NewCommand(c), sending = None, Dispatch(c)
    PROVE  DispatchInv'
<1> DEFINE left == IF c.kind = "remove" THEN {} ELSE DOMAIN c.rows
<1>1. /\ UNCHANGED <<rows, pend, got, jobs, snaps>>
      /\ ring' = [ring EXCEPT ![c.worker] = Append(@, c)]
      /\ awake' = [awake EXCEPT ![c.worker] = TRUE]
      /\ sending' = [cmd |-> c, left |-> left]
      /\ clock' = clock + 1
  BY DEF Dispatch
<1>2. sending' # None /\ sending'.cmd = c /\ sending'.left = left
  BY <1>1 DEF NoneIsNoRecord
<1>3. clock \in Nat /\ clock + 1 \in Nat
  BY DEF DispatchInv, PlaneShape
<1>4. ASSUME NEW d, CommandShape(d) PROVE CommandShape(d)'
  <2>1. \A n \in 1 .. clock : n \in 1 .. clock + 1
    BY <1>3
  <2> QED
    BY <1>1, <1>4, <2>1 DEF CommandShape, Epoch
<1>5. CommandShape(c)'
  <2>1. clock + 1 \in 1 .. clock + 1
    BY <1>3
  <2> QED
    BY <1>1, <2>1 DEF CommandShape, NewCommand, Epoch
<1>6. PICK C : ring[c.worker] \in Seq(C)
  BY DEF DispatchInv, PlaneShape, NewCommand
<1>7. /\ DOMAIN ring' = Workers /\ DOMAIN awake' = Workers
      /\ ring'[c.worker] = Append(ring[c.worker], c)
      /\ \A w \in Workers \ {c.worker} : ring'[w] = ring[w]
  BY <1>1 DEF DispatchInv, PlaneShape, NewCommand
<1>8. \A w \in Workers \ {c.worker} : (awake'[w] = awake[w])
  BY <1>1 DEF DispatchInv, PlaneShape
<1>9. ring'[c.worker] \in Seq(C \cup {c}) /\ Elements(ring'[c.worker]) = Elements(ring[c.worker]) \cup {c}
  <2>1. /\ Append(ring[c.worker], c) \in Seq(C \cup {c})
        /\ Elements(Append(ring[c.worker], c)) = Elements(ring[c.worker]) \cup {c}
    BY <1>6, AppendElements
  <2> QED
    BY <1>7, <2>1
<1>10. PlaneShape'
  <2>1. \A w \in Workers : \E D : ring'[w] \in Seq(D)
    BY <1>7, <1>9 DEF DispatchInv, PlaneShape
  <2> QED
    BY <1>1, <1>3, <1>7, <2>1 DEF DispatchInv, PlaneShape, JobShape
<1>11. RowsShape' /\ PendShape' /\ DispatchOfOneLifetime'
  BY <1>1 DEF DispatchInv, RowsShape, PendShape, DispatchOfOneLifetime
<1>12. SendingShape'
  BY <1>1, <1>2, <1>5 DEF SendingShape, NewCommand
<1>13. CommandsShown'
  <2> SUFFICES ASSUME NEW w \in Workers, NEW d \in InFlight(w)'
               PROVE  /\ CommandShape(d)' /\ d.worker = w
                      /\ d.kind # "remove" => \A s \in DOMAIN d.rows : Shown(d, s)' \/ Left(d, s)'
    BY DEF CommandsShown
  <2>1. d \in InFlight(w) \/ (d = c /\ w = c.worker)
    <3>1. got'[w] = got[w]
      BY <1>1
    <3>2. Elements(ring'[w]) = Elements(ring[w]) \/ (w = c.worker /\ Elements(ring'[w]) = Elements(ring[w]) \cup {c})
      BY <1>7, <1>9
    <3> QED
      BY <3>1, <3>2 DEF InFlight, Elements
  <2>2. CASE d \in InFlight(w)
    <3>1. /\ CommandShape(d) /\ d.worker = w
          /\ d.kind # "remove" => \A s \in DOMAIN d.rows : Shown(d, s) \/ Left(d, s)
      BY <2>2 DEF DispatchInv, CommandsShown
    <3>2. \A s \in DOMAIN d.rows : Shown(d, s) => Shown(d, s)'
      BY <1>1 DEF Shown
    <3>3. \A s \in DOMAIN d.rows : ~ Left(d, s)
      BY DEF Left
    <3> QED
      BY <1>4, <3>1, <3>2, <3>3
  <2>3. CASE d = c /\ w = c.worker
    <3>1. c.kind # "remove" => \A s \in DOMAIN c.rows : Left(c, s)'
      BY <1>2 DEF Left
    <3> QED
      BY <1>5, <2>3, <3>1
  <2> QED
    BY <2>1, <2>2, <2>3
<1>14. NoStrandedCommand'
  <2> SUFFICES ASSUME NEW w \in Workers, ring'[w] # <<>> \/ got'[w] # None,
                      sending' # None => sending'.cmd.worker # w
               PROVE  awake'[w]
    BY DEF NoStrandedCommand
  <2>1. w # c.worker
    BY <1>2
  <2>2. awake[w]
    BY <1>1, <1>7, <2>1 DEF DispatchInv, NoStrandedCommand
  <2> QED
    BY <1>8, <2>1, <2>2
<1> QED
  BY <1>10, <1>11, <1>12, <1>13, <1>14 DEF DispatchInv

\* A command is as the scheduler made it: its operations are the next one, and a
\* dispatched command is of the current lifetime.
LEMMA MadeCommand ==
    ASSUME NoneIsNoRecord, DispatchInv,
           NEW kind \in Kinds, NEW worker \in Workers, NEW batch, NEW members,
           DOMAIN members \subseteq Slots, Preflight(Command(kind, worker, batch, members)),
           kind # "remove" => \A s \in DOMAIN members : members[s].op_seq = clock + 1,
           kind = "dprepare" => \A s \in DOMAIN members :
             /\ members[s].source \in snaps[s]
             /\ members[s].source.request_epoch = members[s].request_epoch
    PROVE  NewCommand(Command(kind, worker, batch, members))
<1> DEFINE c == Command(kind, worker, batch, members)
<1>1. c.kind = kind /\ c.worker = worker /\ c.batch = batch /\ c.rows = members /\ c # None
  BY DEF Command, NoneIsNoRecord
<1> HIDE DEF c
<1>2. kind # "remove" => \A s \in DOMAIN c.rows : Epoch(s) = c.rows[s].request_epoch
  BY <1>1 DEF Preflight, c
<1>3. kind = "drun" => \A s \in DOMAIN c.rows : rows[s].dispatch.request_epoch = c.rows[s].request_epoch
  <2> SUFFICES ASSUME kind = "drun", NEW s \in DOMAIN c.rows
               PROVE  rows[s].dispatch.request_epoch = c.rows[s].request_epoch
    OBVIOUS
  <2> DEFINE p == pend[c.worker].rows[s]
  <2>1. PreflightRun(c)
    BY <1>1 DEF Preflight, c
  <2>2. p.request_epoch = c.rows[s].request_epoch
    BY <2>1 DEF PreflightRun, ValidatePreparedRun
  <2>3. ValidatePrepare(rows[s], c.worker, c.batch, p, FALSE)
    BY <2>1 DEF PreflightRun
  <2> HIDE DEF p
  <2>4. ValidatePrepareDispatch(rows[s], c.worker, c.batch, p)
    BY <2>3 DEF ValidatePrepare
  <2> DEFINE v == PrepareValues(c.worker, c.batch, p)
             more == [draft_owner_epoch |-> p.source.owner_epoch, draft_worker_id |-> p.source.worker_id]
  <2>5. Expect(rows[s].dispatch, Over(v, more))
    BY <2>4 DEF ValidatePrepareDispatch
  <2>6. "request_epoch" \in DOMAIN v /\ v.request_epoch = p.request_epoch
    BY DEF PrepareValues
  <2> HIDE DEF v, more
  <2>7. "request_epoch" \in DOMAIN Over(v, more) /\ Over(v, more).request_epoch = p.request_epoch
    BY <2>6 DEF Over
  <2>8. rows[s].dispatch["request_epoch"] = Over(v, more)["request_epoch"]
    BY <2>5, <2>7 DEF Expect
  <2> QED
    BY <2>2, <2>7, <2>8
<1>4. NewCommand(c)
  BY <1>1, <1>2, <1>3 DEF NewCommand
<1> QED
  BY <1>4 DEF c

\* The next operation of a request, with the payload of its kind.
LEMMA NextOperation ==
    ASSUME NEW s, NEW round, NEW v, "op_seq" \notin DOMAIN v
    PROVE  Over(v, NextOp(s, round)).op_seq = clock + 1
  BY DEF Over, NextOp

\* The scheduler starts a command, its facts and its members.
LEMMA ScheduleStep ==
    ASSUME NoneIsNoRecord, DispatchInv, Schedule
    PROVE  DispatchInv'
<1>0. \A S \in Batches : S \subseteq Slots
  BY DispatchAssumption
<1>1. ASSUME NEW kind \in Kinds, NEW worker \in Workers, NEW batch, NEW members,
             DOMAIN members \subseteq Slots, sending = None, Dispatch(Command(kind, worker, batch, members)),
             kind # "remove" => \A s \in DOMAIN members : members[s].op_seq = clock + 1,
             kind = "dprepare" => \A s \in DOMAIN members :
               /\ members[s].source \in snaps[s]
               /\ members[s].source.request_epoch = members[s].request_epoch
      PROVE  DispatchInv'
  <2> DEFINE c == Command(kind, worker, batch, members)
  <2>1. Preflight(c)
    BY <1>1 DEF Dispatch
  <2>2. NewCommand(c)
    BY <1>1, <2>1, MadeCommand
  <2> QED
    BY <1>1, <2>2, DispatchStep
<1>2. ASSUME NEW S \in Batches, NEW t \in Targets, SendPrefill(S, t) PROVE DispatchInv'
  <2> DEFINE members == [s \in S |-> PrefillRequest(s)]
  <2>1. sending = None /\ Dispatch(Command("prefill", t, clock + 1, members))
    BY <1>2 DEF SendPrefill
  <2>2. \A s \in S : PrefillRequest(s).op_seq = clock + 1
    BY NextOperation DEF PrefillRequest
  <2>3. DOMAIN members \subseteq Slots /\ \A s \in DOMAIN members : members[s].op_seq = clock + 1
    BY <1>0, <2>2
  <2> HIDE DEF members
  <2> QED
    BY <1>1, <2>1, <2>3 DEF Kinds, Workers
<1>3. ASSUME NEW S \in Batches, NEW t \in Targets, SendTargetPrepare(S, t) PROVE DispatchInv'
  <2> DEFINE members == [s \in S |-> TargetPrepareRequest(s)]
  <2>1. sending = None /\ Dispatch(Command("tprepare", t, clock + 1, members))
    BY <1>3 DEF SendTargetPrepare
  <2>2. \A s \in S : TargetPrepareRequest(s).op_seq = clock + 1
    BY NextOperation DEF TargetPrepareRequest
  <2>3. DOMAIN members \subseteq Slots /\ \A s \in DOMAIN members : members[s].op_seq = clock + 1
    BY <1>0, <2>2
  <2> HIDE DEF members
  <2> QED
    BY <1>1, <2>1, <2>3 DEF Kinds, Workers
<1>4. ASSUME NEW S \in Batches, NEW d \in DraftWorkers, NEW kind \in {"initial", "legacy"}, SendDraft(S, d, kind)
      PROVE  DispatchInv'
  <2> DEFINE members == [s \in S |-> NewRequest(s)]
  <2>1. sending = None /\ Dispatch(Command(kind, d, IF kind = "initial" THEN clock + 1 ELSE 0, members))
    BY <1>4 DEF SendDraft
  <2>2. \A s \in S : NewRequest(s).op_seq = clock + 1
    BY NextOperation DEF NewRequest
  <2>3. DOMAIN members \subseteq Slots /\ \A s \in DOMAIN members : members[s].op_seq = clock + 1
    BY <1>0, <2>2
  <2> HIDE DEF members
  <2> QED
    BY <1>1, <1>4, <2>1, <2>3 DEF Kinds, Workers
<1>5. ASSUME NEW S \in Batches, NEW d \in DraftWorkers, SendDelta(S, d) PROVE DispatchInv'
  <2> DEFINE members == [s \in S |-> RequestDelta(s)]
  <2>1. sending = None /\ Dispatch(Command("delta", d, 0, members))
    BY <1>5 DEF SendDelta
  <2>2. \A s \in S : RequestDelta(s).op_seq = clock + 1
    BY NextOperation DEF RequestDelta
  <2>3. DOMAIN members \subseteq Slots /\ \A s \in DOMAIN members : members[s].op_seq = clock + 1
    BY <1>0, <2>2
  <2> HIDE DEF members
  <2> QED
    BY <1>1, <2>1, <2>3 DEF Kinds, Workers
<1>6. ASSUME NEW S \in Batches, NEW d \in DraftWorkers, SendDraftPrepare(S, d) PROVE DispatchInv'
  <2>1. PICK source \in [S -> UNION {snaps[s] : s \in S}] :
          /\ \A s \in S : source[s] \in snaps[s]
          /\ Dispatch(Command("dprepare", d, clock + 1, [s \in S |-> DraftPrepareRequest(s, source[s])]))
    BY <1>6 DEF SendDraftPrepare
  <2> DEFINE members == [s \in S |-> DraftPrepareRequest(s, source[s])]
  <2>2. sending = None /\ Dispatch(Command("dprepare", d, clock + 1, members))
    BY <1>6, <2>1 DEF SendDraftPrepare
  <2>3. ASSUME NEW s, NEW src
        PROVE  /\ DraftPrepareRequest(s, src).op_seq = clock + 1
               /\ DraftPrepareRequest(s, src).source = src
               /\ DraftPrepareRequest(s, src).request_epoch = src.request_epoch
    BY DEF DraftPrepareRequest, Over, NextOp
  <2>4. /\ DOMAIN members \subseteq Slots
        /\ \A s \in DOMAIN members : /\ members[s].op_seq = clock + 1
                                     /\ members[s].source \in snaps[s]
                                     /\ members[s].source.request_epoch = members[s].request_epoch
    BY <1>0, <2>1, <2>3
  <2> HIDE DEF members
  <2> QED
    BY <1>1, <2>2, <2>4 DEF Kinds, Workers
<1>7. ASSUME NEW s \in Slots, NEW d \in DraftWorkers, SendRemove(s, d) PROVE DispatchInv'
  <2> DEFINE members == [x \in {s} |-> RemovedRequest(x, d)]
  <2>1. sending = None /\ Dispatch(Command("remove", d, 0, members))
    BY <1>7 DEF SendRemove
  <2>2. DOMAIN members \subseteq Slots
    OBVIOUS
  <2> HIDE DEF members
  <2> QED
    BY <1>1, <2>1, <2>2 DEF Kinds, Workers
<1>8. ASSUME NEW t \in Targets, SendTargetRun(t) PROVE DispatchInv'
  <2> DEFINE members == [s \in DOMAIN pend[t].rows |-> RunTargetRequest(t, s)]
  <2>1. sending = None /\ pend[t] # None /\ Dispatch(Command("trun", t, pend[t].batch, members))
    BY <1>8 DEF SendTargetRun
  <2>2. \A s : RunTargetRequest(t, s).op_seq = clock + 1
    BY NextOperation DEF RunTargetRequest
  <2>3. DOMAIN members \subseteq Slots /\ \A s \in DOMAIN members : members[s].op_seq = clock + 1
    BY <2>1, <2>2 DEF DispatchInv, PendShape, Workers
  <2> HIDE DEF members
  <2> QED
    BY <1>1, <2>1, <2>3 DEF Kinds, Workers
<1>9. ASSUME NEW d \in DraftWorkers, SendDraftRun(d) PROVE DispatchInv'
  <2> DEFINE members == [s \in DOMAIN pend[d].rows |-> DraftRunRequest(pend[d].rows[s])]
  <2>1. sending = None /\ pend[d] # None /\ Dispatch(Command("drun", d, pend[d].batch, members))
    BY <1>9 DEF SendDraftRun
  <2>2. \A p : DraftRunRequest(p).op_seq = clock + 1
    BY DEF DraftRunRequest
  <2>3. DOMAIN members \subseteq Slots /\ \A s \in DOMAIN members : members[s].op_seq = clock + 1
    BY <2>1, <2>2 DEF DispatchInv, PendShape, Workers
  <2> HIDE DEF members
  <2> QED
    BY <1>1, <2>1, <2>3 DEF Kinds, Workers
<1> QED
  BY <1>2, <1>3, <1>4, <1>5, <1>6, <1>7, <1>8, <1>9 DEF Schedule

-----------------------------------------------------------------------------
\* Every step of the plane, and a stutter.
LEMMA DispatchSteps ==
    ASSUME NoneIsNoRecord, DispatchInv, [DispatchNext]_dispatchVars
    PROVE  DispatchInv'
<1>1. ASSUME NEW s \in Slots, Admit(s) PROVE DispatchInv'
  BY <1>1, AdmitStep
<1>2. ASSUME NEW s \in Slots, Finish(s) PROVE DispatchInv'
  BY <1>2, FinishStep
<1>3. ASSUME Schedule PROVE DispatchInv'
  BY <1>3, ScheduleStep
<1>4. ASSUME Sent PROVE DispatchInv'
  BY <1>4, SentStep
<1>5. ASSUME NEW s \in Slots, PublishDispatchFact(s) PROVE DispatchInv'
  BY <1>5, FactStep
<1>6. ASSUME NEW w \in Workers, Consume(w) PROVE DispatchInv'
  BY <1>6, ConsumeStep
<1>7. ASSUME NEW j \in jobs, NEW s \in j.left, Validate(j, s) PROVE DispatchInv'
  BY <1>7, ValidateStep
<1>8. ASSUME NEW j \in jobs, PublishHeld(j) PROVE DispatchInv'
  BY <1>8, PublishStep
<1>9. ASSUME NEW j \in jobs, SkipProgress(j) PROVE DispatchInv'
  BY <1>9, SkipStep
<1>10. CASE UNCHANGED dispatchVars
  <2>1. UNCHANGED <<rows, clock, sending, pend, ring, awake, got, jobs, snaps>>
    BY <1>10 DEF dispatchVars
  <2>2. FactsKept
    BY <2>1, RowsStill DEF FactsKept, InFlight
  <2>3. RowsShape' /\ SendingShape' /\ PendShape' /\ CommandsShown' /\ DispatchOfOneLifetime'
    BY <2>2, FactsKeptStep
  <2>4. PlaneShape' /\ NoStrandedCommand'
    BY <2>1 DEF DispatchInv, PlaneShape, JobShape, NoStrandedCommand
  <2> QED
    BY <2>3, <2>4 DEF DispatchInv
<1> QED
  BY <1>1, <1>2, <1>3, <1>4, <1>5, <1>6, <1>7, <1>8, <1>9, <1>10 DEF DispatchNext, Deliver

\* Whatever a worker was told is shown in the rows, or being published to them
\* (DispatchPlane.dispatch, DispatchFencedConsumer.consume).
THEOREM DispatchInvariant == ASSUME NoneIsNoRecord PROVE DispatchSpec => []DispatchInv
<1>1. InitDispatch => DispatchInv
  BY DispatchInit
<1>2. DispatchInv /\ [DispatchNext]_dispatchVars => DispatchInv'
  BY DispatchSteps
<1> QED
  BY <1>1, <1>2, PTL DEF DispatchSpec

\* No command is stranded, for any number of slots, workers and commands: a worker
\* that gave up over a command is woken again when its facts are visible
\* (DispatchPlane's second wake-up, DispatchFencedConsumer.consume).
THEOREM CommandsNeverStranded == ASSUME NoneIsNoRecord PROVE DispatchSpec => []NoStrandedCommand
<1>1. DispatchInv => NoStrandedCommand
  BY DEF DispatchInv
<1> QED
  BY <1>1, DispatchInvariant, PTL

\* The dispatch partition of a row is of one lifetime: the source version it shows
\* is that of a snapshot of the request its epoch names (reset_dispatch_fields_for_epoch).
THEOREM OneLifetime == ASSUME NoneIsNoRecord PROVE DispatchSpec => []DispatchOfOneLifetime
<1>1. DispatchInv => DispatchOfOneLifetime
  BY DEF DispatchInv
<1> QED
  BY <1>1, DispatchInvariant, PTL
=============================================================================
